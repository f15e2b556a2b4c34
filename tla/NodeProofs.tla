----------------------------- MODULE NodeProofs -----------------------------
(***************************************************************************)
(* Proofs about the demonstration node and its store, for every set of     *)
(* transactions, accounts and keys, every size of blocks and any number of *)
(* starts: wherever the process ends, the database can be started from;    *)
(* the canonical chain only grows; states read back as they were computed; *)
(* cached positions are canonical; and no transaction is on the chain more *)
(* often than the process was started.                                     *)
(*                                                                         *)
(* The invariant, Inv, says that the database can be started from (DbOK),  *)
(* that memory mirrors it while the process is up, and that this is so of  *)
(* what the database will be once the pending batch is written, so that    *)
(* each of the two writes of a block may be the last.                      *)
(***************************************************************************)
EXTENDS Node, AnySeqProofs, WellFoundedInduction, FiniteSetTheorems, TLAPS

(* f over g. *)
LEMMA OverFacts ==
  ASSUME NEW f, NEW g
  PROVE  /\ DOMAIN (f ++ g) = DOMAIN f \cup DOMAIN g
         /\ \A x \in DOMAIN f : (f ++ g)[x] = f[x]
         /\ \A x \in DOMAIN g : x \notin DOMAIN f => (f ++ g)[x] = g[x]
BY DEF ++

LEMMA AtFacts ==
  ASSUME NEW k, NEW v
  PROVE  DOMAIN At(k, v) = {k} /\ At(k, v)[k] = v
BY DEF At

LEMMA EmptyFacts ==
  DOMAIN Empty = {}
BY DEF Empty

-----------------------------------------------------------------------------
(* The store: d is the database, or what it will be once the batch is      *)
(* written.                                                                *)

CntIn(d, h)      == IF <<"cnt", h>> \in DOMAIN d THEN d[<<"cnt", h>>] ELSE 0
ContainsIn(d, h) == h = NullNode \/ (CntIn(d, h) > 0 /\ <<"data", h>> \in DOMAIN d)

(* Data is stored under its own hash, and what is counted is there. *)
StoreOK(d) ==
  /\ \A h : <<"cnt", h>> \in DOMAIN d =>
       d[<<"cnt", h>>] \in Nat /\ (d[<<"cnt", h>>] > 0 => <<"data", h>> \in DOMAIN d)
  /\ \A h : <<"data", h>> \in DOMAIN d => d[<<"data", h>>] = h.trie

(* The state with this root is there, with the storage of its accounts. *)
IsHash(h) == h = HashOf(h.trie)
SoundIn(d, root) ==
  /\ IsHash(root) /\ ContainsIn(d, root)
  /\ \A a \in DOMAIN root.trie :
       IsHash(root.trie[a].root) /\ ContainsIn(d, root.trie[a].root)

(* The value that a root stands for, whatever the database. *)
Val(root, a, f) ==
  IF a \notin DOMAIN root.trie THEN 0
  ELSE LET acc == root.trie[a]
       IN  IF f \in Scalar THEN acc.scalars[f]
           ELSE IF <<a, f>> \in DOMAIN acc.root.trie THEN acc.root.trie[<<a, f>>] ELSE 0

LEMMA InDb ==
  ASSUME NEW h
  PROVE  Cnt(h) = CntIn(db, h) /\ Contains(h) = ContainsIn(db, h)
BY DEF Cnt, CntIn, Contains, ContainsIn

LEMMA HashFacts ==
  /\ \A m : HashOf(m).trie = m /\ HashOf(m) # ZeroHash /\ IsHash(HashOf(m))
  /\ \A m, n : HashOf(m) = HashOf(n) => m = n
  /\ \A h : IsHash(h) => h # ZeroHash
  /\ IsHash(NullNode) /\ NullNode.trie = Empty
BY DEF HashOf, ZeroHash, IsHash, NullNode

LEMMA NodeDataOfHash ==
  ASSUME StoreOK(db), NEW h, IsHash(h), ContainsIn(db, h)
  PROVE  NodeData(h) = h.trie /\ h # ZeroHash /\ Contains(h) /\ StorageTrie(h) = h.trie
<1>1. h # ZeroHash /\ Contains(h)
  BY HashFacts, InDb
<1>2. NodeData(h) = h.trie
  BY HashFacts DEF NodeData, StoreOK, ContainsIn
<1> QED BY <1>1, <1>2 DEF StorageTrie

(* A sound state reads as its root says. *)
LEMMA ReadSound ==
  ASSUME StoreOK(db), NEW root, SoundIn(db, root), NEW a
  PROVE  /\ \A f : Get(root, a, f) = Val(root, a, f)
         /\ AccountRoot(root, a) = IF a \in DOMAIN root.trie THEN root.trie[a].root ELSE ZeroHash
         /\ StorageTrie(root) = root.trie
         /\ a \in DOMAIN root.trie =>
              /\ StorageTrie(root.trie[a].root) = root.trie[a].root.trie
              /\ root.trie[a].root # ZeroHash
<1>1. NodeData(root) = root.trie /\ root # ZeroHash /\ Contains(root) /\ StorageTrie(root) = root.trie
  BY NodeDataOfHash DEF SoundIn
<1>2. Has(root, a) <=> a \in DOMAIN root.trie
  BY <1>1 DEF Has
<1>3. AccountRoot(root, a) = IF a \in DOMAIN root.trie THEN root.trie[a].root ELSE ZeroHash
  BY <1>1, <1>2 DEF AccountRoot
<1>4. CASE a \notin DOMAIN root.trie
  BY <1>1, <1>2, <1>3, <1>4 DEF Get, Val
<1>5. CASE a \in DOMAIN root.trie
  <2> DEFINE s == root.trie[a].root
  <2>1. NodeData(s) = s.trie /\ s # ZeroHash /\ Contains(s) /\ StorageTrie(s) = s.trie
    BY <1>5, NodeDataOfHash DEF SoundIn
  <2>2. \A k : Has(s, k) <=> k \in DOMAIN s.trie
    BY <2>1 DEF Has
  <2>3. ASSUME NEW f PROVE Get(root, a, f) = Val(root, a, f)
    BY <1>1, <1>2, <1>5, <2>1, <2>2 DEF Get, Val
  <2> QED BY <1>1, <1>3, <1>5, <2>1, <2>3
<1> QED BY <1>4, <1>5

(* What a commit starts from: no state, or a sound one. *)
TrieOf(root) == IF root = ZeroHash THEN Empty ELSE root.trie
Base(root)   == root = ZeroHash \/ SoundIn(db, root)
ValOf(root, a, f) == IF root = ZeroHash THEN 0 ELSE Val(root, a, f)
StorageOf(root, a) ==
  IF a \in DOMAIN TrieOf(root) THEN TrieOf(root)[a].root.trie ELSE Empty

LEMMA ReadBase ==
  ASSUME StoreOK(db), NEW root, Base(root), NEW a
  PROVE  /\ \A f : Get(root, a, f) = ValOf(root, a, f)
         /\ StorageTrie(root) = TrieOf(root)
         /\ StorageTrie(AccountRoot(root, a)) = StorageOf(root, a)
         /\ AccountRoot(root, a) =
              IF a \in DOMAIN TrieOf(root) THEN TrieOf(root)[a].root ELSE ZeroHash
<1>1. CASE root = ZeroHash
  BY <1>1, EmptyFacts DEF Get, Has, ValOf, StorageTrie, TrieOf, AccountRoot, StorageOf
<1>2. CASE root # ZeroHash
  <2>1. SoundIn(db, root)
    BY <1>2 DEF Base
  <2>2. StorageTrie(ZeroHash) = Empty
    BY DEF StorageTrie
  <2> QED BY <1>2, <2>1, <2>2, ReadSound DEF ValOf, TrieOf, StorageOf
<1> QED BY <1>1, <1>2

(* The root that commit makes. *)
LEMMA NewRootFacts ==
  ASSUME StoreOK(db), NEW root, Base(root), NEW delta
  PROVE  LET N == NewRoot(root, delta) IN
         /\ IsHash(N)
         /\ DOMAIN N.trie = DOMAIN delta \cup DOMAIN TrieOf(root)
         /\ \A a \in DOMAIN delta : N.trie[a] = NewAccount(root, a, delta[a])
         /\ \A a \in DOMAIN TrieOf(root) : a \notin DOMAIN delta => N.trie[a] = TrieOf(root)[a]
<1> DEFINE A == [a \in DOMAIN delta |-> NewAccount(root, a, delta[a])]
           T == TrieOf(root)
<1>1. NewRoot(root, delta) = HashOf(A ++ T)
  BY ReadBase DEF NewRoot
<1>2. DOMAIN A = DOMAIN delta /\ \A a \in DOMAIN delta : A[a] = NewAccount(root, a, delta[a])
  OBVIOUS
<1> HIDE DEF A, T
<1>3. /\ DOMAIN (A ++ T) = DOMAIN A \cup DOMAIN T
      /\ \A x \in DOMAIN A : (A ++ T)[x] = A[x]
      /\ \A x \in DOMAIN T : x \notin DOMAIN A => (A ++ T)[x] = T[x]
  BY OverFacts
<1>4. IsHash(HashOf(A ++ T)) /\ HashOf(A ++ T).trie = A ++ T
  BY HashFacts
<1> QED BY <1>1, <1>2, <1>3, <1>4 DEF T

LEMMA NewAccountFacts ==
  ASSUME StoreOK(db), NEW root, Base(root), NEW a, NEW written
  PROVE  LET acc == NewAccount(root, a, written) IN
         /\ IsHash(acc.root)
         /\ \A f \in Scalar :
              acc.scalars[f] = IF f \in DOMAIN written THEN written[f] ELSE ValOf(root, a, f)
         /\ \A k \in Key : k \in DOMAIN written =>
              <<a, k>> \in DOMAIN acc.root.trie /\ acc.root.trie[<<a, k>>] = written[k]
         /\ \A k : k \notin DOMAIN written \cap Key =>
              /\ <<a, k>> \in DOMAIN acc.root.trie <=> <<a, k>> \in DOMAIN StorageOf(root, a)
              /\ <<a, k>> \in DOMAIN StorageOf(root, a) =>
                   acc.root.trie[<<a, k>>] = StorageOf(root, a)[<<a, k>>]
<1> DEFINE W == [p \in {<<a, k>> : k \in DOMAIN written \cap Key} |-> written[p[2]]]
           T == StorageOf(root, a)
           acc == NewAccount(root, a, written)
<1>1. acc.root = HashOf(W ++ T)
  BY ReadBase DEF NewAccount, NewAccountRoot
<1>2. \A f \in Scalar :
        acc.scalars[f] = IF f \in DOMAIN written THEN written[f] ELSE ValOf(root, a, f)
  BY ReadBase DEF NewAccount
<1>3. /\ \A k : <<a, k>> \in DOMAIN W <=> k \in DOMAIN written \cap Key
      /\ \A k \in DOMAIN written \cap Key : W[<<a, k>>] = written[k]
  OBVIOUS
<1> HIDE DEF W, T, acc
<1>4. /\ DOMAIN (W ++ T) = DOMAIN W \cup DOMAIN T
      /\ \A x \in DOMAIN W : (W ++ T)[x] = W[x]
      /\ \A x \in DOMAIN T : x \notin DOMAIN W => (W ++ T)[x] = T[x]
  BY OverFacts
<1>5. IsHash(HashOf(W ++ T)) /\ HashOf(W ++ T).trie = W ++ T
  BY HashFacts
<1> QED BY <1>1, <1>2, <1>3, <1>4, <1>5 DEF T, acc

(* The new root stands for the old values with the changes over them. *)
LEMMA NewRootValues ==
  ASSUME StoreOK(db), NEW root, Base(root), NEW delta, NEW a, NEW f \in Scalar \cup Key
  PROVE  Val(NewRoot(root, delta), a, f)
           = IF a \in DOMAIN delta /\ f \in DOMAIN delta[a] THEN delta[a][f]
             ELSE ValOf(root, a, f)
<1> DEFINE N == NewRoot(root, delta)
           T == TrieOf(root)
<1>1. /\ DOMAIN N.trie = DOMAIN delta \cup DOMAIN T
      /\ a \in DOMAIN delta => N.trie[a] = NewAccount(root, a, delta[a])
      /\ a \in DOMAIN T => (a \notin DOMAIN delta => N.trie[a] = T[a])
  BY NewRootFacts
<1>2. ValOf(root, a, f) = IF a \notin DOMAIN T THEN 0
                          ELSE IF f \in Scalar THEN T[a].scalars[f]
                          ELSE IF <<a, f>> \in DOMAIN T[a].root.trie
                               THEN T[a].root.trie[<<a, f>>] ELSE 0
  BY EmptyFacts DEF ValOf, Val, TrieOf
<1>3. StorageOf(root, a) = IF a \in DOMAIN T THEN T[a].root.trie ELSE Empty
  BY DEF StorageOf
<1> HIDE DEF N, T
<1>4. CASE a \in DOMAIN delta
  <2> DEFINE acc == NewAccount(root, a, delta[a])
  <2>1. /\ f \in Scalar =>
             acc.scalars[f] = IF f \in DOMAIN delta[a] THEN delta[a][f] ELSE ValOf(root, a, f)
        /\ f \in Key => (f \in DOMAIN delta[a] =>
             <<a, f>> \in DOMAIN acc.root.trie /\ acc.root.trie[<<a, f>>] = delta[a][f])
        /\ f \notin DOMAIN delta[a] =>
             /\ <<a, f>> \in DOMAIN acc.root.trie <=> <<a, f>> \in DOMAIN StorageOf(root, a)
             /\ <<a, f>> \in DOMAIN StorageOf(root, a) =>
                  acc.root.trie[<<a, f>>] = StorageOf(root, a)[<<a, f>>]
    BY NewAccountFacts
  <2> HIDE DEF acc
  <2>2. N.trie[a] = acc
    BY <1>1, <1>4 DEF acc
  <2>3. Val(N, a, f) = IF f \in Scalar THEN acc.scalars[f]
                       ELSE IF <<a, f>> \in DOMAIN acc.root.trie
                            THEN acc.root.trie[<<a, f>>] ELSE 0
    BY <1>1, <1>4, <2>2 DEF Val
  <2>4. CASE f \in Scalar
    BY <1>4, <2>1, <2>3, <2>4 DEF N
  <2>5. CASE f \notin Scalar
    BY <1>2, <1>3, <1>4, <2>1, <2>3, <2>5, EmptyFacts DEF N
  <2> QED BY <2>4, <2>5
<1>5. CASE a \notin DOMAIN delta
  BY <1>1, <1>2, <1>5 DEF Val, N
<1> QED BY <1>4, <1>5

-----------------------------------------------------------------------------
(* What commit adds to the store.                                          *)

LEMMA EmplacedFacts ==
  ASSUME NEW S
  PROVE  /\ \A x, h : <<x, h>> \in DOMAIN Emplaced(S) <=>
              h \in S \ {NullNode} /\ (x = "cnt" \/ (x = "data" /\ Cnt(h) <= 0))
         /\ \A h : <<"cnt", h>> \in DOMAIN Emplaced(S) =>
              Emplaced(S)[<<"cnt", h>>] = Cnt(h) + 1
         /\ \A h : <<"data", h>> \in DOMAIN Emplaced(S) =>
              Emplaced(S)[<<"data", h>>] = h.trie
<1> DEFINE made == S \ {NullNode}
           C == [k \in {"cnt"} \X made |-> Cnt(k[2]) + 1]
           D == [k \in {"data"} \X {h \in made : Cnt(h) <= 0} |-> k[2].trie]
<1>1. Emplaced(S) = C ++ D
  BY DEF Emplaced
<1>2. /\ \A x, h : <<x, h>> \in DOMAIN C <=> x = "cnt" /\ h \in made
      /\ \A h \in made : C[<<"cnt", h>>] = Cnt(h) + 1
  OBVIOUS
<1>3. /\ \A x, h : <<x, h>> \in DOMAIN D <=> x = "data" /\ h \in made /\ Cnt(h) <= 0
      /\ \A h \in made : Cnt(h) <= 0 => D[<<"data", h>>] = h.trie
  OBVIOUS
<1> HIDE DEF C, D
<1>4. /\ DOMAIN (C ++ D) = DOMAIN C \cup DOMAIN D
      /\ \A x \in DOMAIN C : (C ++ D)[x] = C[x]
      /\ \A x \in DOMAIN D : x \notin DOMAIN C => (C ++ D)[x] = D[x]
  BY OverFacts
<1> QED BY <1>1, <1>2, <1>3, <1>4

(* Nothing under f. *)
LEMMA OverNothing ==
  ASSUME NEW f, NEW g, DOMAIN g = {}
  PROVE  DOMAIN (f ++ g) = DOMAIN f /\ \A x \in DOMAIN f : (f ++ g)[x] = f[x]
<1>1. DOMAIN f \cup DOMAIN g = DOMAIN f
  OBVIOUS
<1>2. DOMAIN (f ++ g) = DOMAIN f \cup DOMAIN g
  BY OverFacts
<1>3. \A x \in DOMAIN f : (f ++ g)[x] = f[x]
  BY OverFacts
<1> QED BY <1>1, <1>2, <1>3

(* Both kinds of keys of the store, in e, are those of the batch f and     *)
(* those of d.                                                             *)
StoreOver(e, f, d) ==
  \A x \in {"cnt", "data"} : \A h :
    /\ <<x, h>> \in DOMAIN e <=> <<x, h>> \in DOMAIN f \cup DOMAIN d
    /\ <<x, h>> \in DOMAIN f => e[<<x, h>>] = f[<<x, h>>]
    /\ <<x, h>> \in DOMAIN d => (<<x, h>> \notin DOMAIN f => e[<<x, h>>] = d[<<x, h>>])

(* Emplacing keeps the store sound and every node that was there. *)
LEMMA EmplacedStore ==
  ASSUME StoreOK(db), NEW S, NEW e, StoreOver(e, Emplaced(S), db)
  PROVE  /\ StoreOK(e)
         /\ \A h : ContainsIn(db, h) => ContainsIn(e, h)
         /\ \A h \in S : ContainsIn(e, h)
<1>1. ASSUME NEW h
      PROVE  Cnt(h) \in Nat /\ (Cnt(h) > 0 => <<"data", h>> \in DOMAIN db)
  <2>1. CASE <<"cnt", h>> \in DOMAIN db
    <3>1. Cnt(h) = db[<<"cnt", h>>]
      BY <2>1 DEF Cnt
    <3> QED BY <2>1, <3>1 DEF StoreOK
  <2>2. CASE <<"cnt", h>> \notin DOMAIN db
    <3>1. Cnt(h) = 0
      BY <2>2 DEF Cnt
    <3> QED BY <3>1
  <2> QED BY <2>1, <2>2
<1>2. ASSUME NEW h \in S \ {NullNode}
      PROVE  /\ <<"cnt", h>> \in DOMAIN e /\ e[<<"cnt", h>>] = Cnt(h) + 1
             /\ <<"data", h>> \in DOMAIN e
  <2>1. <<"cnt", h>> \in DOMAIN Emplaced(S) /\ Emplaced(S)[<<"cnt", h>>] = Cnt(h) + 1
    BY EmplacedFacts
  <2>2. Cnt(h) <= 0 => <<"data", h>> \in DOMAIN Emplaced(S)
    BY EmplacedFacts
  <2>3. Cnt(h) > 0 => <<"data", h>> \in DOMAIN db
    BY <1>1
  <2>4. Cnt(h) <= 0 \/ Cnt(h) > 0
    <3>1. Cnt(h) \in Nat
      BY <1>1
    <3> QED BY <3>1
  <2> QED BY <2>1, <2>2, <2>3, <2>4 DEF StoreOver
<1>3. ASSUME NEW h, h \notin S \ {NullNode}
      PROVE  /\ <<"cnt", h>> \in DOMAIN e <=> <<"cnt", h>> \in DOMAIN db
             /\ <<"cnt", h>> \in DOMAIN db => e[<<"cnt", h>>] = db[<<"cnt", h>>]
  <2>1. <<"cnt", h>> \notin DOMAIN Emplaced(S)
    BY <1>3, EmplacedFacts
  <2> QED BY <2>1 DEF StoreOver
<1>4. \A h : <<"data", h>> \in DOMAIN db => <<"data", h>> \in DOMAIN e
  BY DEF StoreOver
<1>5. \A h : <<"data", h>> \in DOMAIN e => e[<<"data", h>>] = h.trie
  <2> TAKE h
  <2> HAVE <<"data", h>> \in DOMAIN e
  <2>1. CASE <<"data", h>> \in DOMAIN Emplaced(S)
    <3>1. Emplaced(S)[<<"data", h>>] = h.trie
      BY <2>1, EmplacedFacts
    <3> QED BY <2>1, <3>1 DEF StoreOver
  <2>2. CASE <<"data", h>> \notin DOMAIN Emplaced(S)
    <3>1. <<"data", h>> \in DOMAIN db /\ e[<<"data", h>>] = db[<<"data", h>>]
      BY <2>2 DEF StoreOver
    <3> QED BY <3>1 DEF StoreOK
  <2> QED BY <2>1, <2>2
<1>6. \A h : <<"cnt", h>> \in DOMAIN e =>
        e[<<"cnt", h>>] \in Nat /\ (e[<<"cnt", h>>] > 0 => <<"data", h>> \in DOMAIN e)
  <2> TAKE h
  <2> HAVE <<"cnt", h>> \in DOMAIN e
  <2>1. CASE h \in S \ {NullNode}
    BY <1>1, <1>2, <2>1
  <2>2. CASE h \notin S \ {NullNode}
    <3>1. <<"cnt", h>> \in DOMAIN db /\ e[<<"cnt", h>>] = db[<<"cnt", h>>]
      BY <1>3, <2>2
    <3> QED BY <1>4, <3>1 DEF StoreOK
  <2> QED BY <2>1, <2>2
<1>7. StoreOK(e)
  BY <1>5, <1>6 DEF StoreOK
<1>8. \A h \in S : ContainsIn(e, h)
  <2> TAKE h \in S
  <2>1. CASE h = NullNode
    BY <2>1 DEF ContainsIn
  <2>2. CASE h # NullNode
    BY <1>1, <1>2, <2>2 DEF ContainsIn, CntIn
  <2> QED BY <2>1, <2>2
<1>9. ASSUME NEW h, ContainsIn(db, h) PROVE ContainsIn(e, h)
  <2>1. CASE h = NullNode
    BY <2>1 DEF ContainsIn
  <2>2. CASE h \in S
    BY <1>8, <2>2
  <2>3. CASE h # NullNode /\ h \notin S
    BY <1>3, <1>4, <1>9, <2>3 DEF ContainsIn, CntIn
  <2> QED BY <2>1, <2>2, <2>3
<1> QED BY <1>7, <1>8, <1>9

LEMMA SoundStays ==
  ASSUME NEW d, NEW e, \A h : ContainsIn(d, h) => ContainsIn(e, h),
         NEW root, SoundIn(d, root)
  PROVE  SoundIn(e, root)
BY DEF SoundIn

LEMMA FreshFacts ==
  ASSUME NEW root, NEW delta
  PROVE  LET N == NewRoot(root, delta)
             F == Fresh(Tries(root, N, delta)) IN
         /\ N \in F \/ N = root
         /\ \A a \in DOMAIN delta : N.trie[a].root \in F \/ N.trie[a].root = AccountRoot(root, a)
<1> DEFINE N == NewRoot(root, delta)
           T == Tries(root, N, delta)
<1>1. <<root, N>> \in T /\ \A a \in DOMAIN delta : <<AccountRoot(root, a), N.trie[a].root>> \in T
  BY DEF Tries
<1> HIDE DEF N, T
<1>2. \A x, y : <<x, y>> \in T => y \in Fresh(T) \/ x = y
  <2> SUFFICES ASSUME NEW x, NEW y, <<x, y>> \in T, x # y PROVE y \in Fresh(T)
    OBVIOUS
  <2>1. <<x, y>> \in {t \in T : t[1] # t[2]} /\ <<x, y>>[2] = y
    OBVIOUS
  <2> QED BY <2>1 DEF Fresh
<1> QED BY <1>1, <1>2 DEF N, T

(* Once the batch of a commit is written, the state with the new root is   *)
(* there, and nothing is lost.                                             *)
LEMMA CommittedStore ==
  ASSUME StoreOK(db), wb = Empty, NEW root, Base(root), NEW delta,
         NEW e, StoreOver(e, Committed(root, delta), db)
  PROVE  /\ StoreOK(e)
         /\ \A h : ContainsIn(db, h) => ContainsIn(e, h)
         /\ SoundIn(e, NewRoot(root, delta))
<1> DEFINE N == NewRoot(root, delta)
           F == Fresh(Tries(root, N, delta))
           R == Removed(Replaced(Tries(root, N, delta)))
<1>1. Committed(root, delta) = Emplaced(F) ++ R ++ wb
  BY DEF Committed
<1>2. DOMAIN R = {} /\ DOMAIN wb = {}
  BY EmptyFacts DEF Removed
<1> HIDE DEF N, F, R
<1>3. /\ DOMAIN (Emplaced(F) ++ R) = DOMAIN Emplaced(F)
      /\ \A x \in DOMAIN Emplaced(F) : (Emplaced(F) ++ R)[x] = Emplaced(F)[x]
  BY <1>2, OverNothing
<1>4. /\ DOMAIN (Emplaced(F) ++ R ++ wb) = DOMAIN (Emplaced(F) ++ R)
      /\ \A x \in DOMAIN (Emplaced(F) ++ R) : (Emplaced(F) ++ R ++ wb)[x] = (Emplaced(F) ++ R)[x]
  BY <1>2, OverNothing
<1>5. StoreOver(e, Emplaced(F), db)
  BY <1>1, <1>3, <1>4 DEF StoreOver
<1>6. /\ StoreOK(e)
      /\ \A h : ContainsIn(db, h) => ContainsIn(e, h)
      /\ \A h \in F : ContainsIn(e, h)
  BY <1>5, EmplacedStore
<1>7. /\ N \in F \/ N = root
      /\ \A a \in DOMAIN delta : N.trie[a].root \in F \/ N.trie[a].root = AccountRoot(root, a)
  BY FreshFacts DEF N, F
<1>8. /\ IsHash(N)
      /\ DOMAIN N.trie = DOMAIN delta \cup DOMAIN TrieOf(root)
      /\ \A a \in DOMAIN delta : N.trie[a] = NewAccount(root, a, delta[a])
      /\ \A a \in DOMAIN TrieOf(root) : a \notin DOMAIN delta => N.trie[a] = TrieOf(root)[a]
  BY NewRootFacts DEF N
<1>9. ContainsIn(e, N)
  <2>1. CASE N \in F
    BY <1>6, <2>1
  <2>2. CASE N = root
    BY <1>6, <1>8, <2>2, HashFacts DEF Base, SoundIn
  <2> QED BY <1>7, <2>1, <2>2
<1>10. \A a \in DOMAIN TrieOf(root) :
         IsHash(TrieOf(root)[a].root) /\ ContainsIn(e, TrieOf(root)[a].root)
  BY <1>6, EmptyFacts DEF TrieOf, Base, SoundIn
<1>11. ASSUME NEW a \in DOMAIN N.trie
       PROVE  IsHash(N.trie[a].root) /\ ContainsIn(e, N.trie[a].root)
  <2>1. CASE a \in DOMAIN delta
    <3>1. IsHash(N.trie[a].root)
      BY <1>8, <2>1, NewAccountFacts
    <3>2. CASE N.trie[a].root \in F
      BY <1>6, <3>1, <3>2
    <3>3. CASE N.trie[a].root = AccountRoot(root, a)
      <4>1. AccountRoot(root, a) = IF a \in DOMAIN TrieOf(root) THEN TrieOf(root)[a].root ELSE ZeroHash
        BY ReadBase
      <4> QED BY <1>10, <3>1, <3>3, <4>1, HashFacts
    <3> QED BY <1>7, <2>1, <3>2, <3>3
  <2>2. CASE a \notin DOMAIN delta
    BY <1>8, <1>10, <2>2
  <2> QED BY <2>1, <2>2
<1> QED BY <1>6, <1>8, <1>9, <1>11 DEF SoundIn, N

(* A commit leaves every other record alone. *)
LEMMA CommittedKeys ==
  ASSUME wb = Empty, NEW root, NEW delta
  PROVE  \A x, y : <<x, y>> \in DOMAIN Committed(root, delta) => x \in {"cnt", "data"}
<1> DEFINE F == Fresh(Tries(root, NewRoot(root, delta), delta))
           R == Removed(Replaced(Tries(root, NewRoot(root, delta), delta)))
<1>1. Committed(root, delta) = Emplaced(F) ++ R ++ wb
  BY DEF Committed
<1>2. DOMAIN R = {} /\ DOMAIN wb = {}
  BY EmptyFacts DEF Removed
<1> HIDE DEF F, R
<1>3. DOMAIN (Emplaced(F) ++ R) = DOMAIN Emplaced(F)
  BY <1>2, OverNothing
<1>4. DOMAIN (Emplaced(F) ++ R ++ wb) = DOMAIN (Emplaced(F) ++ R)
  BY <1>2, OverNothing
<1> QED BY <1>1, <1>3, <1>4, EmplacedFacts

-----------------------------------------------------------------------------
(* The invariant.                                                          *)

(* out is an outcome of the first k of txs: while each of them succeeded,  *)
(* the entries are theirs, in order.                                       *)
OutcomeTo(out, txs, k) ==
  /\ out = [gas_used |-> out.gas_used, succeeded |-> out.succeeded]
  /\ out.gas_used \in Seq(Tx)
  /\ out.succeeded \subseteq 1 .. k
  /\ 1 .. k \subseteq out.succeeded => Len(out.gas_used) = k
  /\ \A n \in 1 .. k : 1 .. n \subseteq out.succeeded =>
       n <= Len(out.gas_used) /\ out.gas_used[n] = txs[n]

(* A block that can be served: its state is there, and its outcome. *)
OutcomeOK(out, txs) == OutcomeTo(out, txs, Len(txs))
GoodBlock(d, b) ==
  /\ b.txs \in Seq(Tx) /\ Len(b.txs) <= MaxBlockTxs
  /\ SoundIn(d, b.root)
  /\ OutcomeKey(b) \in DOMAIN d /\ OutcomeOK(d[OutcomeKey(b)], b.txs)

(* d is a database that the process can be started on. *)
DbOK(d) ==
  /\ StoreOK(d)
  /\ BlockKey(ZeroHash) \in DOMAIN d /\ IndexKey(0) \in DOMAIN d
  /\ d[IndexKey(0)] \in Nat \ {0}
  /\ d[IndexKey(1)] = d[BlockKey(ZeroHash)]
  /\ \A i \in 1 .. d[IndexKey(0)] :
       /\ IndexKey(i) \in DOMAIN d
       /\ d[IndexKey(i)].number = i - 1
       /\ i > 1 => /\ d[IndexKey(i)].parent = d[IndexKey(i - 1)]
                   /\ BlockKey(d[IndexKey(i)]) \in DOMAIN d
       /\ GoodBlock(d, d[IndexKey(i)])

(* The canonical chain in memory is the one in d. *)
Mirrors(d) ==
  /\ DbOK(d)
  /\ IsSeq(indexed) /\ Len(indexed) = d[IndexKey(0)]
  /\ \A i \in 1 .. Len(indexed) : indexed[i] = d[IndexKey(i)]

(* b is stored, and next on the canonical chain. *)
TipOK(d, b) ==
  /\ b \in tree /\ b.number = Len(indexed) /\ b.parent = Latest
  /\ BlockKey(b) \in DOMAIN d /\ GoodBlock(d, b)

Types ==
  /\ process \in {"Down", "Up"}
  /\ mempool \in {"Alive", "Dead"} /\ ticker \in {"Alive", "Dead"}
  /\ phase \in Phases
  /\ tx_queue \in Seq(Tx) /\ in_queue \subseteq Tx
  /\ starts \in 0 .. MaxStarts

DownOK ==
  process = "Down" =>
    /\ db = Empty \/ (DbOK(db) /\ \A i \in 1 .. db[IndexKey(0)] : db[IndexKey(i)] \in DOMAIN worlds)
    /\ wb = Empty
    /\ tree = {} /\ indexed = <<>> /\ tx_cache = Empty
    /\ tx_queue = <<>> /\ in_queue = {} /\ phase = "Idle" /\ blocks = <<>>

UpOK ==
  process = "Up" =>
    /\ Mirrors(db)
    /\ \A i \in 1 .. Len(indexed) : indexed[i] \in tree
    /\ tree \subseteq DOMAIN worlds

(* The state that each block was computed to lead to is what its root      *)
(* stands for.                                                             *)
WorldsOK ==
  \A b \in DOMAIN worlds : \A a \in Acct : \A f \in Scalar \cup Key :
    worlds[b][a][f] = Val(b.root, a, f)

BlocksOK ==
  /\ IsSeq(blocks)
  /\ phase \in {"Adding", "Running", "Executed", "Written"} => Len(blocks) > 0
  /\ \A i \in 1 .. Len(blocks) :
       blocks[i].txs \in Seq(Tx) /\ Len(blocks[i].txs) <= MaxBlockTxs

RunOK ==
  phase = "Running" =>
    /\ run = [delta |-> run.delta, outcome |-> run.outcome, next |-> run.next]
    /\ run.next \in Nat \ {0} /\ run.next <= Len(blocks[1].txs) + 1
    /\ OutcomeTo(run.outcome, blocks[1].txs, run.next - 1)

(* What the database is once the batch is written. *)
Batched == Empty ++ wb ++ db

BatchOK ==
  /\ phase # "Executed" => wb = Empty
  /\ phase = "Executed" => Mirrors(Batched) /\ TipOK(Batched, blocks[1])
  /\ phase = "Written"  => TipOK(db, blocks[1])

CacheOK ==
  /\ DOMAIN tx_cache \subseteq Tx
  /\ \A t \in DOMAIN tx_cache :
       /\ \E i \in 1 .. Len(indexed) : tx_cache[t].block = indexed[i]
       /\ tx_cache[t].idx \in 1 .. Len(tx_cache[t].block.txs)
       /\ tx_cache[t].block.txs[tx_cache[t].idx] = t

Inv ==
  Types /\ DownOK /\ UpOK /\ WorldsOK /\ BlocksOK /\ RunOK /\ BatchOK /\ CacheOK

-----------------------------------------------------------------------------
(* Databases that grow.                                                    *)

LEMMA GoodBlockStays ==
  ASSUME NEW d, NEW e, \A h : ContainsIn(d, h) => ContainsIn(e, h),
         NEW b, GoodBlock(d, b),
         OutcomeKey(b) \in DOMAIN e, e[OutcomeKey(b)] = d[OutcomeKey(b)]
  PROVE  GoodBlock(e, b)
BY SoundStays DEF GoodBlock

LEMMA DbStays ==
  ASSUME NEW d, DbOK(d), NEW e, StoreOK(e), \A h : ContainsIn(d, h) => ContainsIn(e, h),
         BlockKey(ZeroHash) \in DOMAIN e, e[BlockKey(ZeroHash)] = d[BlockKey(ZeroHash)],
         \A i \in 0 .. d[IndexKey(0)] : IndexKey(i) \in DOMAIN e /\ e[IndexKey(i)] = d[IndexKey(i)],
         \A i \in 1 .. d[IndexKey(0)] :
           /\ i > 1 => BlockKey(d[IndexKey(i)]) \in DOMAIN e
           /\ OutcomeKey(d[IndexKey(i)]) \in DOMAIN e
           /\ e[OutcomeKey(d[IndexKey(i)])] = d[OutcomeKey(d[IndexKey(i)])]
  PROVE  DbOK(e)
<1> DEFINE N == d[IndexKey(0)]
<1>1. N \in Nat \ {0} /\ 0 \in 0 .. N /\ 1 \in 0 .. N
  BY DEF DbOK
<1>2. IndexKey(0) \in DOMAIN e /\ e[IndexKey(0)] = N /\ e[IndexKey(1)] = e[BlockKey(ZeroHash)]
  BY <1>1 DEF DbOK
<1>3. ASSUME NEW i \in 1 .. N
      PROVE  /\ IndexKey(i) \in DOMAIN e
             /\ e[IndexKey(i)].number = i - 1
             /\ i > 1 => /\ e[IndexKey(i)].parent = e[IndexKey(i - 1)]
                         /\ BlockKey(e[IndexKey(i)]) \in DOMAIN e
             /\ GoodBlock(e, e[IndexKey(i)])
  <2>1. i \in 0 .. N /\ i - 1 \in 0 .. N
    BY <1>1
  <2>2. /\ IndexKey(i) \in DOMAIN e /\ e[IndexKey(i)] = d[IndexKey(i)]
        /\ e[IndexKey(i - 1)] = d[IndexKey(i - 1)]
    BY <2>1
  <2>3. GoodBlock(d, d[IndexKey(i)])
    BY DEF DbOK
  <2>4. GoodBlock(e, d[IndexKey(i)])
    BY <2>3, GoodBlockStays
  <2>5. /\ d[IndexKey(i)].number = i - 1
        /\ i > 1 => d[IndexKey(i)].parent = d[IndexKey(i - 1)]
    BY DEF DbOK
  <2> QED BY <2>2, <2>4, <2>5
<1> QED BY <1>1, <1>2, <1>3 DEF DbOK

-----------------------------------------------------------------------------
(* The path to a block that is next on the canonical chain.                *)

Linked(b) ==
  /\ IsSeq(indexed) /\ Len(indexed) > 0
  /\ \A i \in 1 .. Len(indexed) :
       /\ indexed[i] \in tree /\ indexed[i].number = i - 1
       /\ i > 1 => indexed[i].parent = indexed[i - 1]
  /\ b \in tree /\ b.number = Len(indexed) /\ b.parent = Latest

LEMMA LeastNatural ==
  ASSUME NEW S \in SUBSET Nat, S # {}
  PROVE  \E m \in S : \A n \in S : m <= n
<1> DEFINE R == OpToRel(<, Nat)
<1>1. IsWellFoundedOn(R, Nat)
  BY NatLessThanWellFounded
<1>2. \A x, y \in Nat : y < x => <<y, x>> \in R
  BY DEF OpToRel
<1> HIDE DEF R
<1>3. PICK m \in S : \A y \in S : ~ (<<y, m>> \in R)
  BY <1>1, WFMin
<1>4. ASSUME NEW y \in S PROVE m <= y
  <2>1. y \in Nat /\ m \in Nat
    OBVIOUS
  <2>2. ~ (y < m)
    BY <1>2, <1>3, <2>1
  <2> QED BY <2>1, <2>2
<1> QED BY <1>4

LEMMA LineageIsChain ==
  ASSUME NEW b, Linked(b)
  PROVE  Lineage(b) = {b} \cup {indexed[i] : i \in 1 .. Len(indexed)}
<1> DEFINE L == Len(indexed)
           C == {b} \cup {indexed[i] : i \in 1 .. L}
<1>1. L \in Nat /\ L > 0
  BY IsSeqFacts DEF Linked
<1>2. ASSUME NEW x \in Lineage(b) PROVE x \in C
  <2>1. C \in SUBSET tree
    BY DEF Linked
  <2>2. b \in C
    OBVIOUS
  <2>3. \A y \in C : y.number > 0 => y.parent \in C
    <3> TAKE y \in C
    <3> HAVE y.number > 0
    <3>1. CASE y = b
      <4>1. y.parent = indexed[L] /\ L \in 1 .. L
        BY <1>1, <3>1 DEF Linked, Latest
      <4> QED BY <4>1
    <3>2. CASE y # b
      <4>1. PICK i \in 1 .. L : y = indexed[i]
        BY <3>2
      <4>2. i > 1
        BY <1>1, <4>1 DEF Linked
      <4>3. y.parent = indexed[i - 1] /\ i - 1 \in 1 .. L
        BY <1>1, <4>1, <4>2 DEF Linked
      <4> QED BY <4>3
    <3> QED BY <3>1, <3>2
  <2> HIDE DEF C
  <2> QED BY <2>1, <2>2, <2>3 DEF Lineage
<1>3. ASSUME NEW S \in SUBSET tree, b \in S, \A y \in S : y.number > 0 => y.parent \in S
      PROVE  \A i \in 1 .. L : indexed[i] \in S
  <2> DEFINE D == {k \in Nat : k < L /\ indexed[L - k] \notin S}
  <2>1. SUFFICES ASSUME D # {} PROVE FALSE
    <3>1. ASSUME NEW i \in 1 .. L, indexed[i] \notin S PROVE L - i \in D
      <4>1. L - i \in Nat /\ L - i < L /\ L - (L - i) = i
        BY <1>1
      <4> QED BY <3>1, <4>1
    <3> QED BY <3>1
  <2>2. PICK k \in D : \A n \in D : k <= n
    BY <2>1, LeastNatural
  <2>3. k \in Nat /\ k < L /\ indexed[L - k] \notin S
    OBVIOUS
  <2>4. CASE k = 0
    <3>1. indexed[L] = b.parent /\ b.number > 0
      BY <1>1 DEF Linked, Latest
    <3>2. L - 0 = L
      BY <1>1
    <3> QED BY <1>3, <2>3, <2>4, <3>1, <3>2
  <2>5. CASE k > 0
    <3>1. k - 1 \in Nat /\ k - 1 < L /\ ~(k <= k - 1) /\ L - (k - 1) = (L - k) + 1
          /\ (L - k) + 1 \in 1 .. L /\ (L - k) + 1 > 1 /\ ((L - k) + 1) - 1 = L - k
      BY <1>1, <2>3, <2>5
    <3>2. k - 1 \notin D
      BY <2>2, <3>1
    <3>3. indexed[(L - k) + 1] \in S
      BY <3>1, <3>2
    <3> DEFINE j == (L - k) + 1
    <3>4. indexed[j].number > 0 /\ indexed[j].parent = indexed[L - k]
      <4>1. j \in 1 .. L /\ j > 1 /\ j - 1 = L - k /\ j - 1 > 0
        BY <3>1
      <4> HIDE DEF j
      <4> QED BY <4>1 DEF Linked
    <3> QED BY <1>3, <2>3, <3>3, <3>4
  <2> QED BY <2>3, <2>4, <2>5
<1>4. \A x \in C : x \in tree
  BY DEF Linked
<1>5. ASSUME NEW x \in C PROVE x \in Lineage(b)
  <2>1. \A S \in SUBSET tree : b \in S /\ (\A y \in S : y.number > 0 => y.parent \in S) => x \in S
    BY <1>3
  <2> QED BY <1>4, <2>1 DEF Lineage
<1> QED BY <1>2, <1>5

LEMMA PathIsChain ==
  ASSUME NEW b, Linked(b)
  PROVE  /\ \A i \in 1 .. Len(indexed) : Path(b)[i] = indexed[i]
         /\ Path(b)[Len(indexed) + 1] = b
         /\ Replaces(b, Path(b)) = {Len(indexed) + 1}
<1> DEFINE L == Len(indexed)
           line == Lineage(b)
<1>1. L \in Nat /\ L > 0 /\ b.number = L
  BY IsSeqFacts DEF Linked
<1>2. line = {b} \cup {indexed[i] : i \in 1 .. L}
  BY LineageIsChain
<1>3. Path(b) = [i \in 1 .. L + 1 |-> CHOOSE x \in line : x.number = i - 1]
  BY <1>1 DEF Path
<1> HIDE DEF line
<1>4. ASSUME NEW i \in 1 .. L PROVE Path(b)[i] = indexed[i]
  <2>1. indexed[i] \in line /\ indexed[i].number = i - 1
    BY <1>2 DEF Linked
  <2>2. ASSUME NEW x \in line, x.number = i - 1 PROVE x = indexed[i]
    <3>1. x # b
      BY <1>1, <2>2
    <3>2. PICK j \in 1 .. L : x = indexed[j]
      BY <1>2, <3>1
    <3>3. x.number = j - 1
      BY <3>2 DEF Linked
    <3> QED BY <1>1, <2>2, <3>2, <3>3
  <2>3. (CHOOSE x \in line : x.number = i - 1) = indexed[i]
    BY <2>1, <2>2
  <2>4. i \in 1 .. L + 1
    BY <1>1
  <2> QED BY <1>3, <2>3, <2>4
<1>5. Path(b)[L + 1] = b
  <2>1. b \in line /\ b.number = (L + 1) - 1 /\ L + 1 \in 1 .. L + 1
    BY <1>1, <1>2
  <2>2. ASSUME NEW x \in line, x.number = (L + 1) - 1 PROVE x = b
    <3>1. SUFFICES ASSUME x # b PROVE FALSE
      OBVIOUS
    <3>2. PICK j \in 1 .. L : x = indexed[j]
      BY <1>2, <3>1
    <3>3. x.number = j - 1
      BY <3>2 DEF Linked
    <3> QED BY <1>1, <2>2, <3>3
  <2>3. (CHOOSE x \in line : x.number = (L + 1) - 1) = b
    BY <2>1, <2>2
  <2> QED BY <1>3, <2>1, <2>3
<1>6. Replaces(b, Path(b)) = {L + 1}
  <2> DEFINE same == {i \in 1 .. b.number + 1 : i <= Len(indexed) /\ indexed[i] = Path(b)[i]}
  <2>1. same = 1 .. L
    BY <1>1, <1>4
  <2>2. Replaces(b, Path(b)) = {i \in 1 .. L + 1 : \A j \in same : j < i}
    BY <1>1 DEF Replaces
  <2> HIDE DEF same
  <2>3. L \in same
    BY <1>1, <2>1
  <2>4. ASSUME NEW i \in 1 .. L + 1, \A j \in same : j < i PROVE i = L + 1
    BY <1>1, <2>3, <2>4
  <2>5. \A j \in same : j < L + 1
    BY <1>1, <2>1
  <2>6. L + 1 \in 1 .. L + 1
    BY <1>1
  <2> QED BY <2>2, <2>4, <2>5, <2>6
<1> QED BY <1>4, <1>5, <1>6

-----------------------------------------------------------------------------
(* The two writes of AddBlocks.                                            *)

LEMMA SameStore ==
  ASSUME NEW d, StoreOK(d), NEW e,
         \A x \in {"cnt", "data"} : \A h :
           /\ <<x, h>> \in DOMAIN e <=> <<x, h>> \in DOMAIN d
           /\ <<x, h>> \in DOMAIN d => e[<<x, h>>] = d[<<x, h>>]
  PROVE  StoreOK(e) /\ \A h : ContainsIn(d, h) => ContainsIn(e, h)
<1>1. \A h : CntIn(e, h) = CntIn(d, h)
  BY DEF CntIn
<1>2. \A h : ContainsIn(d, h) => ContainsIn(e, h)
  BY <1>1 DEF ContainsIn
<1>3. ASSUME NEW h, <<"cnt", h>> \in DOMAIN e
      PROVE  e[<<"cnt", h>>] \in Nat /\ (e[<<"cnt", h>>] > 0 => <<"data", h>> \in DOMAIN e)
  <2>1. <<"cnt", h>> \in DOMAIN d /\ e[<<"cnt", h>>] = d[<<"cnt", h>>]
    BY <1>3
  <2> QED BY <2>1 DEF StoreOK
<1>4. ASSUME NEW h, <<"data", h>> \in DOMAIN e PROVE e[<<"data", h>>] = h.trie
  BY <1>4 DEF StoreOK
<1> QED BY <1>2, <1>3, <1>4 DEF StoreOK

LEMMA BatchLookup ==
  ASSUME NEW A, NEW C, NEW d
  PROVE  LET e == Empty ++ (A ++ C) ++ d IN
         /\ \A x : x \in DOMAIN e <=> x \in DOMAIN A \/ x \in DOMAIN C \/ x \in DOMAIN d
         /\ \A x \in DOMAIN A : e[x] = A[x]
         /\ \A x \in DOMAIN C : x \notin DOMAIN A => e[x] = C[x]
         /\ \A x \in DOMAIN d : x \notin DOMAIN A /\ x \notin DOMAIN C => e[x] = d[x]
<1> DEFINE f == A ++ C
           g == Empty ++ f
<1>1. /\ DOMAIN f = DOMAIN A \cup DOMAIN C
      /\ \A x \in DOMAIN A : f[x] = A[x]
      /\ \A x \in DOMAIN C : x \notin DOMAIN A => f[x] = C[x]
  BY OverFacts
<1> HIDE DEF f
<1>2. DOMAIN g = DOMAIN f /\ \A x \in DOMAIN f : g[x] = f[x]
  BY EmptyFacts DEF ++
<1> HIDE DEF g
<1>3. /\ DOMAIN (g ++ d) = DOMAIN g \cup DOMAIN d
      /\ \A x \in DOMAIN g : (g ++ d)[x] = g[x]
      /\ \A x \in DOMAIN d : x \notin DOMAIN g => (g ++ d)[x] = d[x]
  BY OverFacts
<1> QED BY <1>1, <1>2, <1>3 DEF f, g

LEMMA BlockFacts ==
  /\ \A n, p, r, t, x : Block(n, p, r, t, x) # ZeroHash
  /\ \A n, p, r, t, x :
       LET b == Block(n, p, r, t, x) IN
       b.number = n /\ b.parent = p /\ b.root = r /\ b.time = t /\ b.txs = x
  /\ \A b, c : BlockKey(b) = BlockKey(c) <=> b = c
  /\ \A b, c : OutcomeKey(b) = OutcomeKey(c) <=> b = c
  /\ \A i, j : IndexKey(i) = IndexKey(j) <=> i = j
  /\ \A b, c, i : /\ BlockKey(b) # OutcomeKey(c)
                  /\ BlockKey(b) # IndexKey(i)
                  /\ OutcomeKey(b) # IndexKey(i)
  /\ \A b, x, y : x \in {"cnt", "data"} =>
       <<x, y>> # BlockKey(b) /\ <<x, y>> # OutcomeKey(b) /\ <<x, y>> # IndexKey(b)
BY DEF Block, ZeroHash, BlockKey, OutcomeKey, IndexKey

LEMMA StoreKeys ==
  ASSUME NEW x \in {"cnt", "data"}, NEW y, NEW b
  PROVE  <<x, y>> # BlockKey(b) /\ <<x, y>> # OutcomeKey(b) /\ <<x, y>> # IndexKey(b)
BY DEF BlockKey, OutcomeKey, IndexKey

(* The batch of AddBlock, once written, leaves the index alone, and holds  *)
(* the block, which is next.                                               *)
LEMMA BatchOfBlock ==
  ASSUME Mirrors(db), \A i \in 1 .. Len(indexed) : indexed[i] \in tree,
         wb = Empty, BlocksOK, RunOK, AddBlock
  PROVE  /\ Mirrors(Batched)'
         /\ TipOK(Batched, blocks[1])'
         /\ tree' = tree \cup {Completed}
         /\ blocks'[1] = Completed /\ Completed.txs = blocks[1].txs
         /\ Completed.root = NewRoot(Latest.root, run.delta)
         /\ SoundIn(db, Latest.root)
<1> DEFINE B == Completed
           L == Len(indexed)
           A == At(BlockKey(B), B) ++ At(OutcomeKey(B), run.outcome)
           C == Committed(Latest.root, run.delta)
           e == Empty ++ (A ++ C) ++ db
<1>1. L \in Nat /\ L > 0 /\ DOMAIN indexed = 1 .. L /\ L \in 1 .. L /\ L = db[IndexKey(0)]
  BY IsSeqFacts DEF Mirrors, DbOK
<1>2. /\ Latest = indexed[L] /\ Latest \in tree /\ Latest.number = L - 1
      /\ SoundIn(db, Latest.root) /\ Base(Latest.root)
  BY <1>1 DEF Latest, Mirrors, DbOK, GoodBlock, Base
<1>3. /\ Len(blocks) \in Nat /\ Len(blocks) > 0 /\ 1 \in 1 .. Len(blocks)
      /\ DOMAIN blocks = 1 .. Len(blocks)
  BY IsSeqFacts DEF BlocksOK, AddBlock
<1>4. /\ B = Block(L, Latest, NewRoot(Latest.root, run.delta), blocks[1].time, blocks[1].txs)
      /\ blocks[1].txs \in Seq(Tx) /\ Len(blocks[1].txs) <= MaxBlockTxs
  <2>1. /\ blocks[1].txs \in Seq(Tx) /\ Len(blocks[1].txs) <= MaxBlockTxs
    BY <1>3 DEF BlocksOK
  <2>2. Latest.number + 1 = L
    BY <1>1, <1>2
  <2> QED BY <2>1, <2>2 DEF Completed
<1>5. /\ B.number = L /\ B.parent = Latest /\ B.root = NewRoot(Latest.root, run.delta)
      /\ B.txs = blocks[1].txs /\ B # ZeroHash
  BY <1>4, BlockFacts
<1>6. tree' = tree \cup {B} /\ blocks'[1] = B
  BY <1>2, <1>3, <1>5 DEF AddBlock, AttachTo
<1>7. Batched' = e
  BY DEF AddBlock, Batched
<1> HIDE DEF B
<1>8. /\ \A x : x \in DOMAIN A <=> x = BlockKey(B) \/ x = OutcomeKey(B)
      /\ A[OutcomeKey(B)] = run.outcome
  <2>1. DOMAIN At(BlockKey(B), B) = {BlockKey(B)} /\ DOMAIN At(OutcomeKey(B), run.outcome) = {OutcomeKey(B)}
        /\ At(OutcomeKey(B), run.outcome)[OutcomeKey(B)] = run.outcome
    BY AtFacts
  <2> DEFINE P == At(BlockKey(B), B)
             Q == At(OutcomeKey(B), run.outcome)
  <2>2. OutcomeKey(B) # BlockKey(B)
    BY BlockFacts
  <2> HIDE DEF P, Q
  <2>3. /\ DOMAIN (P ++ Q) = DOMAIN P \cup DOMAIN Q
        /\ \A x \in DOMAIN Q : x \notin DOMAIN P => (P ++ Q)[x] = Q[x]
    BY OverFacts
  <2> QED BY <2>1, <2>2, <2>3 DEF P, Q
<1>9. \A x, y : <<x, y>> \in DOMAIN C => x \in {"cnt", "data"}
  BY CommittedKeys
<1> HIDE DEF A
<1>10. /\ \A x : x \in DOMAIN e <=> x \in DOMAIN A \/ x \in DOMAIN C \/ x \in DOMAIN db
       /\ \A x \in DOMAIN A : e[x] = A[x]
       /\ \A x \in DOMAIN C : x \notin DOMAIN A => e[x] = C[x]
       /\ \A x \in DOMAIN db : x \notin DOMAIN A /\ x \notin DOMAIN C => e[x] = db[x]
  BY BatchLookup
<1>11. StoreOver(e, C, db)
  <2>1. \A x \in {"cnt", "data"} : \A h : <<x, h>> \notin DOMAIN A
    BY <1>8, StoreKeys
  <2> HIDE DEF e, C
  <2> QED BY <1>10, <2>1 DEF StoreOver
<1>12. /\ StoreOK(e)
       /\ \A h : ContainsIn(db, h) => ContainsIn(e, h)
       /\ SoundIn(e, B.root)
  <2>1. StoreOK(db)
    BY DEF Mirrors, DbOK
  <2> HIDE DEF e
  <2> QED BY <1>2, <1>5, <1>11, <2>1, CommittedStore
<1>13. \A b : BlockKey(b) \notin DOMAIN C /\ OutcomeKey(b) \notin DOMAIN C /\ IndexKey(b) \notin DOMAIN C
  BY <1>9 DEF BlockKey, OutcomeKey, IndexKey
<1> HIDE DEF C, e
<1>14. /\ BlockKey(B) \in DOMAIN e
       /\ OutcomeKey(B) \in DOMAIN e /\ e[OutcomeKey(B)] = run.outcome
  BY <1>8, <1>10
<1>15. /\ \A b : BlockKey(b) \in DOMAIN db => BlockKey(b) \in DOMAIN e
       /\ \A b : BlockKey(b) \in DOMAIN db => (b # B => e[BlockKey(b)] = db[BlockKey(b)])
       /\ \A b : OutcomeKey(b) \in DOMAIN db => OutcomeKey(b) \in DOMAIN e
       /\ \A b : OutcomeKey(b) \in DOMAIN db => (b # B => e[OutcomeKey(b)] = db[OutcomeKey(b)])
       /\ \A i : IndexKey(i) \in DOMAIN db => IndexKey(i) \in DOMAIN e /\ e[IndexKey(i)] = db[IndexKey(i)]
  BY <1>8, <1>10, <1>13, BlockFacts
<1>16. DbOK(db)
  BY DEF Mirrors
<1>17. \A i \in 0 .. L : IndexKey(i) \in DOMAIN db
  BY <1>1, <1>16 DEF DbOK
<1>18. ASSUME NEW i \in 1 .. L
       PROVE  /\ i > 1 => BlockKey(db[IndexKey(i)]) \in DOMAIN e
              /\ OutcomeKey(db[IndexKey(i)]) \in DOMAIN e
              /\ e[OutcomeKey(db[IndexKey(i)])] = db[OutcomeKey(db[IndexKey(i)])]
  <2>1. /\ db[IndexKey(i)].number = i - 1
        /\ i > 1 => BlockKey(db[IndexKey(i)]) \in DOMAIN db
        /\ OutcomeKey(db[IndexKey(i)]) \in DOMAIN db
    BY <1>1, <1>16 DEF DbOK, GoodBlock
  <2>2. db[IndexKey(i)] # B
    BY <1>1, <1>5, <2>1
  <2> QED BY <1>15, <2>1, <2>2
<1>19. BlockKey(ZeroHash) \in DOMAIN e /\ e[BlockKey(ZeroHash)] = db[BlockKey(ZeroHash)]
  BY <1>5, <1>15, <1>16 DEF DbOK
<1>20. DbOK(e)
  BY <1>1, <1>12, <1>15, <1>16, <1>17, <1>18, <1>19, DbStays
<1>21. indexed' = indexed
  BY DEF AddBlock
<1>22. Mirrors(Batched)'
  <2>1. \A i \in 1 .. L : indexed[i] = e[IndexKey(i)]
    BY <1>1, <1>15, <1>17 DEF Mirrors
  <2>2. L = e[IndexKey(0)]
    BY <1>1, <1>15, <1>17
  <2> QED BY <1>7, <1>20, <1>21, <2>1, <2>2 DEF Mirrors
<1>23. OutcomeOK(run.outcome, blocks[1].txs)
  <2>1. /\ run.next = Len(blocks[1].txs) + 1 /\ Len(blocks[1].txs) \in Nat
        /\ OutcomeTo(run.outcome, blocks[1].txs, run.next - 1)
    BY <1>4 DEF AddBlock, RunOK
  <2>2. run.next - 1 = Len(blocks[1].txs)
    BY <2>1
  <2> QED BY <2>1, <2>2 DEF OutcomeOK
<1>24. GoodBlock(e, B)
  BY <1>4, <1>5, <1>12, <1>14, <1>23 DEF GoodBlock
<1>25. TipOK(Batched, blocks[1])'
  BY <1>2, <1>5, <1>6, <1>7, <1>14, <1>21, <1>24 DEF TipOK, Latest
<1> QED BY <1>2, <1>5, <1>6, <1>22, <1>25 DEF B

-----------------------------------------------------------------------------
(* The canonical chain grows by the block. *)
LEMMA TailOfChain ==
  ASSUME Mirrors(db), \A i \in 1 .. Len(indexed) : indexed[i] \in tree,
         wb = Empty, NEW b, TipOK(db, b), SetCanonicalTail(b)
  PROVE  /\ Mirrors(db)' /\ wb' = Empty
         /\ Len(indexed') = Len(indexed) + 1
         /\ \A i \in 1 .. Len(indexed) : indexed'[i] = indexed[i]
         /\ indexed'[Len(indexed) + 1] = b
<1> DEFINE L == Len(indexed)
           F == [k \in {IndexKey(i) : i \in Replaces(b, Path(b))} |-> Path(b)[k[2]]]
           A == At(IndexKey(0), b.number + 1)
           e == db'
<1>1. L \in Nat /\ L > 0 /\ DOMAIN indexed = 1 .. L /\ L \in 1 .. L /\ L = db[IndexKey(0)]
  BY IsSeqFacts DEF Mirrors, DbOK
<1>2. DbOK(db)
  BY DEF Mirrors
<1>3. b.number = L /\ b.parent = indexed[L] /\ b \in tree /\ BlockKey(b) \in DOMAIN db /\ GoodBlock(db, b)
  BY DEF TipOK, Latest
<1>4. Linked(b)
  <2>1. \A i \in 1 .. L : indexed[i].number = i - 1 /\ (i > 1 => indexed[i].parent = indexed[i - 1])
    <3> TAKE i \in 1 .. L
    <3>1. indexed[i] = db[IndexKey(i)] /\ (i > 1 => i - 1 \in 1 .. L /\ indexed[i - 1] = db[IndexKey(i - 1)])
      BY <1>1 DEF Mirrors
    <3> QED BY <1>1, <1>2, <3>1 DEF DbOK
  <2> QED BY <1>1, <1>3, <2>1 DEF Linked, Mirrors, Latest
<1>5. /\ \A i \in 1 .. L : Path(b)[i] = indexed[i]
      /\ Path(b)[L + 1] = b
      /\ Replaces(b, Path(b)) = {L + 1}
  BY <1>4, PathIsChain
<1>6. /\ indexed' = [i \in 1 .. L + 1 |-> IF i = L + 1 THEN b ELSE indexed[i]]
      /\ db' = (A ++ F) ++ wb ++ db /\ wb' = Empty
  BY <1>3, <1>5 DEF SetCanonicalTail, CommitWritebatch, IndexPuts
<1>7. DOMAIN F = {IndexKey(L + 1)} /\ F[IndexKey(L + 1)] = b
  <2>1. DOMAIN F = {IndexKey(L + 1)}
    BY <1>5
  <2>2. IndexKey(L + 1)[2] = L + 1
    BY DEF IndexKey
  <2> QED BY <1>5, <2>1, <2>2
<1>8. DOMAIN A = {IndexKey(0)} /\ A[IndexKey(0)] = L + 1
  BY <1>3, AtFacts
<1> HIDE DEF A, F
<1>9. /\ DOMAIN e = {IndexKey(0), IndexKey(L + 1)} \cup DOMAIN db
      /\ e[IndexKey(0)] = L + 1 /\ e[IndexKey(L + 1)] = b
      /\ \A x \in DOMAIN db : x # IndexKey(0) /\ x # IndexKey(L + 1) => e[x] = db[x]
  <2> DEFINE P == A ++ F
             Q == P ++ wb
  <2>1. IndexKey(0) # IndexKey(L + 1)
    BY <1>1, BlockFacts
  <2>2. DOMAIN P = {IndexKey(0), IndexKey(L + 1)} /\ P[IndexKey(0)] = L + 1 /\ P[IndexKey(L + 1)] = b
    <3>1. /\ DOMAIN (A ++ F) = DOMAIN A \cup DOMAIN F
          /\ \A x \in DOMAIN A : (A ++ F)[x] = A[x]
          /\ \A x \in DOMAIN F : x \notin DOMAIN A => (A ++ F)[x] = F[x]
      BY OverFacts
    <3> QED BY <1>7, <1>8, <2>1, <3>1
  <2> HIDE DEF P
  <2>3. DOMAIN Q = DOMAIN P /\ \A x \in DOMAIN P : Q[x] = P[x]
    BY EmptyFacts, OverNothing
  <2> HIDE DEF Q
  <2>4. /\ DOMAIN (Q ++ db) = DOMAIN Q \cup DOMAIN db
        /\ \A x \in DOMAIN Q : (Q ++ db)[x] = Q[x]
        /\ \A x \in DOMAIN db : x \notin DOMAIN Q => (Q ++ db)[x] = db[x]
    BY OverFacts
  <2> QED BY <1>6, <2>2, <2>3, <2>4 DEF P, Q
<1> HIDE DEF e
<1>10. /\ IsSeq(indexed') /\ Len(indexed') = L + 1
       /\ \A i \in 1 .. L : indexed'[i] = indexed[i]
       /\ indexed'[L + 1] = b
  <2> DEFINE X == [i \in 1 .. L + 1 |-> IF i = L + 1 THEN b ELSE indexed[i]]
             S == {X[r] : r \in DOMAIN X}
  <2>1. X \in [1 .. L + 1 -> S] /\ L + 1 \in Nat
    BY <1>1
  <2>2. X \in Seq(S)
    BY <2>1, SeqDef
  <2>3. Len(X) = L + 1
    BY <1>1, <2>2, LenProperties
  <2>4. \A i \in 1 .. L : i \in 1 .. L + 1 /\ i # L + 1
    BY <1>1
  <2>5. L + 1 \in 1 .. L + 1
    BY <1>1
  <2> QED BY <1>6, <2>2, <2>3, <2>4, <2>5 DEF IsSeq
<1>11. StoreOK(e) /\ \A h : ContainsIn(db, h) => ContainsIn(e, h)
  <2>1. \A x \in {"cnt", "data"} : \A h :
          /\ <<x, h>> \in DOMAIN e <=> <<x, h>> \in DOMAIN db
          /\ <<x, h>> \in DOMAIN db => e[<<x, h>>] = db[<<x, h>>]
    BY <1>9, StoreKeys
  <2> QED BY <1>2, <2>1, SameStore DEF DbOK
<1>12. /\ \A c : BlockKey(c) \in DOMAIN db => BlockKey(c) \in DOMAIN e /\ e[BlockKey(c)] = db[BlockKey(c)]
       /\ \A c : OutcomeKey(c) \in DOMAIN db =>
            OutcomeKey(c) \in DOMAIN e /\ e[OutcomeKey(c)] = db[OutcomeKey(c)]
       /\ \A i \in 1 .. L : IndexKey(i) \in DOMAIN e /\ e[IndexKey(i)] = db[IndexKey(i)]
  <2>1. \A i \in 1 .. L : IndexKey(i) \in DOMAIN db /\ i # 0 /\ i # L + 1
    BY <1>1, <1>2 DEF DbOK
  <2> QED BY <1>9, <2>1, BlockFacts
<1>13. ASSUME NEW c, GoodBlock(db, c) PROVE GoodBlock(e, c)
  BY <1>11, <1>12, <1>13, GoodBlockStays DEF GoodBlock
<1>14. ASSUME NEW i \in 1 .. L + 1
       PROVE  /\ IndexKey(i) \in DOMAIN e
              /\ e[IndexKey(i)].number = i - 1
              /\ i > 1 => /\ e[IndexKey(i)].parent = e[IndexKey(i - 1)]
                          /\ BlockKey(e[IndexKey(i)]) \in DOMAIN e
              /\ GoodBlock(e, e[IndexKey(i)])
  <2>1. CASE i = L + 1
    <3>1. e[IndexKey(L)] = indexed[L] /\ (L + 1) - 1 = L
      BY <1>1, <1>12 DEF Mirrors
    <3> QED BY <1>3, <1>9, <1>12, <1>13, <2>1, <3>1
  <2>2. CASE i # L + 1
    <3>1. i \in 1 .. L /\ (i > 1 => i - 1 \in 1 .. L)
      BY <1>1, <2>2
    <3>2. /\ db[IndexKey(i)].number = i - 1
          /\ i > 1 => /\ db[IndexKey(i)].parent = db[IndexKey(i - 1)]
                      /\ BlockKey(db[IndexKey(i)]) \in DOMAIN db
          /\ GoodBlock(db, db[IndexKey(i)])
      BY <1>1, <1>2, <3>1 DEF DbOK
    <3> QED BY <1>12, <1>13, <3>1, <3>2
  <2> QED BY <2>1, <2>2
<1>15. DbOK(e)
  <2>1. BlockKey(ZeroHash) \in DOMAIN e /\ e[IndexKey(1)] = e[BlockKey(ZeroHash)]
    BY <1>1, <1>2, <1>12 DEF DbOK
  <2>2. L + 1 \in Nat \ {0}
    BY <1>1
  <2> QED BY <1>9, <1>11, <1>14, <2>1, <2>2 DEF DbOK
<1>16. ASSUME NEW i \in 1 .. L + 1 PROVE indexed'[i] = e[IndexKey(i)]
  <2>1. CASE i = L + 1
    BY <1>9, <1>10, <2>1
  <2>2. CASE i # L + 1
    BY <1>1, <1>10, <1>12, <2>2 DEF Mirrors
  <2> QED BY <2>1, <2>2
<1> QED BY <1>6, <1>9, <1>10, <1>15, <1>16 DEF Mirrors, e

-----------------------------------------------------------------------------
(* The first start.                                                        *)

LEMMA NothingYet ==
  ASSUME NEW txs
  PROVE  OutcomeTo(NoOutcome, txs, 0)
<1>1. /\ NoOutcome.gas_used = <<>> /\ NoOutcome.succeeded = {}
      /\ NoOutcome = [gas_used |-> NoOutcome.gas_used, succeeded |-> NoOutcome.succeeded]
  BY DEF NoOutcome
<1>2. <<>> \in Seq(Tx) /\ Len(<<>>) = 0 /\ \A n : n \notin 1 .. 0
  OBVIOUS
<1> QED BY <1>1, <1>2 DEF OutcomeTo

LEMMA GenesisDb ==
  ASSUME db = Empty, wb = Empty, Initialize
  PROVE  /\ Mirrors(db)' /\ WorldsOK'
         /\ tree' = {Genesis} /\ indexed' = <<Genesis>> /\ DOMAIN worlds' = {Genesis}
<1> DEFINE G == Genesis
           A1 == At(BlockKey(ZeroHash), G)
           A2 == At(OutcomeKey(G), NoOutcome)
           A3 == At(IndexKey(0), 1)
           A4 == At(IndexKey(1), G)
           C  == Committed(ZeroHash, GenesisDelta)
           P1 == A1 ++ A2
           P2 == P1 ++ A3
           P3 == P2 ++ A4
           P4 == P3 ++ C
           e  == P4 ++ db
           keys == {BlockKey(ZeroHash), OutcomeKey(G), IndexKey(0), IndexKey(1)}
<1>1. db' = e /\ tree' = {G} /\ indexed' = <<G>> /\ worlds' = At(G, World0)
  BY DEF Initialize
<1>2. /\ G.number = 0 /\ G.txs = <<>> /\ G.root = NewRoot(ZeroHash, GenesisDelta)
      /\ G # ZeroHash
  BY BlockFacts DEF Genesis
<1> HIDE DEF G
<1>3. /\ DOMAIN A1 = {BlockKey(ZeroHash)} /\ A1[BlockKey(ZeroHash)] = G
      /\ DOMAIN A2 = {OutcomeKey(G)} /\ A2[OutcomeKey(G)] = NoOutcome
      /\ DOMAIN A3 = {IndexKey(0)} /\ A3[IndexKey(0)] = 1
      /\ DOMAIN A4 = {IndexKey(1)} /\ A4[IndexKey(1)] = G
  BY AtFacts
<1>4. /\ BlockKey(ZeroHash) # OutcomeKey(G) /\ BlockKey(ZeroHash) # IndexKey(0)
      /\ BlockKey(ZeroHash) # IndexKey(1) /\ OutcomeKey(G) # IndexKey(0)
      /\ OutcomeKey(G) # IndexKey(1) /\ IndexKey(0) # IndexKey(1)
  BY BlockFacts
<1>5. /\ StoreOK(db) /\ DOMAIN db = {}
  BY EmptyFacts DEF StoreOK
<1> HIDE DEF A1, A2, A3, A4, C
<1>6. /\ DOMAIN P1 = DOMAIN A1 \cup DOMAIN A2
      /\ \A x \in DOMAIN A1 : P1[x] = A1[x]
      /\ \A x \in DOMAIN A2 : x \notin DOMAIN A1 => P1[x] = A2[x]
  BY OverFacts
<1> HIDE DEF P1
<1>7. /\ DOMAIN P2 = DOMAIN P1 \cup DOMAIN A3
      /\ \A x \in DOMAIN P1 : P2[x] = P1[x]
      /\ \A x \in DOMAIN A3 : x \notin DOMAIN P1 => P2[x] = A3[x]
  BY OverFacts
<1> HIDE DEF P2
<1>8. /\ DOMAIN P3 = DOMAIN P2 \cup DOMAIN A4
      /\ \A x \in DOMAIN P2 : P3[x] = P2[x]
      /\ \A x \in DOMAIN A4 : x \notin DOMAIN P2 => P3[x] = A4[x]
  BY OverFacts
<1> HIDE DEF P3
<1>9. /\ DOMAIN P4 = DOMAIN P3 \cup DOMAIN C
      /\ \A x \in DOMAIN P3 : P4[x] = P3[x]
      /\ \A x \in DOMAIN C : x \notin DOMAIN P3 => P4[x] = C[x]
  BY OverFacts
<1> HIDE DEF P4
<1>10. DOMAIN e = DOMAIN P4 /\ \A x \in DOMAIN P4 : e[x] = P4[x]
  BY <1>5, OverNothing
<1> HIDE DEF e
<1>11. /\ DOMAIN P3 = keys
       /\ P3[BlockKey(ZeroHash)] = G /\ P3[OutcomeKey(G)] = NoOutcome
       /\ P3[IndexKey(0)] = 1 /\ P3[IndexKey(1)] = G
  BY <1>3, <1>4, <1>6, <1>7, <1>8
<1>12. /\ DOMAIN e = keys \cup DOMAIN C
       /\ e[BlockKey(ZeroHash)] = G /\ e[OutcomeKey(G)] = NoOutcome
       /\ e[IndexKey(0)] = 1 /\ e[IndexKey(1)] = G
       /\ \A x \in DOMAIN C : x \notin keys => e[x] = C[x]
  BY <1>9, <1>10, <1>11
<1>13. StoreOver(e, C, db)
  <2>1. \A x \in {"cnt", "data"} : \A h : <<x, h>> \notin keys
    BY StoreKeys
  <2> HIDE DEF keys
  <2> QED BY <1>5, <1>12, <2>1 DEF StoreOver
<1>14. StoreOK(e) /\ SoundIn(e, G.root)
  <2>1. Base(ZeroHash)
    BY DEF Base
  <2> QED BY <1>2, <1>5, <1>13, <2>1, CommittedStore DEF C
<1>15. GoodBlock(e, G)
  <2>1. <<>> \in Seq(Tx) /\ Len(<<>>) = 0
    OBVIOUS
  <2>2. 0 <= MaxBlockTxs
    BY NodeAssumption
  <2>3. OutcomeOK(NoOutcome, <<>>)
    BY <2>1, NothingYet DEF OutcomeOK
  <2> QED BY <1>2, <1>12, <1>14, <2>1, <2>2, <2>3 DEF GoodBlock
<1>16. DbOK(e)
  <2>1. ASSUME NEW i \in 1 .. 1
        PROVE  /\ IndexKey(i) \in DOMAIN e
               /\ e[IndexKey(i)].number = i - 1
               /\ i > 1 => /\ e[IndexKey(i)].parent = e[IndexKey(i - 1)]
                           /\ BlockKey(e[IndexKey(i)]) \in DOMAIN e
               /\ GoodBlock(e, e[IndexKey(i)])
    <3>1. i = 1
      OBVIOUS
    <3> QED BY <1>2, <1>12, <1>15, <3>1
  <2> QED BY <1>12, <1>14, <2>1 DEF DbOK
<1>17. Mirrors(db)'
  <2>1. IsSeq(<<G>>) /\ Len(<<G>>) = 1 /\ <<G>>[1] = G
    BY DEF IsSeq
  <2>2. \A i \in 1 .. 1 : i = 1
    OBVIOUS
  <2> QED BY <1>1, <1>12, <1>16, <2>1, <2>2 DEF Mirrors
<1>18. DOMAIN worlds' = {G} /\ worlds'[G] = World0
  BY <1>1, AtFacts
<1>19. ASSUME NEW a \in Acct, NEW f \in Scalar \cup Key PROVE World0[a][f] = Val(G.root, a, f)
  <2> DEFINE D == GenesisDelta
             W == At("balance", Airdrop) ++ At("nonce", 0)
  <2>1. Val(G.root, a, f) = IF a \in DOMAIN D /\ f \in DOMAIN D[a] THEN D[a][f] ELSE ValOf(ZeroHash, a, f)
    BY <1>2, <1>5, NewRootValues DEF Base
  <2>2. ValOf(ZeroHash, a, f) = 0
    BY DEF ValOf
  <2>3. DOMAIN D = {Payer} /\ D[Payer] = W
    BY AtFacts DEF GenesisDelta
  <2>4. DOMAIN W = {"balance", "nonce"} /\ W["balance"] = Airdrop /\ W["nonce"] = 0
    BY DEF ++, At
  <2>5. World0[a][f] = IF a = Payer /\ f = "balance" THEN Airdrop ELSE 0
    BY DEF World0
  <2> HIDE DEF D, W
  <2> QED BY <2>1, <2>2, <2>3, <2>4, <2>5
<1>20. WorldsOK'
  BY <1>18, <1>19 DEF WorldsOK
<1> QED BY <1>1, <1>17, <1>18, <1>20 DEF G

-----------------------------------------------------------------------------
(* How the queue is cut into blocks.                                       *)

LEMMA TimesMonotonic ==
  ASSUME NEW a \in Nat, NEW b \in Nat, NEW m \in Nat, a <= b
  PROVE  a * m \in Nat /\ a * m <= b * m
<1>1. b - a \in Nat /\ (b - a) * m \in Nat
  OBVIOUS
<1>2. b * m = a * m + (b - a) * m
  OBVIOUS
<1>3. a * m \in Nat /\ b * m \in Nat
  OBVIOUS
<1> QED BY <1>1, <1>2, <1>3

LEMMA SamePosition ==
  ASSUME NEW M \in Nat \ {0}, NEW i \in Nat \ {0}, NEW j \in Nat \ {0},
         NEW m \in 1 .. M, NEW n \in 1 .. M, (i - 1) * M + m = (j - 1) * M + n
  PROVE  i = j /\ m = n
<1>1. ASSUME NEW x \in Nat \ {0}, NEW y \in Nat \ {0}, x < y
      PROVE  (x - 1) * M + M <= (y - 1) * M
  <2>1. x * M <= (y - 1) * M
    BY <1>1, TimesMonotonic
  <2>2. x * M = (x - 1) * M + M
    OBVIOUS
  <2> QED BY <2>1, <2>2
<1>2. (i - 1) * M \in Nat /\ (j - 1) * M \in Nat
  BY TimesMonotonic
<1>3. ~(i < j)
  BY <1>1, <1>2
<1>4. ~(j < i)
  BY <1>1, <1>2
<1>5. i = j
  BY <1>3, <1>4
<1> QED BY <1>2, <1>5

LEMMA ChunksFacts ==
  ASSUME NEW q \in Seq(Tx)
  PROVE  LET c == (Len(q) + MaxBlockTxs - 1) \div MaxBlockTxs IN
         /\ c \in Nat /\ DOMAIN Chunks(q) = 1 .. c
         /\ \A i \in 1 .. c :
              /\ Chunks(q)[i] \in Seq(Tx) /\ Len(Chunks(q)[i]) <= MaxBlockTxs
              /\ \A n \in 1 .. Len(Chunks(q)[i]) :
                   /\ (i - 1) * MaxBlockTxs + n \in 1 .. Len(q)
                   /\ Chunks(q)[i][n] = q[(i - 1) * MaxBlockTxs + n]
<1> DEFINE M == MaxBlockTxs
           L == Len(q)
           c == (L + M - 1) \div M
<1>1. M \in Nat \ {0} /\ L \in Nat
  BY NodeAssumption
<1> HIDE DEF M, L
<1>2. c \in Nat /\ c * M <= L + M - 1
  <2>1. L + M - 1 \in Nat
    BY <1>1
  <2> DEFINE x == L + M - 1
  <2> HIDE DEF x
  <2>2. x \div M \in Nat /\ (x \div M) * M <= x
    BY <1>1, <2>1 DEF x
  <2> QED BY <2>2 DEF x
<1> HIDE DEF c
<1>3. ASSUME NEW i \in 1 .. c
      PROVE  LET lo == (i - 1) * M + 1
                 hi == IF i * M < L THEN i * M ELSE L IN
             lo \in 1 .. L /\ hi \in lo .. L /\ hi - lo + 1 <= M
  <2>1. i \in Nat /\ i > 0 /\ i - 1 \in Nat /\ c - 1 \in Nat /\ i - 1 <= c - 1
    BY <1>2
  <2>2. (i - 1) * M \in Nat /\ (i - 1) * M <= (c - 1) * M
    BY <1>1, <2>1, TimesMonotonic
  <2>3. (c - 1) * M = c * M - M /\ i * M = (i - 1) * M + M
    BY <1>1, <1>2, <2>1
  <2>4. c * M \in Nat
    BY <1>1, <1>2, TimesMonotonic
  <2>5. (i - 1) * M + 1 <= L
    BY <1>1, <1>2, <2>2, <2>3, <2>4
  <2> DEFINE z == (i - 1) * M
  <2>6. z \in Nat /\ z + 1 <= L /\ i * M = z + M
    BY <2>2, <2>3, <2>5
  <2> HIDE DEF z
  <2>7. LET hi == IF z + M < L THEN z + M ELSE L IN
        z + 1 \in 1 .. L /\ hi \in z + 1 .. L /\ hi - (z + 1) + 1 <= M
    BY <1>1, <2>6
  <2> QED BY <2>6, <2>7 DEF z
<1>4. Chunks(q) = [i \in 1 .. c |-> SubSeq(q, (i - 1) * M + 1, IF i * M < L THEN i * M ELSE L)]
  BY DEF Chunks, c, M, L
<1>5. ASSUME NEW i \in 1 .. c
      PROVE  /\ Chunks(q)[i] \in Seq(Tx) /\ Len(Chunks(q)[i]) <= M
             /\ \A n \in 1 .. Len(Chunks(q)[i]) :
                  /\ (i - 1) * M + n \in 1 .. L
                  /\ Chunks(q)[i][n] = q[(i - 1) * M + n]
  <2> DEFINE z  == (i - 1) * M
             hi == IF i * M < L THEN i * M ELSE L
  <2>1. z + 1 \in 1 .. L /\ hi \in z + 1 .. L /\ hi - (z + 1) + 1 <= M
    BY <1>3
  <2>2. z \in Nat
    BY <1>1, <1>2, TimesMonotonic
  <2>3. Chunks(q)[i] = SubSeq(q, z + 1, hi)
    BY <1>4
  <2> HIDE DEF z, hi
  <2>4. hi \in 1 .. L /\ hi \in Nat /\ hi - z \in Nat
    BY <1>1, <2>1, <2>2
  <2>5. /\ SubSeq(q, z + 1, hi) \in Seq(Tx)
        /\ Len(SubSeq(q, z + 1, hi)) = hi - z
        /\ \A n \in 1 .. hi - z : SubSeq(q, z + 1, hi)[n] = q[z + n]
    <3>1. z + 1 \in 1 .. L + 1 /\ hi \in z .. L
      BY <1>1, <2>1, <2>2, <2>4
    <3>2. /\ SubSeq(q, z + 1, hi) \in Seq(Tx)
          /\ Len(SubSeq(q, z + 1, hi)) = hi - (z + 1) + 1
          /\ \A n \in 1 .. hi - (z + 1) + 1 : SubSeq(q, z + 1, hi)[n] = q[(z + 1) + n - 1]
      BY <2>1, <2>4, <3>1, SubSeqProperties DEF L
    <3>3. hi - (z + 1) + 1 = hi - z /\ \A n \in 1 .. hi - z : (z + 1) + n - 1 = z + n
      BY <2>2, <2>4
    <3> QED BY <3>2, <3>3
  <2>6. \A n \in 1 .. hi - z : z + n \in 1 .. L
    BY <1>1, <2>1, <2>2, <2>4
  <2>7. hi - z <= M
    BY <1>1, <2>1, <2>2, <2>4
  <2> QED BY <2>3, <2>5, <2>6, <2>7 DEF z
<1> QED BY <1>2, <1>4, <1>5 DEF c, M, L

-----------------------------------------------------------------------------
(* The invariant is inductive.                                             *)

LEMMA InitInv ==
  Init => Inv
<1> SUFFICES ASSUME Init PROVE Inv
  OBVIOUS
<1>1. <<>> \in Seq(Tx) /\ 0 \in 0 .. MaxStarts
  BY NodeAssumption
<1>2. Types /\ DownOK /\ UpOK
  BY <1>1 DEF Init, Types, DownOK, UpOK, Phases
<1>3. WorldsOK /\ CacheOK
  BY EmptyFacts DEF Init, WorldsOK, CacheOK
<1>4. IsSeq(blocks) /\ Len(blocks) = 0
  BY DEF Init, IsSeq
<1>5. BlocksOK /\ RunOK /\ BatchOK
  BY <1>4 DEF Init, BlocksOK, RunOK, BatchOK
<1> QED BY <1>2, <1>3, <1>5 DEF Inv

(* Where the chain, the store and the cache are left alone. *)
LEMMA SameChain ==
  ASSUME UpOK, UNCHANGED <<process, db, indexed, tree, worlds>>
  PROVE  UpOK'
BY DEF UpOK, Mirrors

LEMMA SameWorlds ==
  ASSUME WorldsOK, UNCHANGED worlds
  PROVE  WorldsOK'
BY DEF WorldsOK

LEMMA SameCache ==
  ASSUME CacheOK, UNCHANGED <<tx_cache, indexed>>
  PROVE  CacheOK'
BY DEF CacheOK

LEMMA SameBlocks ==
  ASSUME BlocksOK, UNCHANGED blocks,
         phase' \in {"Adding", "Running", "Executed", "Written"} => Len(blocks) > 0
  PROVE  BlocksOK'
BY DEF BlocksOK

LEMMA InvAddTransaction ==
  ASSUME Inv, NEW t \in Tx, AddTransaction(t)
  PROVE  Inv'
<1>1. /\ process = "Up"
      /\ UNCHANGED <<db, wb, process, tree, indexed, tx_cache, ticker, phase, blocks, run, starts, worlds>>
  BY DEF AddTransaction, Free, chainVars, historyVars
<1>2. Types'
  <2>1. Append(tx_queue, t) \in Seq(Tx)
    BY DEF Inv, Types
  <2> QED BY <1>1, <2>1 DEF Inv, Types, AddTransaction
<1>3. DownOK'
  BY <1>1 DEF DownOK
<1>4. UpOK' /\ WorldsOK' /\ CacheOK'
  BY <1>1, SameChain, SameWorlds, SameCache DEF Inv
<1>5. BlocksOK' /\ RunOK'
  BY <1>1 DEF Inv, BlocksOK, RunOK
<1>6. BatchOK'
  BY <1>1 DEF Inv, BatchOK, Batched, Mirrors, TipOK, Latest
<1> QED BY <1>2, <1>3, <1>4, <1>5, <1>6 DEF Inv

(* Requests that read are served only where no batch is pending. *)
LEMMA FreeBatch ==
  ASSUME Inv, Free, UNCHANGED <<process, phase, wb>>
  PROVE  BatchOK' /\ RunOK' /\ DownOK'
BY DEF Inv, Free, BatchOK, RunOK, DownOK

LEMMA InvGetCachedTx ==
  ASSUME Inv, NEW t \in Tx, GetCachedTx(t)
  PROVE  Inv'
<1>1. /\ Free
      /\ UNCHANGED <<db, wb, process, tree, indexed, tx_queue, in_queue, mempool, ticker,
                     phase, blocks, run, starts, worlds>>
  BY DEF GetCachedTx, mempoolVars, historyVars
<1>2. Types'
  BY <1>1 DEF Inv, Types
<1>3. UpOK' /\ WorldsOK' /\ BatchOK' /\ RunOK' /\ DownOK'
  BY <1>1, SameChain, SameWorlds, FreeBatch DEF Inv
<1>4. BlocksOK'
  BY <1>1 DEF Inv, BlocksOK
<1>5. CacheOK'
  <2>1. Mirrors(db) /\ DbOK(db)
    BY <1>1 DEF Inv, UpOK, Free, Mirrors
  <2>2. Len(indexed) = db[IndexKey(0)] /\ DOMAIN indexed = 1 .. Len(indexed)
    BY <2>1, IsSeqFacts DEF Mirrors
  <2>3. PICK i \in 1 .. Len(indexed) : CacheFrom(t, indexed[i])
    BY <2>2 DEF GetCachedTx, LookUp, Holding
  <2> DEFINE b == indexed[i]
  <2>4. b.txs \in Seq(Tx)
    BY <2>1, <2>2 DEF Mirrors, DbOK, GoodBlock
  <2>5. PICK n \in DOMAIN b.txs : b.txs[n] = t /\ tx_cache' = At(t, [block |-> b, idx |-> n]) ++ tx_cache
    BY <2>3 DEF CacheFrom
  <2>6. n \in 1 .. Len(b.txs)
    BY <2>4
  <2> DEFINE A == At(t, [block |-> b, idx |-> n])
  <2>7. DOMAIN A = {t} /\ A[t] = [block |-> b, idx |-> n]
    BY AtFacts
  <2> HIDE DEF A
  <2>8. /\ DOMAIN (A ++ tx_cache) = DOMAIN A \cup DOMAIN tx_cache
        /\ \A x \in DOMAIN A : (A ++ tx_cache)[x] = A[x]
        /\ \A x \in DOMAIN tx_cache : x \notin DOMAIN A => (A ++ tx_cache)[x] = tx_cache[x]
    BY OverFacts
  <2>9. /\ DOMAIN tx_cache' = {t} \cup DOMAIN tx_cache
        /\ tx_cache'[t].block = b /\ tx_cache'[t].idx = n
        /\ \A x \in DOMAIN tx_cache : x # t => tx_cache'[x] = tx_cache[x]
    <3>1. tx_cache' = A ++ tx_cache
      BY <2>5 DEF A
    <3>2. DOMAIN tx_cache' = {t} \cup DOMAIN tx_cache /\ tx_cache'[t] = [block |-> b, idx |-> n]
      BY <2>7, <2>8, <3>1
    <3>3. \A x \in DOMAIN tx_cache : x # t => tx_cache'[x] = tx_cache[x]
      BY <2>7, <2>8, <3>1
    <3> QED BY <3>2, <3>3
  <2> HIDE DEF b
  <2>10. ASSUME NEW x \in DOMAIN tx_cache'
         PROVE  /\ x \in Tx
                /\ \E j \in 1 .. Len(indexed) : tx_cache'[x].block = indexed[j]
                /\ tx_cache'[x].idx \in 1 .. Len(tx_cache'[x].block.txs)
                /\ tx_cache'[x].block.txs[tx_cache'[x].idx] = x
    <3>1. CASE x = t
      BY <2>5, <2>6, <2>9, <3>1 DEF b
    <3>2. CASE x # t
      BY <2>9, <3>2 DEF Inv, CacheOK
    <3> QED BY <3>1, <3>2
  <2> QED BY <1>1, <2>10 DEF CacheOK
<1> QED BY <1>2, <1>3, <1>4, <1>5 DEF Inv

LEMMA InvGetBlockByHash ==
  ASSUME Inv, NEW b \in DOMAIN worlds, GetBlockByHash(b)
  PROVE  Inv'
<1>1. /\ Free
      /\ UNCHANGED <<db, wb, process, indexed, tx_cache, tx_queue, in_queue, mempool, ticker,
                     phase, blocks, run, starts, worlds>>
      /\ tree \subseteq tree' /\ tree' \subseteq tree \cup {b}
  BY DEF GetBlockByHash, mempoolVars, historyVars, AttachTo
<1>2. Types'
  BY <1>1 DEF Inv, Types
<1>3. UpOK'
  BY <1>1 DEF Inv, UpOK, Mirrors
<1>4. WorldsOK' /\ CacheOK' /\ BatchOK' /\ RunOK' /\ DownOK'
  BY <1>1, SameWorlds, SameCache, FreeBatch DEF Inv
<1>5. BlocksOK'
  BY <1>1 DEF Inv, BlocksOK
<1> QED BY <1>2, <1>3, <1>4, <1>5 DEF Inv

LEMMA InvGenBlocks ==
  ASSUME Inv, NEW time \in Times, GenBlocks(time)
  PROVE  Inv'
<1>1. /\ process = "Up" /\ phase = "Asked" /\ phase' = "Sent" /\ tx_queue' = <<>>
      /\ UNCHANGED <<db, wb, process, tree, indexed, tx_cache, in_queue, mempool, ticker, run,
                     starts, worlds>>
  BY DEF GenBlocks, chainVars, historyVars
<1>2. Types'
  <2>1. <<>> \in Seq(Tx)
    OBVIOUS
  <2> QED BY <1>1, <2>1 DEF Inv, Types, Phases
<1>3. UpOK' /\ WorldsOK' /\ CacheOK'
  BY <1>1, SameChain, SameWorlds, SameCache DEF Inv
<1>4. BatchOK' /\ RunOK' /\ DownOK'
  BY <1>1 DEF Inv, BatchOK, RunOK, DownOK
<1>5. BlocksOK'
  <2> DEFINE c == (Len(tx_queue) + MaxBlockTxs - 1) \div MaxBlockTxs
             X == [i \in 1 .. c |-> Block(0, ZeroHash, ZeroHash, time, Chunks(tx_queue)[i])]
             S == {X[r] : r \in DOMAIN X}
  <2>1. /\ c \in Nat /\ DOMAIN Chunks(tx_queue) = 1 .. c
        /\ \A i \in 1 .. c :
             Chunks(tx_queue)[i] \in Seq(Tx) /\ Len(Chunks(tx_queue)[i]) <= MaxBlockTxs
    BY ChunksFacts DEF Inv, Types
  <2>2. blocks' = X
    BY <2>1 DEF GenBlocks
  <2>3. X \in [1 .. c -> S]
    OBVIOUS
  <2>4. X \in Seq(S) /\ Len(X) = c
    BY <2>1, <2>3, SeqDef, LenProperties
  <2>5. \A i \in 1 .. c : X[i].txs = Chunks(tx_queue)[i]
    BY BlockFacts
  <2> HIDE DEF c
  <2> QED BY <1>1, <2>1, <2>2, <2>4, <2>5 DEF BlocksOK, IsSeq
<1> QED BY <1>2, <1>3, <1>4, <1>5 DEF Inv

(* The steps that only move the request on. *)
LEMMA InvTickAddBlocksResume ==
  ASSUME Inv, Tick \/ AddBlocks \/ Resume
  PROVE  Inv'
<1>1. /\ process = "Up"
      /\ UNCHANGED <<db, wb, process, tree, indexed, tx_cache, tx_queue, in_queue, mempool,
                     blocks, run, starts, worlds>>
      /\ ticker' \in {ticker, "Dead"}
      /\ phase \in {"Idle", "Sent", "Answered", "Failed"}
      /\ phase' \in {"Idle", "Asked", "Answered", "Adding"}
      /\ phase' = "Adding" => blocks # <<>>
  BY DEF Tick, AddBlocks, Resume, Free, chainVars, mempoolVars, historyVars
<1>2. Types'
  BY <1>1 DEF Inv, Types, Phases
<1>3. UpOK' /\ WorldsOK' /\ CacheOK'
  BY <1>1, SameChain, SameWorlds, SameCache DEF Inv
<1>4. BatchOK' /\ RunOK' /\ DownOK'
  BY <1>1 DEF Inv, BatchOK, RunOK, DownOK
<1>5. BlocksOK'
  <2>1. blocks # <<>> => Len(blocks) > 0
    <3> DEFINE S == {blocks[r] : r \in DOMAIN blocks}
    <3>1. blocks \in Seq(S)
      BY DEF Inv, BlocksOK, IsSeq
    <3> HIDE DEF S
    <3> QED BY <3>1, EmptySeq
  <2> QED BY <1>1, <2>1, SameBlocks DEF Inv
<1> QED BY <1>2, <1>3, <1>4, <1>5 DEF Inv

LEMMA InvBeginTransition ==
  ASSUME Inv, BeginTransition
  PROVE  Inv'
<1>1. /\ process = "Up" /\ phase = "Adding" /\ phase' = "Running" /\ run' = NoRun
      /\ UNCHANGED <<db, wb, process, tree, indexed, tx_cache, tx_queue, in_queue, mempool, ticker,
                     blocks, starts, worlds>>
  BY DEF BeginTransition, chainVars, mempoolVars, historyVars
<1>2. Types'
  BY <1>1 DEF Inv, Types, Phases
<1>3. UpOK' /\ WorldsOK' /\ CacheOK'
  BY <1>1, SameChain, SameWorlds, SameCache DEF Inv
<1>4. BatchOK' /\ DownOK'
  BY <1>1 DEF Inv, BatchOK, DownOK
<1>5. BlocksOK' /\ Len(blocks) > 0
  BY <1>1, SameBlocks DEF Inv, BlocksOK
<1>6. RunOK'
  <2>1. Len(blocks[1].txs) \in Nat
    <3>1. 1 \in 1 .. Len(blocks)
      BY <1>5, IsSeqFacts DEF Inv, BlocksOK
    <3> QED BY <3>1 DEF Inv, BlocksOK
  <2>2. /\ NoRun = [delta |-> NoRun.delta, outcome |-> NoRun.outcome, next |-> NoRun.next]
        /\ NoRun.outcome = NoOutcome /\ NoRun.next = 1 /\ NoRun.next - 1 = 0
    BY DEF NoRun
  <2>3. OutcomeTo(NoOutcome, blocks[1].txs, 0)
    BY NothingYet
  <2> QED BY <1>1, <2>1, <2>2, <2>3 DEF RunOK
<1> QED BY <1>2, <1>3, <1>4, <1>5, <1>6 DEF Inv

(* One more transaction, which fails or succeeds. *)
Extended(out, t, n) ==
  [gas_used |-> Append(out.gas_used, t), succeeded |-> out.succeeded \cup {n}]

LEMMA OutcomeGrows ==
  ASSUME NEW out, NEW txs, NEW k \in Nat, OutcomeTo(out, txs, k),
         NEW t \in Tx, t = txs[k + 1]
  PROVE  /\ OutcomeTo(out, txs, k + 1)
         /\ OutcomeTo(Extended(out, t, k + 1), txs, k + 1)
<1> DEFINE g == out.gas_used
           S == out.succeeded
           e == Extended(out, t, k + 1)
<1>1. /\ g \in Seq(Tx) /\ S \subseteq 1 .. k
      /\ 1 .. k \subseteq S => Len(g) = k
      /\ \A n \in 1 .. k : 1 .. n \subseteq S => n <= Len(g) /\ g[n] = txs[n]
      /\ out = [gas_used |-> g, succeeded |-> S]
  BY DEF OutcomeTo
<1>2. /\ e.gas_used = Append(g, t) /\ e.succeeded = S \cup {k + 1}
      /\ e = [gas_used |-> e.gas_used, succeeded |-> e.succeeded]
  BY DEF Extended
<1>3. /\ Append(g, t) \in Seq(Tx) /\ Len(Append(g, t)) = Len(g) + 1 /\ Len(g) \in Nat
      /\ \A n \in 1 .. Len(g) : Append(g, t)[n] = g[n]
      /\ Append(g, t)[Len(g) + 1] = t
  BY <1>1, AppendProperties
<1> HIDE DEF g, S, e
<1>4. /\ k + 1 \in 1 .. k + 1 /\ k + 1 \notin S
      /\ \A n \in 1 .. k + 1 : n \in 1 .. k \/ n = k + 1
      /\ S \subseteq 1 .. k + 1 /\ S \cup {k + 1} \subseteq 1 .. k + 1
  BY <1>1
<1>5. ~(1 .. k + 1 \subseteq S)
  BY <1>4
<1>6. OutcomeTo(out, txs, k + 1)
  BY <1>1, <1>4, <1>5 DEF OutcomeTo, g, S
<1>7. \A n \in 1 .. k : 1 .. n \subseteq S \cup {k + 1} => 1 .. n \subseteq S
  <2> SUFFICES ASSUME NEW n \in 1 .. k, 1 .. n \subseteq S \cup {k + 1}, NEW m \in 1 .. n
               PROVE  m \in S
    OBVIOUS
  <2>1. m # k + 1
    OBVIOUS
  <2> QED BY <2>1
<1>8. 1 .. k + 1 \subseteq S \cup {k + 1} => 1 .. k \subseteq S
  <2> SUFFICES ASSUME 1 .. k + 1 \subseteq S \cup {k + 1}, NEW m \in 1 .. k
               PROVE  m \in S
    OBVIOUS
  <2>1. m # k + 1 /\ m \in 1 .. k + 1
    OBVIOUS
  <2> QED BY <2>1
<1>9. ASSUME NEW n \in 1 .. k + 1, 1 .. n \subseteq S \cup {k + 1}
      PROVE  n <= Len(Append(g, t)) /\ Append(g, t)[n] = txs[n]
  <2>1. CASE n \in 1 .. k
    <3>1. n <= Len(g) /\ g[n] = txs[n]
      BY <1>1, <1>7, <1>9, <2>1
    <3>2. n \in 1 .. Len(g) /\ n <= Len(g) + 1
      BY <1>3, <2>1, <3>1
    <3> QED BY <1>3, <3>1, <3>2
  <2>2. CASE n = k + 1
    <3>1. Len(g) = k
      BY <1>1, <1>8, <1>9, <2>2
    <3> QED BY <1>3, <2>2, <3>1
  <2> QED BY <1>4, <2>1, <2>2
<1>10. 1 .. k + 1 \subseteq S \cup {k + 1} => Len(Append(g, t)) = k + 1
  BY <1>1, <1>3, <1>8
<1>11. OutcomeTo(e, txs, k + 1)
  BY <1>2, <1>3, <1>4, <1>9, <1>10 DEF OutcomeTo
<1> QED BY <1>6, <1>11 DEF e

LEMMA InvRunTx ==
  ASSUME Inv, NEW verdict, RunTx(verdict)
  PROVE  Inv'
<1>1. /\ process = "Up" /\ phase = "Running" /\ run.next <= Len(blocks[1].txs)
      /\ UNCHANGED <<db, wb, process, tree, indexed, tx_cache, tx_queue, in_queue, mempool, ticker,
                     phase, blocks, starts, worlds>>
  BY DEF RunTx, chainVars, mempoolVars, historyVars
<1>2. Types'
  BY <1>1 DEF Inv, Types
<1>3. UpOK' /\ WorldsOK' /\ CacheOK'
  BY <1>1, SameChain, SameWorlds, SameCache DEF Inv
<1>4. BatchOK' /\ DownOK'
  BY <1>1 DEF Inv, BatchOK, DownOK
<1>5. BlocksOK' /\ Len(blocks) > 0
  BY <1>1, SameBlocks DEF Inv, BlocksOK
<1>6. RunOK'
  <2> DEFINE txs == blocks[1].txs
             t == txs[run.next]
             k == run.next - 1
  <2>1. txs \in Seq(Tx)
    <3>1. 1 \in 1 .. Len(blocks)
      BY <1>5, IsSeqFacts DEF Inv, BlocksOK
    <3> QED BY <3>1 DEF Inv, BlocksOK
  <2>2. /\ run = [delta |-> run.delta, outcome |-> run.outcome, next |-> run.next]
        /\ run.next \in Nat \ {0} /\ OutcomeTo(run.outcome, txs, k)
    BY <1>1 DEF Inv, RunOK
  <2>3. run.next \in 1 .. Len(txs) /\ t \in Tx /\ k \in Nat /\ k + 1 = run.next
    BY <1>1, <2>1, <2>2
  <2>4. /\ run' = [delta |-> run'.delta, outcome |-> run'.outcome, next |-> run'.next]
        /\ run'.next = run.next + 1
        /\ run'.outcome = run.outcome \/ run'.outcome = Extended(run.outcome, t, run.next)
    <3>1. CASE run' = [run EXCEPT !.next = @ + 1]
      BY <2>2, <3>1
    <3>2. CASE run' # [run EXCEPT !.next = @ + 1]
      <4>1. \E d : run' = [delta |-> d, outcome |-> NextOutcome(t, verdict), next |-> run.next + 1]
        BY <3>2 DEF RunTx
      <4>2. \/ NextOutcome(t, verdict) = run.outcome
            \/ NextOutcome(t, verdict) = Extended(run.outcome, t, run.next)
        BY DEF NextOutcome, Extended
      <4> QED BY <4>1, <4>2
    <3> QED BY <3>1, <3>2
  <2>5. /\ run'.next \in Nat \ {0} /\ run'.next <= Len(txs) + 1 /\ run'.next - 1 = run.next
    BY <2>1, <2>3, <2>4
  <2>6. OutcomeTo(run'.outcome, txs, run.next)
    <3> HIDE DEF k, t
    <3>1. t = txs[k + 1]
      BY <2>3 DEF t
    <3>2. /\ OutcomeTo(run.outcome, txs, k + 1)
          /\ OutcomeTo(Extended(run.outcome, t, k + 1), txs, k + 1)
      BY <2>2, <2>3, <3>1, OutcomeGrows
    <3> QED BY <2>3, <2>4, <3>2
  <2> QED BY <1>1, <2>4, <2>5, <2>6 DEF RunOK
<1> QED BY <1>2, <1>3, <1>4, <1>5, <1>6 DEF Inv

LEMMA InvAddBlockPanics ==
  ASSUME Inv, AddBlockPanics
  PROVE  Inv'
<1>1. /\ process = "Up" /\ phase \in {"Adding", "Running"} /\ phase' = "Failed" /\ blocks' = <<>>
      /\ UNCHANGED <<db, wb, process, tree, indexed, tx_cache, tx_queue, in_queue, mempool, ticker,
                     starts, worlds>>
  BY DEF AddBlockPanics, chainVars, mempoolVars, historyVars
<1>2. Types'
  BY <1>1 DEF Inv, Types, Phases
<1>3. UpOK' /\ WorldsOK' /\ CacheOK'
  BY <1>1, SameChain, SameWorlds, SameCache DEF Inv
<1>4. BatchOK' /\ RunOK' /\ DownOK'
  BY <1>1 DEF Inv, BatchOK, RunOK, DownOK
<1>5. BlocksOK'
  <2>1. IsSeq(<<>>) /\ Len(<<>>) = 0
    BY DEF IsSeq
  <2> QED BY <1>1, <2>1 DEF BlocksOK
<1> QED BY <1>2, <1>3, <1>4, <1>5 DEF Inv

LEMMA InvAddBlock ==
  ASSUME Inv, AddBlock
  PROVE  Inv'
<1>1. /\ process = "Up" /\ phase = "Running" /\ phase' = "Executed"
      /\ blocks' = [blocks EXCEPT ![1] = Completed]
      /\ worlds' = At(Completed, Current(ReadAll(Latest.root))) ++ worlds
      /\ UNCHANGED <<db, process, indexed, tx_cache, tx_queue, in_queue, mempool, ticker, starts>>
  BY DEF AddBlock, mempoolVars
<1>2. Mirrors(db) /\ (\A i \in 1 .. Len(indexed) : indexed[i] \in tree) /\ wb = Empty
  BY <1>1 DEF Inv, UpOK, BatchOK
<1>3. /\ Mirrors(Batched)'
      /\ TipOK(Batched, blocks[1])'
      /\ tree' = tree \cup {Completed}
      /\ blocks'[1] = Completed /\ Completed.txs = blocks[1].txs
      /\ Completed.root = NewRoot(Latest.root, run.delta)
      /\ SoundIn(db, Latest.root)
  BY <1>2, BatchOfBlock DEF Inv
<1>4. Types'
  BY <1>1 DEF Inv, Types, Phases
<1>5. DownOK' /\ RunOK'
  BY <1>1 DEF DownOK, RunOK
<1>6. CacheOK'
  BY <1>1, SameCache DEF Inv
<1>7. BatchOK'
  BY <1>1, <1>3 DEF BatchOK
<1>8. BlocksOK'
  <2>1. IsSeq(blocks) /\ Len(blocks) \in Nat /\ DOMAIN blocks = 1 .. Len(blocks) /\ Len(blocks) > 0
    BY <1>1, IsSeqFacts DEF Inv, BlocksOK
  <2>2. 1 \in DOMAIN blocks
    BY <2>1
  <2>3. /\ IsSeq(blocks') /\ Len(blocks') = Len(blocks)
        /\ \A r \in DOMAIN blocks : blocks'[r] = IF r = 1 THEN Completed ELSE blocks[r]
    BY <1>1, <2>1, <2>2, IsSeqUpdate
  <2>4. \A r \in 1 .. Len(blocks) : blocks'[r].txs = blocks[r].txs
    BY <1>3, <2>1, <2>3
  <2> QED BY <2>1, <2>3, <2>4 DEF Inv, BlocksOK
<1>9. /\ DOMAIN worlds' = {Completed} \cup DOMAIN worlds
      /\ worlds'[Completed] = Current(ReadAll(Latest.root))
      /\ \A b \in DOMAIN worlds : b # Completed => worlds'[b] = worlds[b]
  <2> DEFINE A == At(Completed, Current(ReadAll(Latest.root)))
  <2>1. DOMAIN A = {Completed} /\ A[Completed] = Current(ReadAll(Latest.root))
    BY AtFacts
  <2> HIDE DEF A
  <2>2. /\ DOMAIN (A ++ worlds) = DOMAIN A \cup DOMAIN worlds
        /\ \A x \in DOMAIN A : (A ++ worlds)[x] = A[x]
        /\ \A x \in DOMAIN worlds : x \notin DOMAIN A => (A ++ worlds)[x] = worlds[x]
    BY OverFacts
  <2>3. worlds' = A ++ worlds
    BY <1>1 DEF A
  <2> QED BY <2>1, <2>2, <2>3
<1>10. UpOK'
  <2>1. Mirrors(db)'
    BY <1>1, <1>2 DEF Mirrors
  <2> QED BY <1>1, <1>2, <1>3, <1>9, <2>1 DEF Inv, UpOK
<1>11. WorldsOK'
  <2>1. ASSUME NEW a \in Acct, NEW f \in Scalar \cup Key
        PROVE  worlds'[Completed][a][f] = Val(Completed.root, a, f)
    <3> DEFINE R == Latest.root
               d == run.delta
    <3>1. StoreOK(db) /\ Base(R) /\ R # ZeroHash
      BY <1>2, <1>3, HashFacts DEF Mirrors, DbOK, Base, SoundIn
    <3>2. Val(Completed.root, a, f)
            = IF a \in DOMAIN d /\ f \in DOMAIN d[a] THEN d[a][f] ELSE ValOf(R, a, f)
      BY <1>3, <3>1, NewRootValues
    <3>3. ValOf(R, a, f) = Get(R, a, f)
      BY <3>1, ReadBase
    <3>4. Current(ReadAll(R))[a][f]
            = IF a \in DOMAIN d /\ f \in DOMAIN d[a] THEN d[a][f] ELSE ReadAll(R)[a][f]
      BY DEF Current, Apply
    <3>5. ReadAll(R)[a][f] = Get(R, a, f)
      BY DEF ReadAll
    <3> QED BY <1>9, <3>2, <3>3, <3>4, <3>5
  <2>2. ASSUME NEW b \in DOMAIN worlds', NEW a \in Acct, NEW f \in Scalar \cup Key
        PROVE  worlds'[b][a][f] = Val(b.root, a, f)
    <3>1. CASE b = Completed
      BY <2>1, <3>1
    <3>2. CASE b # Completed
      BY <1>9, <3>2 DEF Inv, WorldsOK
    <3> QED BY <3>1, <3>2
  <2> QED BY <2>2 DEF WorldsOK
<1> QED BY <1>4, <1>5, <1>6, <1>7, <1>8, <1>10, <1>11 DEF Inv

LEMMA InvWrite ==
  ASSUME Inv, Write
  PROVE  Inv'
<1>1. /\ process = "Up" /\ phase = "Executed" /\ phase' = "Written"
      /\ db' = Batched /\ wb' = Empty
      /\ UNCHANGED <<process, tree, indexed, tx_cache, tx_queue, in_queue, mempool, ticker,
                     blocks, run, starts, worlds>>
  BY DEF Write, CommitWritebatch, Batched, chainVars, mempoolVars, historyVars
<1>2. Types'
  BY <1>1 DEF Inv, Types, Phases
<1>3. WorldsOK' /\ CacheOK'
  BY <1>1, SameWorlds, SameCache DEF Inv
<1>4. DownOK' /\ RunOK'
  BY <1>1 DEF DownOK, RunOK
<1>5. BlocksOK'
  BY <1>1, SameBlocks DEF Inv, BlocksOK
<1>6. Mirrors(Batched) /\ TipOK(Batched, blocks[1])
  BY <1>1 DEF Inv, BatchOK
<1>7. UpOK'
  BY <1>1, <1>6 DEF Inv, UpOK, Mirrors
<1>8. BatchOK'
  BY <1>1, <1>6 DEF BatchOK, TipOK, Latest
<1> QED BY <1>2, <1>3, <1>4, <1>5, <1>7, <1>8 DEF Inv

(* What Extend does to the chain and to what is left of the message. *)
LEMMA ExtendFacts ==
  ASSUME Inv, Extend
  PROVE  /\ Mirrors(db) /\ Mirrors(db)' /\ wb' = Empty
         /\ Len(indexed') = Len(indexed) + 1
         /\ \A i \in 1 .. Len(indexed) : indexed'[i] = indexed[i]
         /\ indexed'[Len(indexed) + 1] = blocks[1] /\ blocks[1] \in tree
         /\ Len(blocks) \in Nat /\ Len(blocks) > 0
         /\ IsSeq(blocks') /\ Len(blocks') = Len(blocks) - 1
         /\ \A i \in 1 .. Len(blocks) - 1 : blocks'[i] = blocks[i + 1]
<1>1. process = "Up" /\ phase = "Written"
  BY DEF Extend
<1>2. /\ Mirrors(db) /\ (\A i \in 1 .. Len(indexed) : indexed[i] \in tree) /\ wb = Empty
      /\ TipOK(db, blocks[1])
  BY <1>1 DEF Inv, UpOK, BatchOK
<1>3. blocks[1] \in tree /\ blocks[1].number >= Len(indexed)
  <2>1. Len(indexed) \in Nat
    BY <1>2, IsSeqFacts DEF Mirrors
  <2> QED BY <1>2, <2>1 DEF TipOK
<1>4. SetCanonicalTail(blocks[1])
  BY <1>3 DEF Extend
<1>5. /\ Mirrors(db)' /\ wb' = Empty
      /\ Len(indexed') = Len(indexed) + 1
      /\ \A i \in 1 .. Len(indexed) : indexed'[i] = indexed[i]
      /\ indexed'[Len(indexed) + 1] = blocks[1]
  BY <1>2, <1>4, TailOfChain
<1>6. /\ Len(blocks) \in Nat /\ Len(blocks) > 0
      /\ IsSeq(blocks') /\ Len(blocks') = Len(blocks) - 1
      /\ \A i \in 1 .. Len(blocks) - 1 : blocks'[i] = blocks[i + 1]
  <2> DEFINE R == {blocks[r] : r \in DOMAIN blocks}
             K == Tail(blocks)
             T == {K[r] : r \in DOMAIN K}
  <2>1. IsSeq(blocks) /\ Len(blocks) \in Nat /\ Len(blocks) > 0
    BY <1>1, IsSeqFacts DEF Inv, BlocksOK
  <2>2. blocks \in Seq(R)
    BY <2>1 DEF IsSeq
  <2> HIDE DEF R
  <2>3. blocks # <<>>
    BY <2>1, <2>2, EmptySeq
  <2>4. /\ K \in Seq(R) /\ Len(K) = Len(blocks) - 1
        /\ \A i \in 1 .. Len(K) : K[i] = blocks[i + 1]
    BY <2>2, <2>3, HeadTailProperties
  <2>5. Len(K) \in Nat /\ DOMAIN K = 1 .. Len(K) /\ K \in [1 .. Len(K) -> R]
    BY <2>4, LenProperties
  <2>6. \A r \in 1 .. Len(K) : K[r] \in T
    BY <2>5
  <2> HIDE DEF K, T
  <2>7. K \in [1 .. Len(K) -> T]
    BY <2>5, <2>6
  <2>8. K \in Seq(T)
    BY <2>5, <2>7, SeqDef
  <2>9. IsSeq(K)
    BY <2>8 DEF IsSeq, T
  <2>10. blocks' = K
    BY DEF Extend, K
  <2> QED BY <2>1, <2>4, <2>9, <2>10
<1> QED BY <1>2, <1>3, <1>5, <1>6

LEMMA InvExtend ==
  ASSUME Inv, Extend
  PROVE  Inv'
<1>1. /\ process = "Up" /\ phase = "Written"
      /\ phase' = IF Len(blocks) = 1 THEN "Answered" ELSE "Adding"
      /\ UNCHANGED <<process, tree, tx_cache, tx_queue, in_queue, mempool, ticker, run, starts, worlds>>
  BY DEF Extend, mempoolVars, historyVars
<1> DEFINE L == Len(indexed)
<1>2. /\ Mirrors(db) /\ Mirrors(db)' /\ wb' = Empty
      /\ Len(indexed') = L + 1
      /\ \A i \in 1 .. L : indexed'[i] = indexed[i]
      /\ indexed'[L + 1] = blocks[1] /\ blocks[1] \in tree
      /\ Len(blocks) \in Nat /\ Len(blocks) > 0
      /\ IsSeq(blocks') /\ Len(blocks') = Len(blocks) - 1
      /\ \A i \in 1 .. Len(blocks) - 1 : blocks'[i] = blocks[i + 1]
  BY ExtendFacts
<1>3. L \in Nat /\ \A i \in 1 .. L + 1 : i # L + 1 => i \in 1 .. L
  BY <1>2, IsSeqFacts DEF Mirrors
<1>4. Types'
  BY <1>1 DEF Inv, Types, Phases
<1>5. WorldsOK'
  BY <1>1, SameWorlds DEF Inv
<1>6. DownOK' /\ RunOK' /\ BatchOK'
  BY <1>1, <1>2 DEF DownOK, RunOK, BatchOK
<1>7. UpOK'
  <2>1. \A i \in 1 .. L + 1 : indexed'[i] \in tree
    BY <1>1, <1>2, <1>3 DEF Inv, UpOK
  <2> QED BY <1>1, <1>2, <2>1 DEF Inv, UpOK
<1>8. CacheOK'
  <2>1. 1 .. L \subseteq 1 .. L + 1
    BY <1>3
  <2> QED BY <1>1, <1>2, <2>1 DEF Inv, CacheOK
<1>9. BlocksOK'
  <2>1. \A i \in 1 .. Len(blocks) - 1 : i + 1 \in 1 .. Len(blocks)
    BY <1>2
  <2>2. phase' # "Answered" => Len(blocks') > 0
    BY <1>1, <1>2
  <2> QED BY <1>1, <1>2, <2>1, <2>2 DEF Inv, BlocksOK
<1> QED BY <1>4, <1>5, <1>6, <1>7, <1>8, <1>9 DEF Inv

(* A database that has the genesis block can be loaded. *)
LEMMA LoadedFacts ==
  ASSUME DbOK(db)
  PROVE  /\ Loadable
         /\ IsSeq(Loaded) /\ Len(Loaded) = db[IndexKey(0)]
         /\ \A i \in 1 .. db[IndexKey(0)] : Loaded[i] = db[IndexKey(i)]
<1> DEFINE N == db[IndexKey(0)]
           S == {Loaded[r] : r \in DOMAIN Loaded}
<1>1. N \in Nat \ {0} /\ IndexKey(0) \in DOMAIN db
  BY DEF DbOK
<1>2. \A i \in 2 .. N : i \in 1 .. N /\ i > 1
  BY <1>1
<1>3. Loadable
  BY <1>1, <1>2 DEF Loadable, DbOK
<1>4. \A i \in 1 .. N : Loaded[i] = db[IndexKey(i)]
  BY DEF Loaded, DbOK
<1>5. Loaded \in [1 .. N -> S] /\ DOMAIN Loaded = 1 .. N
  BY DEF Loaded
<1> HIDE DEF S
<1>6. Loaded \in Seq(S) /\ Len(Loaded) = N
  BY <1>1, <1>5, SeqDef, LenProperties
<1>7. IsSeq(Loaded)
  BY <1>6 DEF IsSeq, S
<1> QED BY <1>3, <1>4, <1>6, <1>7

LEMMA InvStart ==
  ASSUME Inv, Start
  PROVE  Inv'
<1>1. /\ process = "Down" /\ starts < MaxStarts /\ starts' = starts + 1
      /\ mempool' = "Alive" /\ ticker' = "Alive"
      /\ UNCHANGED <<wb, tx_cache, tx_queue, in_queue, phase, blocks, run>>
  BY DEF Start
<1>2. /\ db = Empty \/ (DbOK(db) /\ \A i \in 1 .. db[IndexKey(0)] : db[IndexKey(i)] \in DOMAIN worlds)
      /\ wb = Empty /\ tx_cache = Empty /\ phase = "Idle" /\ blocks = <<>>
  BY <1>1 DEF Inv, DownOK
<1>3. process' = "Up" /\ UpOK' /\ WorldsOK'
  <2>1. CASE Initialize
    <3>1. db = Empty
      BY <1>2, <2>1 DEF Initialize, IsFirstStart, DbOK
    <3>2. /\ Mirrors(db)' /\ WorldsOK'
          /\ tree' = {Genesis} /\ indexed' = <<Genesis>> /\ DOMAIN worlds' = {Genesis}
      BY <1>2, <2>1, <3>1, GenesisDb
    <3>3. Len(<<Genesis>>) = 1 /\ \A i \in 1 .. 1 : <<Genesis>>[i] = Genesis
      OBVIOUS
    <3>4. UpOK'
      BY <3>2, <3>3 DEF UpOK
    <3> QED BY <2>1, <3>2, <3>4 DEF Initialize
  <2>2. CASE Load
    <3>1. DbOK(db) /\ \A i \in 1 .. db[IndexKey(0)] : db[IndexKey(i)] \in DOMAIN worlds
      BY <1>2, <2>2, EmptyFacts DEF Load, IsFirstStart
    <3>2. /\ Loadable
          /\ IsSeq(Loaded) /\ Len(Loaded) = db[IndexKey(0)]
          /\ \A i \in 1 .. db[IndexKey(0)] : Loaded[i] = db[IndexKey(i)]
      BY <3>1, LoadedFacts
    <3>3. /\ indexed' = Loaded /\ tree' = {Loaded[i] : i \in DOMAIN Loaded}
          /\ process' = "Up" /\ db' = db /\ worlds' = worlds
      BY <2>2, <3>2 DEF Load
    <3>4. DOMAIN Loaded = 1 .. Len(Loaded)
      BY <3>2, IsSeqFacts
    <3>5. Mirrors(db)'
      BY <3>1, <3>2, <3>3 DEF Mirrors
    <3>6. UpOK'
      BY <3>1, <3>2, <3>3, <3>4, <3>5 DEF UpOK
    <3> QED BY <3>3, <3>6, SameWorlds DEF Inv
  <2> QED BY <2>1, <2>2 DEF Start
<1>4. Types'
  <2>1. starts' \in 0 .. MaxStarts
    BY <1>1, NodeAssumption DEF Inv, Types
  <2> QED BY <1>1, <1>3, <2>1 DEF Inv, Types
<1>5. CacheOK'
  BY <1>1, <1>2, EmptyFacts DEF CacheOK
<1>6. DownOK' /\ RunOK' /\ BatchOK'
  BY <1>1, <1>2, <1>3 DEF DownOK, RunOK, BatchOK
<1>7. BlocksOK'
  BY <1>1, <1>2, SameBlocks DEF Inv
<1> QED BY <1>3, <1>4, <1>5, <1>6, <1>7 DEF Inv

LEMMA InvCrash ==
  ASSUME Inv, Crash
  PROVE  Inv'
<1>1. /\ process = "Up" /\ process' = "Down" /\ wb' = Empty
      /\ tree' = {} /\ indexed' = <<>> /\ tx_cache' = Empty
      /\ tx_queue' = <<>> /\ in_queue' = {} /\ mempool' = "Dead"
      /\ ticker' = "Dead" /\ phase' = "Idle" /\ blocks' = <<>>
      /\ UNCHANGED <<db, starts, worlds>>
  BY DEF Crash, historyVars
<1>2. Types'
  <2>1. <<>> \in Seq(Tx)
    OBVIOUS
  <2> QED BY <1>1, <2>1 DEF Inv, Types, Phases
<1>3. DownOK'
  <2>1. Mirrors(db) /\ \A i \in 1 .. Len(indexed) : indexed[i] \in DOMAIN worlds
    BY <1>1 DEF Inv, UpOK
  <2>2. DbOK(db) /\ \A i \in 1 .. db[IndexKey(0)] : db[IndexKey(i)] \in DOMAIN worlds
    BY <2>1 DEF Mirrors
  <2> QED BY <1>1, <2>2 DEF DownOK
<1>4. UpOK' /\ RunOK' /\ BatchOK'
  BY <1>1 DEF UpOK, RunOK, BatchOK
<1>5. WorldsOK' /\ CacheOK'
  BY <1>1, SameWorlds, EmptyFacts DEF Inv, CacheOK
<1>6. BlocksOK'
  <2>1. IsSeq(<<>>) /\ Len(<<>>) = 0
    BY DEF IsSeq
  <2> QED BY <1>1, <2>1 DEF BlocksOK
<1> QED BY <1>2, <1>3, <1>4, <1>5, <1>6 DEF Inv

LEMMA NextInv ==
  Inv /\ [Next]_vars => Inv'
<1> SUFFICES ASSUME Inv, [Next]_vars PROVE Inv'
  OBVIOUS
<1>1. CASE UNCHANGED vars
  <2>1. UNCHANGED <<db, wb, process, tree, indexed, tx_cache, tx_queue, in_queue, mempool, ticker,
                    phase, blocks, run, starts, worlds>>
    BY <1>1 DEF vars, chainVars, mempoolVars, historyVars
  <2>2. UpOK' /\ WorldsOK' /\ CacheOK'
    BY <2>1, SameChain, SameWorlds, SameCache DEF Inv
  <2>3. Types' /\ DownOK' /\ BlocksOK' /\ RunOK'
    BY <2>1 DEF Inv, Types, DownOK, BlocksOK, RunOK
  <2>4. BatchOK'
    BY <2>1 DEF Inv, BatchOK, Batched, Mirrors, TipOK, Latest
  <2> QED BY <2>2, <2>3, <2>4 DEF Inv
<1>2. ASSUME NEW t \in Tx, AddTransaction(t) PROVE Inv'
  BY <1>2, InvAddTransaction
<1>3. ASSUME NEW t \in Tx, GetCachedTx(t) PROVE Inv'
  BY <1>3, InvGetCachedTx
<1>4. ASSUME NEW time \in Times, GenBlocks(time) PROVE Inv'
  BY <1>4, InvGenBlocks
<1>5. ASSUME NEW b \in DOMAIN worlds, GetBlockByHash(b) PROVE Inv'
  BY <1>5, InvGetBlockByHash
<1>6. ASSUME NEW verdict, RunTx(verdict) PROVE Inv'
  BY <1>6, InvRunTx
<1>7. CASE Tick \/ AddBlocks \/ Resume
  BY <1>7, InvTickAddBlocksResume
<1>8. CASE BeginTransition
  BY <1>8, InvBeginTransition
<1>9. CASE AddBlock
  BY <1>9, InvAddBlock
<1>10. CASE AddBlockPanics
  BY <1>10, InvAddBlockPanics
<1>11. CASE Write
  BY <1>11, InvWrite
<1>12. CASE Extend
  BY <1>12, InvExtend
<1>13. CASE Start
  BY <1>13, InvStart
<1>14. CASE Crash
  BY <1>14, InvCrash
<1> QED
  BY <1>1, <1>2, <1>3, <1>4, <1>5, <1>6, <1>7, <1>8, <1>9, <1>10, <1>11, <1>12, <1>13, <1>14 DEF Next

LEMMA InvHolds ==
  Spec => []Inv
<1>1. Init => Inv
  BY InitInv
<1>2. Inv /\ [Next]_vars => Inv'
  BY NextInv
<1> QED BY <1>1, <1>2, PTL DEF Spec

-----------------------------------------------------------------------------
(* Theorems.                                                               *)

(* The variables of the node keep their types; in particular the blocks of *)
(* the tree are ones that were computed.                                   *)
THEOREM NodeTypes == Spec => []TypeOK
<1>1. Inv => TypeOK
  BY DEF Inv, Types, DownOK, UpOK, CacheOK, TypeOK
<1> QED BY <1>1, InvHolds, PTL

(* Wherever between its writes the process ends, the database is empty or  *)
(* can be started from: the index is an unbroken line from the genesis     *)
(* block, and every block on it has its outcome and its state              *)
(* (DemoChainStateMutable::new, add_block, set_canonical_tail).            *)
THEOREM AlwaysRestartable == Spec => []DurableChain
<1>1. Inv => DurableChain
  <2> SUFFICES ASSUME Inv, db # Empty PROVE DurableChain
    BY DEF DurableChain
  <2>1. DbOK(db) /\ process # "Broken"
    BY DEF Inv, Types, DownOK, UpOK, Mirrors
  <2>2. /\ Loadable
        /\ \A i \in 1 .. db[IndexKey(0)] : Loaded[i] = db[IndexKey(i)]
    BY <2>1, LoadedFacts
  <2>3. ASSUME NEW i \in 1 .. db[IndexKey(0)]
        PROVE  /\ Loaded[i].number = i - 1
               /\ i > 1 => Loaded[i].parent = Loaded[i - 1]
               /\ HasState(Loaded[i])
    <3>1. db[IndexKey(0)] \in Nat
      BY <2>1 DEF DbOK
    <3>2. i > 1 => i - 1 \in 1 .. db[IndexKey(0)]
      BY <3>1
    <3>3. /\ db[IndexKey(i)].number = i - 1
          /\ i > 1 => db[IndexKey(i)].parent = db[IndexKey(i - 1)]
          /\ OutcomeKey(db[IndexKey(i)]) \in DOMAIN db
          /\ ContainsIn(db, db[IndexKey(i)].root)
      BY <2>1 DEF DbOK, GoodBlock, SoundIn
    <3>4. Contains(db[IndexKey(i)].root)
      BY <3>3, InDb
    <3> QED BY <2>2, <3>2, <3>3, <3>4 DEF HasState
  <2> QED BY <2>1, <2>2, <2>3 DEF DurableChain
<1> QED BY <1>1, InvHolds, PTL

(* Whoever asks for the state at a canonical block gets what the           *)
(* transactions up to it made of it (MerkleDBInner::get on what commit     *)
(* wrote).                                                                 *)
THEOREM StatesAreKept == Spec => []StatesReadBack
<1>1. Inv => StatesReadBack
  <2> SUFFICES ASSUME Inv, NEW i \in DOMAIN indexed, NEW a \in Acct, NEW f \in Scalar \cup Key
               PROVE  Query(i - 1, a, f) = worlds[indexed[i]][a][f]
    BY DEF StatesReadBack
  <2>1. process = "Up"
    BY DEF Inv, Types, DownOK
  <2>2. Mirrors(db) /\ DbOK(db) /\ tree \subseteq DOMAIN worlds
    BY <2>1 DEF Inv, UpOK, Mirrors
  <2>3. i \in 1 .. Len(indexed) /\ Len(indexed) \in Nat /\ Len(indexed) = db[IndexKey(0)]
    BY <2>2, IsSeqFacts DEF Mirrors
  <2> DEFINE b == indexed[i]
  <2>4. b \in DOMAIN worlds
    BY <2>1, <2>3 DEF Inv, UpOK
  <2>5. StoreOK(db) /\ SoundIn(db, b.root)
    BY <2>2, <2>3 DEF Mirrors, DbOK, GoodBlock
  <2>6. Get(b.root, a, f) = Val(b.root, a, f)
    BY <2>5, ReadSound
  <2>7. (i - 1) + 1 = i
    BY <2>3
  <2> QED BY <2>4, <2>6, <2>7 DEF Query, Inv, WorldsOK
<1> QED BY <1>1, InvHolds, PTL

(* A cached position stays on the canonical chain, and the receipt found   *)
(* there is the transaction's own when it and every one before it in its   *)
(* block succeeded (get_cached_tx, GetTxReceipt).                          *)
THEOREM CacheIsCanonical == Spec => []CachedTxIsCanonical
<1>1. Inv => CachedTxIsCanonical
  <2> SUFFICES ASSUME Inv, NEW t \in DOMAIN tx_cache
               PROVE  LET c == tx_cache[t] IN
                      /\ \E i \in DOMAIN indexed : indexed[i] = c.block
                      /\ c.block.txs[c.idx] = t
                      /\ 1 .. c.idx \subseteq Outcome(t).succeeded =>
                           HasReceipt(t) /\ Receipt(t) = t
    BY DEF CachedTxIsCanonical
  <2> DEFINE c == tx_cache[t]
             out == db[OutcomeKey(c.block)]
  <2>1. process = "Up"
    BY EmptyFacts DEF Inv, Types, DownOK
  <2>2. Mirrors(db) /\ DbOK(db)
    BY <2>1 DEF Inv, UpOK, Mirrors
  <2>3. DOMAIN indexed = 1 .. Len(indexed) /\ Len(indexed) = db[IndexKey(0)]
    BY <2>2, IsSeqFacts DEF Mirrors
  <2>4. PICK i \in 1 .. Len(indexed) : c.block = indexed[i]
    BY DEF Inv, CacheOK
  <2>5. c.idx \in 1 .. Len(c.block.txs) /\ c.block.txs[c.idx] = t
    BY DEF Inv, CacheOK
  <2>6. OutcomeOK(out, c.block.txs) /\ c.block.txs \in Seq(Tx)
    BY <2>2, <2>3, <2>4 DEF Mirrors, DbOK, GoodBlock
  <2>7. ASSUME 1 .. c.idx \subseteq Outcome(t).succeeded PROVE HasReceipt(t) /\ Receipt(t) = t
    <3>1. out = Outcome(t)
      BY DEF Outcome
    <3>2. out.gas_used[c.idx] = c.block.txs[c.idx] /\ c.idx <= Len(out.gas_used)
      BY <2>5, <2>6, <2>7, <3>1 DEF OutcomeOK, OutcomeTo
    <3> QED BY <2>5, <3>1, <3>2 DEF HasReceipt, Receipt
  <2> QED BY <2>3, <2>4, <2>5, <2>7
<1> QED BY <1>1, InvHolds, PTL

(* No step shortens or rewrites the canonical chain in the database        *)
(* (set_canonical_tail, and what it is given).                             *)
THEOREM ChainGrows == Spec => ChainOnlyGrows
<1> DEFINE Grows == db # Empty =>
             \A i \in 1 .. db[IndexKey(0)] :
               /\ IndexKey(i) \in DOMAIN db' /\ db'[IndexKey(0)] >= i
               /\ db'[IndexKey(i)] = db[IndexKey(i)]
<1>1. ASSUME Inv, [Next]_vars PROVE Grows
  <2> SUFFICES ASSUME db # Empty, NEW i \in 1 .. db[IndexKey(0)]
               PROVE  /\ IndexKey(i) \in DOMAIN db' /\ db'[IndexKey(0)] >= i
                      /\ db'[IndexKey(i)] = db[IndexKey(i)]
    OBVIOUS
  <2>1. DbOK(db)
    BY <1>1 DEF Inv, Types, DownOK, UpOK, Mirrors
  <2>2. db[IndexKey(0)] \in Nat /\ IndexKey(i) \in DOMAIN db
    BY <2>1 DEF DbOK
  <2>3. CASE UNCHANGED db
    BY <2>2, <2>3
  <2>4. CASE Write
    <3>1. Mirrors(db) /\ Mirrors(Batched) /\ db' = Batched
      BY <1>1, <2>4 DEF Write, CommitWritebatch, Batched, Inv, UpOK, BatchOK
    <3> QED BY <2>2, <3>1 DEF Mirrors, DbOK
  <2>5. CASE Extend
    <3> DEFINE L == Len(indexed)
    <3>1. /\ Mirrors(db) /\ Mirrors(db)'
          /\ Len(indexed') = L + 1
          /\ \A j \in 1 .. L : indexed'[j] = indexed[j]
      BY <1>1, <2>5, ExtendFacts
    <3>2. i \in 1 .. L /\ L \in Nat /\ indexed[i] = db[IndexKey(i)]
      BY <2>2, <3>1 DEF Mirrors
    <3>3. i \in 1 .. L + 1
      BY <3>2
    <3>4. IndexKey(i) \in DOMAIN db' /\ indexed'[i] = db'[IndexKey(i)] /\ db'[IndexKey(0)] = L + 1
      BY <3>1, <3>3 DEF Mirrors, DbOK
    <3> QED BY <3>1, <3>2, <3>4
  <2>6. CASE Start
    <3>1. ~Initialize
      BY <2>1 DEF Initialize, IsFirstStart, DbOK
    <3>2. UNCHANGED db
      BY <2>6, <3>1 DEF Start, Load
    <3> QED BY <2>3, <3>2
  <2>7. CASE ~Write /\ ~Extend /\ ~Start
    <3>1. UNCHANGED db
      BY <1>1, <2>7 DEF Next, vars, AddTransaction, GetCachedTx, GenBlocks, GetBlockByHash, RunTx,
         Tick, AddBlocks, BeginTransition, AddBlock, AddBlockPanics, Resume, Crash
    <3> QED BY <2>3, <3>1
  <2> QED BY <2>4, <2>5, <2>6, <2>7
<1>2. Inv /\ [Next]_vars => [Grows]_vars
  BY <1>1
<1> QED BY <1>2, InvHolds, PTL DEF Spec, ChainOnlyGrows

-----------------------------------------------------------------------------
(* How often a transaction is on the canonical chain.                      *)

OccOf(c, t) ==
  {p \in (DOMAIN c) \X (1 .. MaxBlockTxs) : p[2] <= Len(c[p[1]].txs) /\ c[p[1]].txs[p[2]] = t}
Stored(d) == [i \in 1 .. d[IndexKey(0)] |-> d[IndexKey(i)]]

(* The transactions that may still come to be on it. *)
Queued(t)  == \E n \in 1 .. Len(tx_queue) : tx_queue[n] = t
Blocked(t) == \E i \in 1 .. Len(blocks) : \E n \in 1 .. Len(blocks[i].txs) : blocks[i].txs[n] = t
ToCome(t)  == t \notin in_queue \/ Queued(t) \/ Blocked(t)

(* Each was taken once, and is in one place. *)
OneEach ==
  \A i, j \in 1 .. Len(blocks) :
    \A m \in 1 .. Len(blocks[i].txs) : \A n \in 1 .. Len(blocks[j].txs) :
      blocks[i].txs[m] = blocks[j].txs[n] => i = j /\ m = n
QueueOK ==
  /\ \A m, n \in 1 .. Len(tx_queue) : tx_queue[m] = tx_queue[n] => m = n
  /\ OneEach
  /\ \A t : Queued(t) => ~Blocked(t) /\ t \in in_queue
  /\ \A t : Blocked(t) => t \in in_queue

(* Every start gives a transaction one more chance. *)
CountOK ==
  \A t \in Tx :
    /\ process = "Down" /\ db # Empty => Cardinality(OccOf(Stored(db), t)) <= starts
    /\ process = "Up" => /\ Cardinality(OccOf(indexed, t)) <= starts
                         /\ ToCome(t) => Cardinality(OccOf(indexed, t)) < starts

LEMMA OccFinite ==
  ASSUME NEW c, IsSeq(c), NEW t
  PROVE  IsFiniteSet(OccOf(c, t)) /\ Cardinality(OccOf(c, t)) \in Nat
<1>1. Len(c) \in Nat /\ DOMAIN c = 1 .. Len(c)
  BY IsSeqFacts
<1>2. MaxBlockTxs \in Nat
  BY NodeAssumption
<1>3. IsFiniteSet(1 .. Len(c)) /\ IsFiniteSet(1 .. MaxBlockTxs)
  BY <1>1, <1>2, FS_Interval
<1>4. IsFiniteSet((1 .. Len(c)) \X (1 .. MaxBlockTxs))
  BY <1>3, FS_Product
<1>5. OccOf(c, t) \subseteq (1 .. Len(c)) \X (1 .. MaxBlockTxs)
  BY <1>1 DEF OccOf
<1>6. IsFiniteSet(OccOf(c, t))
  BY <1>4, <1>5, FS_Subset
<1> QED BY <1>6, FS_CardinalityType

LEMMA OccAgree ==
  ASSUME NEW c, NEW e, DOMAIN c = DOMAIN e, \A i \in DOMAIN c : c[i] = e[i], NEW t
  PROVE  OccOf(c, t) = OccOf(e, t)
BY DEF OccOf

LEMMA MirrorsOcc ==
  ASSUME Mirrors(db), NEW t
  PROVE  OccOf(Stored(db), t) = OccOf(indexed, t)
<1>1. DOMAIN indexed = 1 .. Len(indexed) /\ Len(indexed) = db[IndexKey(0)]
  BY IsSeqFacts DEF Mirrors
<1>2. DOMAIN Stored(db) = 1 .. Len(indexed) /\ \A i \in 1 .. Len(indexed) : Stored(db)[i] = indexed[i]
  BY <1>1 DEF Stored, Mirrors
<1> QED BY <1>1, <1>2, OccAgree

(* A chain that grows by a block. *)
LEMMA OccExtends ==
  ASSUME NEW c, IsSeq(c), NEW e, IsSeq(e), Len(e) = Len(c) + 1,
         \A i \in 1 .. Len(c) : e[i] = c[i],
         NEW b, e[Len(c) + 1] = b, b.txs \in Seq(Tx), Len(b.txs) <= MaxBlockTxs, NEW t,
         \A m, n \in 1 .. Len(b.txs) : b.txs[m] = t /\ b.txs[n] = t => m = n
  PROVE  /\ (\E n \in 1 .. Len(b.txs) : b.txs[n] = t) =>
              Cardinality(OccOf(e, t)) = Cardinality(OccOf(c, t)) + 1
         /\ ~(\E n \in 1 .. Len(b.txs) : b.txs[n] = t) => OccOf(e, t) = OccOf(c, t)
<1> DEFINE L == Len(c)
           M == MaxBlockTxs
<1>1. L \in Nat /\ DOMAIN c = 1 .. L /\ DOMAIN e = 1 .. L + 1 /\ M \in Nat /\ Len(b.txs) \in Nat
  BY IsSeqFacts, NodeAssumption
<1>2. OccOf(c, t) = {p \in (1 .. L) \X (1 .. M) : p[2] <= Len(c[p[1]].txs) /\ c[p[1]].txs[p[2]] = t}
  BY <1>1 DEF OccOf
<1>3. OccOf(e, t) = {p \in (1 .. L + 1) \X (1 .. M) : p[2] <= Len(e[p[1]].txs) /\ e[p[1]].txs[p[2]] = t}
  BY <1>1 DEF OccOf
<1>4. \A i \in 1 .. L : i \in 1 .. L + 1 /\ i # L + 1
  BY <1>1
<1>5. \A i \in 1 .. L + 1 : i # L + 1 => i \in 1 .. L
  BY <1>1
<1>6. L + 1 \in 1 .. L + 1
  BY <1>1
<1> HIDE DEF L, M
<1>7. ASSUME NEW i, NEW n
      PROVE  <<i, n>> \in OccOf(e, t) <=>
               <<i, n>> \in OccOf(c, t) \/ (i = L + 1 /\ n \in 1 .. Len(b.txs) /\ b.txs[n] = t)
  <2>1. <<i, n>> \in OccOf(c, t) <=> i \in 1 .. L /\ n \in 1 .. M /\ n <= Len(c[i].txs) /\ c[i].txs[n] = t
    BY <1>2
  <2>2. <<i, n>> \in OccOf(e, t) <=> i \in 1 .. L + 1 /\ n \in 1 .. M /\ n <= Len(e[i].txs) /\ e[i].txs[n] = t
    BY <1>3
  <2>3. CASE i = L + 1
    <3>1. e[i] = b /\ i \notin 1 .. L /\ i \in 1 .. L + 1
      BY <1>4, <1>6, <2>3 DEF L
    <3>2. n \in 1 .. M /\ n <= Len(b.txs) <=> n \in 1 .. Len(b.txs)
      BY <1>1 DEF M
    <3> QED BY <2>1, <2>2, <2>3, <3>1, <3>2
  <2>4. CASE i # L + 1
    <3>1. i \in 1 .. L + 1 <=> i \in 1 .. L
      BY <1>4, <1>5, <2>4
    <3>2. i \in 1 .. L => e[i] = c[i]
      BY DEF L
    <3> QED BY <2>1, <2>2, <2>4, <3>1, <3>2
  <2> QED BY <2>3, <2>4
<1>8. /\ \A p \in OccOf(c, t) : p = <<p[1], p[2]>>
      /\ \A p \in OccOf(e, t) : p = <<p[1], p[2]>>
  BY <1>2, <1>3
<1>9. ASSUME ~(\E n \in 1 .. Len(b.txs) : b.txs[n] = t) PROVE OccOf(e, t) = OccOf(c, t)
  <2>1. \A i, n : <<i, n>> \in OccOf(e, t) <=> <<i, n>> \in OccOf(c, t)
    BY <1>7, <1>9
  <2>2. ASSUME NEW p \in OccOf(e, t) PROVE p \in OccOf(c, t)
    BY <1>8, <2>1
  <2>3. ASSUME NEW p \in OccOf(c, t) PROVE p \in OccOf(e, t)
    BY <1>8, <2>1
  <2> QED BY <2>2, <2>3
<1>10. ASSUME NEW n \in 1 .. Len(b.txs), b.txs[n] = t
       PROVE  Cardinality(OccOf(e, t)) = Cardinality(OccOf(c, t)) + 1
  <2>1. \A i, m : <<i, m>> \in OccOf(e, t) <=> <<i, m>> \in OccOf(c, t) \/ <<i, m>> = <<L + 1, n>>
    BY <1>7, <1>10
  <2>2. OccOf(e, t) = OccOf(c, t) \cup {<<L + 1, n>>}
    BY <1>8, <2>1
  <2>3. <<L + 1, n>> \notin OccOf(c, t)
    BY <1>2, <1>4
  <2>4. IsFiniteSet(OccOf(c, t))
    BY OccFinite
  <2> QED BY <2>2, <2>3, <2>4, FS_AddElement
<1> QED BY <1>9, <1>10

-----------------------------------------------------------------------------

Inv2 == QueueOK /\ CountOK

LEMMA InitInv2 ==
  Init => Inv2
<1> SUFFICES ASSUME Init PROVE Inv2
  OBVIOUS
<1>1. Len(tx_queue) = 0 /\ Len(blocks) = 0
  BY DEF Init
<1>2. \A n : n \notin 1 .. 0
  OBVIOUS
<1>3. QueueOK
  BY <1>1, <1>2 DEF QueueOK, OneEach, Queued, Blocked
<1>4. CountOK
  BY DEF Init, CountOK
<1> QED BY <1>3, <1>4 DEF Inv2

(* Where the chain is left alone and no transaction gets another chance. *)
LEMMA SameCount ==
  ASSUME CountOK, process = "Up", UNCHANGED <<process, indexed, starts>>,
         \A t \in Tx : ToCome(t)' => ToCome(t)
  PROVE  CountOK'
BY DEF CountOK

LEMMA SameQueueOK ==
  ASSUME QueueOK, UNCHANGED <<tx_queue, in_queue, blocks>>
  PROVE  QueueOK' /\ \A t : ToCome(t)' <=> ToCome(t)
<1>1. OneEach'
  BY DEF QueueOK, OneEach
<1>2. \A t : Queued(t)' <=> Queued(t)
  BY DEF Queued
<1>3. \A t : Blocked(t)' <=> Blocked(t)
  BY DEF Blocked
<1>4. QueueOK'
  BY <1>1, <1>2, <1>3 DEF QueueOK
<1> QED BY <1>2, <1>3, <1>4 DEF ToCome

LEMMA SameQueues ==
  ASSUME Inv2, process = "Up", UNCHANGED <<process, indexed, starts, tx_queue, in_queue, blocks>>
  PROVE  Inv2'
<1>1. QueueOK' /\ \A t : ToCome(t)' <=> ToCome(t)
  BY SameQueueOK DEF Inv2
<1> QED BY <1>1, SameCount DEF Inv2

LEMMA Inv2AddTransaction ==
  ASSUME Inv, Inv2, NEW t \in Tx, AddTransaction(t)
  PROVE  Inv2'
<1>1. process = "Up" /\ UNCHANGED <<process, indexed, starts, blocks>>
  BY DEF AddTransaction, Free, chainVars, historyVars
<1>2. CASE UNCHANGED <<tx_queue, in_queue>>
  BY <1>1, <1>2, SameQueues
<1>3. CASE /\ t \notin in_queue /\ in_queue' = in_queue \cup {t}
           /\ tx_queue' = Append(tx_queue, t)
  <2> DEFINE q == tx_queue
             L == Len(tx_queue)
  <2>1. /\ q \in Seq(Tx) /\ L \in Nat /\ Len(tx_queue') = L + 1
        /\ \A n \in 1 .. L : tx_queue'[n] = q[n]
        /\ tx_queue'[L + 1] = t
    BY <1>3, AppendProperties DEF Inv, Types
  <2>2. \A n \in 1 .. L + 1 : n = L + 1 \/ n \in 1 .. L
    BY <2>1
  <2>3. \A n \in 1 .. L : q[n] # t
    BY <1>3 DEF Inv2, QueueOK, Queued
  <2>4. \A m, n \in 1 .. L + 1 : tx_queue'[m] = tx_queue'[n] => m = n
    BY <2>1, <2>2, <2>3 DEF Inv2, QueueOK
  <2>5. \A x : Queued(x)' => Queued(x) \/ x = t
    BY <2>1, <2>2 DEF Queued
  <2>6. \A x : Blocked(x)' <=> Blocked(x)
    BY <1>1 DEF Blocked
  <2>7. ~Blocked(t)
    BY <1>3 DEF Inv2, QueueOK
  <2>8. /\ \A x : Queued(x)' => ~Blocked(x)' /\ x \in in_queue'
        /\ \A x : Blocked(x)' => x \in in_queue'
    BY <1>3, <2>5, <2>6, <2>7 DEF Inv2, QueueOK
  <2>9. OneEach'
    BY <1>1 DEF Inv2, QueueOK, OneEach
  <2>10. QueueOK'
    BY <2>1, <2>4, <2>8, <2>9 DEF QueueOK
  <2>11. \A x \in Tx : ToCome(x)' => ToCome(x)
    BY <1>3, <2>5, <2>6 DEF ToCome
  <2>12. CountOK'
    BY <1>1, <2>11, SameCount DEF Inv2
  <2> QED BY <2>10, <2>12 DEF Inv2
<1> QED BY <1>2, <1>3 DEF AddTransaction, IsNew

LEMMA Inv2GenBlocks ==
  ASSUME Inv, Inv2, NEW time \in Times, GenBlocks(time)
  PROVE  Inv2'
<1>1. process = "Up" /\ tx_queue' = <<>> /\ UNCHANGED <<process, indexed, starts, in_queue>>
  BY DEF GenBlocks, chainVars, historyVars
<1> DEFINE q == tx_queue
           M == MaxBlockTxs
           c == (Len(q) + MaxBlockTxs - 1) \div MaxBlockTxs
<1>2. q \in Seq(Tx) /\ Len(q) \in Nat /\ M \in Nat \ {0}
  BY NodeAssumption DEF Inv, Types
<1>3. /\ c \in Nat /\ DOMAIN Chunks(q) = 1 .. c
      /\ \A i \in 1 .. c :
           /\ Chunks(q)[i] \in Seq(Tx) /\ Len(Chunks(q)[i]) <= M
           /\ \A n \in 1 .. Len(Chunks(q)[i]) :
                /\ (i - 1) * M + n \in 1 .. Len(q)
                /\ Chunks(q)[i][n] = q[(i - 1) * M + n]
  BY <1>2, ChunksFacts
<1> HIDE DEF M, c
<1>4. Len(blocks') = c /\ \A i \in 1 .. c : blocks'[i].txs = Chunks(q)[i]
  <2> DEFINE X == [i \in 1 .. c |-> Block(0, ZeroHash, ZeroHash, time, Chunks(q)[i])]
             S == {X[r] : r \in DOMAIN X}
  <2>1. blocks' = X
    BY <1>3 DEF GenBlocks
  <2>2. X \in [1 .. c -> S] /\ DOMAIN X = 1 .. c
    OBVIOUS
  <2>4. \A i \in 1 .. c : X[i].txs = Chunks(q)[i]
    BY BlockFacts
  <2> HIDE DEF X, S
  <2>3. X \in Seq(S) /\ Len(X) = c
    BY <1>3, <2>2, SeqDef, LenProperties
  <2> QED BY <2>1, <2>3, <2>4
<1>5. \A n : n \notin 1 .. Len(<<>>)
  OBVIOUS
<1>6. \A x : ~Queued(x)'
  BY <1>1, <1>5 DEF Queued
<1>7. ASSUME NEW x, Blocked(x)' PROVE Queued(x)
  <2>1. PICK i \in 1 .. c : \E n \in 1 .. Len(Chunks(q)[i]) : Chunks(q)[i][n] = x
    BY <1>4, <1>7 DEF Blocked
  <2>2. PICK n \in 1 .. Len(Chunks(q)[i]) : Chunks(q)[i][n] = x
    BY <2>1
  <2> DEFINE k == (i - 1) * M + n
  <2>3. k \in 1 .. Len(q) /\ q[k] = x
    BY <1>3, <2>2
  <2> HIDE DEF k
  <2> QED BY <2>3 DEF Queued
<1>8. OneEach'
  <2> SUFFICES ASSUME NEW i \in 1 .. c, NEW j \in 1 .. c,
                      NEW m \in 1 .. Len(Chunks(q)[i]), NEW n \in 1 .. Len(Chunks(q)[j]),
                      Chunks(q)[i][m] = Chunks(q)[j][n]
               PROVE  i = j /\ m = n
    BY <1>4 DEF OneEach
  <2>1. /\ (i - 1) * M + m \in 1 .. Len(q) /\ (j - 1) * M + n \in 1 .. Len(q)
        /\ q[(i - 1) * M + m] = q[(j - 1) * M + n]
    BY <1>3
  <2>2. (i - 1) * M + m = (j - 1) * M + n
    BY <2>1 DEF Inv2, QueueOK
  <2>3. Len(Chunks(q)[i]) \in Nat /\ Len(Chunks(q)[j]) \in Nat
    BY <1>3
  <2>4. m \in 1 .. M /\ n \in 1 .. M
    BY <1>2, <1>3, <2>3
  <2>5. i \in Nat \ {0} /\ j \in Nat \ {0}
    BY <1>3
  <2> QED BY <1>2, <2>2, <2>4, <2>5, SamePosition
<1>9. QueueOK'
  <2>1. \A m, n \in 1 .. Len(tx_queue') : tx_queue'[m] = tx_queue'[n] => m = n
    BY <1>1, <1>5
  <2> QED BY <1>1, <1>6, <1>7, <1>8, <2>1 DEF Inv2, QueueOK
<1>10. \A x \in Tx : ToCome(x)' => ToCome(x)
  BY <1>1, <1>6, <1>7 DEF ToCome
<1> QED BY <1>1, <1>9, <1>10, SameCount DEF Inv2

LEMMA Inv2AddBlock ==
  ASSUME Inv, Inv2, AddBlock
  PROVE  Inv2'
<1>1. /\ process = "Up" /\ phase = "Running" /\ UNCHANGED <<process, indexed, starts, tx_queue, in_queue>>
      /\ blocks' = [blocks EXCEPT ![1] = Completed]
  BY DEF AddBlock, mempoolVars
<1>2. Len(blocks') = Len(blocks) /\ \A r \in 1 .. Len(blocks) : blocks'[r].txs = blocks[r].txs
  <2>1. IsSeq(blocks) /\ Len(blocks) \in Nat /\ DOMAIN blocks = 1 .. Len(blocks) /\ Len(blocks) > 0
    BY <1>1, IsSeqFacts DEF Inv, BlocksOK
  <2>2. 1 \in DOMAIN blocks
    BY <2>1
  <2>3. /\ Len(blocks') = Len(blocks)
        /\ \A r \in DOMAIN blocks : blocks'[r] = IF r = 1 THEN Completed ELSE blocks[r]
    BY <1>1, <2>1, <2>2, IsSeqUpdate
  <2>4. Completed.txs = blocks[1].txs
    BY BlockFacts DEF Completed
  <2> QED BY <2>1, <2>3, <2>4
<1>3. \A x : Blocked(x)' <=> Blocked(x)
  BY <1>2 DEF Blocked
<1>4. \A x : Queued(x)' <=> Queued(x)
  BY <1>1 DEF Queued
<1>5. OneEach'
  <2>1. ASSUME NEW i \in 1 .. Len(blocks), NEW j \in 1 .. Len(blocks),
               NEW m \in 1 .. Len(blocks'[i].txs), NEW n \in 1 .. Len(blocks'[j].txs),
               blocks'[i].txs[m] = blocks'[j].txs[n]
        PROVE  i = j /\ m = n
    <3>1. blocks'[i].txs = blocks[i].txs /\ blocks'[j].txs = blocks[j].txs
      BY <1>2
    <3> QED BY <2>1, <3>1 DEF Inv2, QueueOK, OneEach
  <2> QED BY <1>2, <2>1 DEF OneEach
<1>6. QueueOK'
  BY <1>1, <1>3, <1>4, <1>5 DEF Inv2, QueueOK
<1>7. \A x \in Tx : ToCome(x)' => ToCome(x)
  BY <1>1, <1>3, <1>4 DEF ToCome
<1> QED BY <1>1, <1>6, <1>7, SameCount DEF Inv2

LEMMA Inv2AddBlockPanics ==
  ASSUME Inv, Inv2, AddBlockPanics
  PROVE  Inv2'
<1>1. process = "Up" /\ UNCHANGED <<process, indexed, starts, tx_queue, in_queue>> /\ blocks' = <<>>
  BY DEF AddBlockPanics, chainVars, mempoolVars, historyVars
<1>2. \A n : n \notin 1 .. Len(<<>>)
  OBVIOUS
<1>3. (\A x : ~Blocked(x)') /\ OneEach'
  BY <1>1, <1>2 DEF Blocked, OneEach
<1>4. \A x : Queued(x)' <=> Queued(x)
  BY <1>1 DEF Queued
<1>5. QueueOK'
  BY <1>1, <1>3, <1>4 DEF Inv2, QueueOK
<1>6. \A x \in Tx : ToCome(x)' => ToCome(x)
  BY <1>1, <1>3, <1>4 DEF ToCome
<1> QED BY <1>1, <1>5, <1>6, SameCount DEF Inv2

(* The block that becomes canonical uses up the chance of each of its      *)
(* transactions.                                                           *)
LEMMA Inv2Extend ==
  ASSUME Inv, Inv2, Extend
  PROVE  Inv2'
<1>1. process = "Up" /\ phase = "Written" /\ UNCHANGED <<process, starts, tx_queue, in_queue>>
  BY DEF Extend, mempoolVars, historyVars
<1> DEFINE b == blocks[1]
           K == Len(blocks)
<1>2. /\ Mirrors(db) /\ Mirrors(db)'
      /\ Len(indexed') = Len(indexed) + 1
      /\ \A i \in 1 .. Len(indexed) : indexed'[i] = indexed[i]
      /\ indexed'[Len(indexed) + 1] = b
      /\ K \in Nat /\ K > 0 /\ Len(blocks') = K - 1
      /\ \A i \in 1 .. K - 1 : blocks'[i] = blocks[i + 1]
  BY ExtendFacts
<1>3. 1 \in 1 .. K /\ \A i \in 1 .. K - 1 : i + 1 \in 1 .. K /\ i + 1 # 1
  BY <1>2
<1>4. b.txs \in Seq(Tx) /\ Len(b.txs) <= MaxBlockTxs
  BY <1>3 DEF Inv, BlocksOK
<1>5. \A x : Blocked(x)' <=>
        \E i \in 1 .. K - 1 : \E n \in 1 .. Len(blocks[i + 1].txs) : blocks[i + 1].txs[n] = x
  <2> TAKE x
  <2>1. Blocked(x)' <=> \E i \in 1 .. K - 1 : \E n \in 1 .. Len(blocks'[i].txs) : blocks'[i].txs[n] = x
    BY <1>2 DEF Blocked
  <2>2. \A i \in 1 .. K - 1 : blocks'[i] = blocks[i + 1]
    BY <1>2
  <2> QED BY <2>1, <2>2
<1>6. ASSUME NEW x, Blocked(x)' PROVE Blocked(x)
  <2>1. PICK i \in 1 .. K - 1 : \E n \in 1 .. Len(blocks[i + 1].txs) : blocks[i + 1].txs[n] = x
    BY <1>5, <1>6
  <2>2. i + 1 \in 1 .. K
    BY <1>3
  <2> QED BY <2>1, <2>2 DEF Blocked
<1>7. \A x : Queued(x)' <=> Queued(x)
  BY <1>1 DEF Queued
<1>8. OneEach'
  <2>1. ASSUME NEW i \in 1 .. K - 1, NEW j \in 1 .. K - 1,
               NEW m \in 1 .. Len(blocks'[i].txs), NEW n \in 1 .. Len(blocks'[j].txs),
               blocks'[i].txs[m] = blocks'[j].txs[n]
        PROVE  i = j /\ m = n
    <3>1. /\ blocks'[i] = blocks[i + 1] /\ i + 1 \in 1 .. K
          /\ blocks'[j] = blocks[j + 1] /\ j + 1 \in 1 .. K
      BY <1>2, <1>3
    <3>2. i + 1 = j + 1 /\ m = n
      BY <2>1, <3>1 DEF Inv2, QueueOK, OneEach
    <3> QED BY <3>2
  <2> QED BY <1>2, <2>1 DEF OneEach
<1>9. QueueOK'
  BY <1>1, <1>6, <1>7, <1>8 DEF Inv2, QueueOK
<1>10. \A x \in Tx : ToCome(x)' => ToCome(x)
  BY <1>1, <1>6, <1>7 DEF ToCome
<1>11. CountOK'
  <2> SUFFICES ASSUME NEW t \in Tx
               PROVE  /\ Cardinality(OccOf(indexed', t)) <= starts
                      /\ ToCome(t)' => Cardinality(OccOf(indexed', t)) < starts
    BY <1>1 DEF CountOK
  <2> DEFINE old == Cardinality(OccOf(indexed, t))
             new == Cardinality(OccOf(indexed', t))
  <2>1. IsSeq(indexed) /\ IsSeq(indexed')
    BY <1>2 DEF Mirrors
  <2>2. old \in Nat /\ starts \in Nat
    BY <2>1, OccFinite DEF Inv, Types
  <2>3. old <= starts /\ (ToCome(t) => old < starts)
    BY <1>1 DEF Inv2, CountOK
  <2>4. \A m, n \in 1 .. Len(b.txs) : b.txs[m] = t /\ b.txs[n] = t => m = n
    BY <1>3 DEF Inv2, QueueOK, OneEach
  <2>5. /\ (\E n \in 1 .. Len(b.txs) : b.txs[n] = t) => new = old + 1
        /\ ~(\E n \in 1 .. Len(b.txs) : b.txs[n] = t) => OccOf(indexed', t) = OccOf(indexed, t)
    <3>1. /\ Len(indexed') = Len(indexed) + 1
          /\ \A i \in 1 .. Len(indexed) : indexed'[i] = indexed[i]
          /\ indexed'[Len(indexed) + 1] = b
      BY <1>2
    <3> HIDE DEF b
    <3> QED BY <1>4, <2>1, <2>4, <3>1, OccExtends
  <2>6. CASE ~(\E n \in 1 .. Len(b.txs) : b.txs[n] = t)
    BY <1>10, <2>3, <2>5, <2>6
  <2>7. ASSUME NEW n \in 1 .. Len(b.txs), b.txs[n] = t
        PROVE  new <= starts /\ ~ToCome(t)'
    <3>1. Blocked(t)
      BY <1>3, <2>7 DEF Blocked
    <3>2. new <= starts
      BY <2>2, <2>3, <2>5, <2>7, <3>1 DEF ToCome
    <3>3. t \in in_queue /\ ~Queued(t)
      BY <3>1 DEF Inv2, QueueOK
    <3>4. ~Blocked(t)'
      <4> SUFFICES ASSUME NEW i \in 1 .. K - 1, NEW m \in 1 .. Len(blocks[i + 1].txs),
                          blocks[i + 1].txs[m] = t
                   PROVE  FALSE
        BY <1>5
      <4>1. i + 1 = 1
        BY <1>3, <2>7 DEF Inv2, QueueOK, OneEach
      <4> QED BY <1>3, <4>1
    <3> QED BY <1>1, <1>7, <3>2, <3>3, <3>4 DEF ToCome
  <2> QED BY <2>6, <2>7
<1> QED BY <1>9, <1>11 DEF Inv2

LEMMA Inv2Start ==
  ASSUME Inv, Inv', Inv2, Start
  PROVE  Inv2'
<1>1. starts' = starts + 1 /\ process = "Down" /\ UNCHANGED <<tx_queue, in_queue, blocks>>
  BY DEF Start
<1>2. process' = "Up"
  BY DEF Start, Initialize, Load, Inv, Types
<1>3. QueueOK'
  BY <1>1, SameQueueOK DEF Inv2
<1>4. Mirrors(db)'
  BY <1>2 DEF Inv, UpOK
<1>5. ASSUME NEW t \in Tx PROVE Cardinality(OccOf(indexed', t)) < starts'
  <2>1. starts \in Nat
    BY DEF Inv, Types
  <2>2. CASE Initialize
    <3>1. indexed' = <<Genesis>> /\ Genesis.txs = <<>>
      BY <2>2, BlockFacts DEF Initialize, Genesis
    <3>2. Len(<<>>) = 0 /\ DOMAIN <<Genesis>> = {1} /\ <<Genesis>>[1] = Genesis
      OBVIOUS
    <3>3. \A n \in 1 .. MaxBlockTxs : ~(n <= 0)
      BY NodeAssumption
    <3>4. OccOf(indexed', t) = {}
      BY <3>1, <3>2, <3>3 DEF OccOf
    <3>5. Cardinality({}) = 0
      BY FS_EmptySet
    <3> QED BY <1>1, <2>1, <3>4, <3>5
  <2>3. CASE Load
    <3>1. db' = db /\ db # Empty
      BY <2>3, EmptyFacts DEF Load, IsFirstStart, Inv, DownOK
    <3>2. IsSeq(indexed') /\ DOMAIN indexed' = 1 .. Len(indexed') /\ Len(indexed') = db[IndexKey(0)]
      BY <1>4, <3>1, IsSeqFacts DEF Mirrors
    <3>3. DOMAIN Stored(db) = DOMAIN indexed' /\ \A i \in DOMAIN indexed' : Stored(db)[i] = indexed'[i]
      BY <1>4, <3>1, <3>2 DEF Stored, Mirrors
    <3>4. OccOf(Stored(db), t) = OccOf(indexed', t)
      BY <3>3, OccAgree
    <3>5. Cardinality(OccOf(Stored(db), t)) <= starts
      BY <1>1, <3>1 DEF Inv2, CountOK
    <3>6. Cardinality(OccOf(indexed', t)) \in Nat
      BY <3>2, OccFinite
    <3> QED BY <1>1, <2>1, <3>4, <3>5, <3>6
  <2> QED BY <2>2, <2>3 DEF Start
<1>6. CountOK'
  <2>1. starts' \in Nat /\ IsSeq(indexed')
    BY <1>4 DEF Inv, Types, Mirrors
  <2>2. \A t \in Tx : Cardinality(OccOf(indexed', t)) \in Nat
    BY <2>1, OccFinite
  <2>3. \A t \in Tx : Cardinality(OccOf(indexed', t)) <= starts'
    BY <1>5, <2>1, <2>2
  <2> QED BY <1>2, <1>5, <2>3 DEF CountOK
<1> QED BY <1>3, <1>6 DEF Inv2

LEMMA Inv2Crash ==
  ASSUME Inv, Inv2, Crash
  PROVE  Inv2'
<1>1. /\ process = "Up" /\ process' = "Down" /\ tx_queue' = <<>> /\ blocks' = <<>>
      /\ UNCHANGED <<db, starts>>
  BY DEF Crash, historyVars
<1>2. \A n : n \notin 1 .. Len(<<>>)
  OBVIOUS
<1>3. (\A x : ~Blocked(x)' /\ ~Queued(x)') /\ OneEach'
  BY <1>1, <1>2 DEF Blocked, Queued, OneEach
<1>4. QueueOK'
  <2>1. \A m, n \in 1 .. Len(tx_queue') : tx_queue'[m] = tx_queue'[n] => m = n
    BY <1>1, <1>2
  <2> QED BY <1>3, <2>1 DEF QueueOK
<1>5. \A t \in Tx : OccOf(Stored(db), t) = OccOf(indexed, t)
  BY <1>1, MirrorsOcc DEF Inv, UpOK
<1>6. CountOK'
  BY <1>1, <1>5 DEF Inv2, CountOK
<1> QED BY <1>4, <1>6 DEF Inv2

LEMMA NextInv2 ==
  Inv /\ Inv' /\ Inv2 /\ [Next]_vars => Inv2'
<1> SUFFICES ASSUME Inv, Inv', Inv2, [Next]_vars PROVE Inv2'
  OBVIOUS
<1>1. CASE UNCHANGED vars
  <2>1. UNCHANGED <<db, process, indexed, tx_queue, in_queue, blocks, starts>>
    BY <1>1 DEF vars, chainVars, mempoolVars, historyVars
  <2>2. QueueOK' /\ \A t : ToCome(t)' <=> ToCome(t)
    BY <2>1, SameQueueOK DEF Inv2
  <2>3. CountOK'
    BY <2>1, <2>2 DEF Inv2, CountOK
  <2> QED BY <2>2, <2>3 DEF Inv2
<1>2. ASSUME NEW t \in Tx, AddTransaction(t) PROVE Inv2'
  BY <1>2, Inv2AddTransaction
<1>3. ASSUME NEW time \in Times, GenBlocks(time) PROVE Inv2'
  BY <1>3, Inv2GenBlocks
<1>4. ASSUME \/ \E t \in Tx : GetCachedTx(t)
             \/ \E b \in DOMAIN worlds : GetBlockByHash(b)
             \/ \E verdict \in {"Succeeded", "Reverted"} : RunTx(verdict)
             \/ Tick \/ AddBlocks \/ Resume \/ BeginTransition \/ Write
      PROVE  Inv2'
  <2>1. process = "Up" /\ UNCHANGED <<process, indexed, starts, tx_queue, in_queue, blocks>>
    BY <1>4 DEF GetCachedTx, GetBlockByHash, RunTx, Tick, AddBlocks, Resume, BeginTransition, Write,
       Free, chainVars, mempoolVars, historyVars
  <2> QED BY <2>1, SameQueues
<1>5. CASE AddBlock
  BY <1>5, Inv2AddBlock
<1>6. CASE AddBlockPanics
  BY <1>6, Inv2AddBlockPanics
<1>7. CASE Extend
  BY <1>7, Inv2Extend
<1>8. CASE Start
  BY <1>8, Inv2Start
<1>9. CASE Crash
  BY <1>9, Inv2Crash
<1> QED BY <1>1, <1>2, <1>3, <1>4, <1>5, <1>6, <1>7, <1>8, <1>9 DEF Next

(* However often transactions are sent and the process ends, none is on    *)
(* the canonical chain more often than the process was started (in_queue   *)
(* of DemoMempoolInner, AddTransaction, GenBlocks).                        *)
THEOREM AtMostOncePerStart == Spec => []OncePerStart
<1>1. Inv /\ Inv2 => OncePerStart
  <2> SUFFICES ASSUME Inv, Inv2, NEW t \in Tx PROVE Cardinality(Occurrences(t)) <= starts
    BY DEF OncePerStart
  <2>1. Occurrences(t) = OccOf(indexed, t)
    BY DEF Occurrences, OccOf
  <2>2. CASE process = "Up"
    BY <2>1, <2>2 DEF Inv2, CountOK
  <2>3. CASE process = "Down"
    <3>1. indexed = <<>> /\ starts \in Nat
      BY <2>3 DEF Inv, Types, DownOK
    <3>2. OccOf(indexed, t) = {}
      <4>1. DOMAIN indexed = {}
        BY <3>1
      <4> QED BY <4>1 DEF OccOf
    <3>3. Cardinality({}) = 0
      BY FS_EmptySet
    <3>4. Cardinality(Occurrences(t)) = 0
      BY <2>1, <3>2, <3>3
    <3> QED BY <3>1, <3>4
  <2> QED BY <2>2, <2>3 DEF Inv, Types
<1>2. Init => Inv2
  BY InitInv2
<1>3. Inv /\ Inv' /\ Inv2 /\ [Next]_vars => Inv2'
  BY NextInv2
<1> QED BY <1>1, <1>2, <1>3, InvHolds, PTL DEF Spec
=============================================================================
