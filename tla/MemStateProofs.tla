--------------------------- MODULE MemStateProofs ---------------------------
(***************************************************************************)
(* Proofs about the in-memory world state, for every set of accounts,      *)
(* fields, values and objects and with no bound on revisions: the chains   *)
(* of revisions are well-founded, a revision that is written in place is   *)
(* nobody else's, a shared revision never changes, and an object reads as  *)
(* a full copy of the state would.                                         *)
(***************************************************************************)
EXTENDS CrossValidate, AnySeqProofs, FiniteSetTheorems, TLAPS

Inv == Forest /\ OwnedRevision

(* The least element of a set of naturals, as CHOSEN by FiniteSetsExt!Min. *)
LEMMA MinInSet ==
  ASSUME NEW S \in SUBSET Nat, S # {}
  PROVE  Min(S) \in S /\ \A x \in S : Min(S) <= x
<1> DEFINE R == OpToRel(<, Nat)
<1>1. IsWellFoundedOn(R, Nat)
  BY NatLessThanWellFounded
<1>2. \A x, y \in Nat : y < x => <<y, x>> \in R
  BY DEF OpToRel
<1> HIDE DEF R
<1>3. PICK m \in S : \A y \in S : ~ (<<y, m>> \in R)
  BY <1>1, WFMin
<1>4. ASSUME NEW y \in S PROVE m <= y
  <2>1. y \in Nat /\ m \in Nat
    OBVIOUS
  <2>2. ~ (y < m)
    BY <1>2, <1>3, <2>1
  <2> QED BY <2>1, <2>2
<1> QED BY <1>4 DEF Min

(* A heap of revisions that grows from the external source. *)
Tree(H) == IsSeq(H) /\ \A r \in DOMAIN H : H[r].parent \in 0 .. r - 1

LEMMA ForestTree ==
  ASSUME Forest PROVE Tree(heap)
BY DEF Forest, Tree

(* A look-up from r visits no revision younger than r, and r itself. *)
LEMMA AncestryBounds ==
  ASSUME NEW H, Tree(H), NEW r \in DOMAIN H
  PROVE  Ancestry(H, r) \subseteq 1 .. r /\ r \in Ancestry(H, r)
<1>1. DOMAIN H = 1 .. Len(H) /\ Len(H) \in Nat
  BY IsSeqFacts DEF Tree
<1>2. 1 .. r \in SUBSET DOMAIN H /\ r \in 1 .. r
  BY <1>1
<1>3. ASSUME NEW i \in 1 .. r PROVE H[i].parent \in 1 .. r \cup {0}
  <2>1. i \in DOMAIN H
    BY <1>1
  <2>2. H[i].parent \in 0 .. i - 1
    BY <2>1 DEF Tree
  <2> QED BY <1>1, <2>2
<1>4. ClosedUp(H, 1 .. r)
  BY <1>3 DEF ClosedUp
<1> QED BY <1>2, <1>4 DEF Ancestry

(* What FrozenForever says of one step. *)
FrozenStep ==
  \A r \in DOMAIN heap : Frozen(r) => r \in DOMAIN heap' /\ heap'[r] = heap[r]

(* The heap a write works on: h's own revision is there, and its parent    *)
(* belongs to nobody.                                                      *)
LEMMA MutHeapFacts ==
  ASSUME Inv, NEW h \in Handle, Held(h)
  PROVE  /\ IsSeq(MutHeap(h))
         /\ MutRev(h) \in DOMAIN MutHeap(h)
         /\ DOMAIN MutHeap(h) = 1 .. Len(MutHeap(h))
         /\ Len(MutHeap(h)) \in {Len(heap), Len(heap) + 1}
         /\ \A r \in DOMAIN MutHeap(h) :
              /\ "parent" \in DOMAIN MutHeap(h)[r]
              /\ MutHeap(h)[r].parent \in 0 .. r - 1
              /\ MutHeap(h)[r].parent # MutRev(h)
              /\ \A g \in Handle \ {h} : Held(g) /\ handle[g].mutable
                   => MutHeap(h)[r].parent # handle[g].rev
         /\ \A r \in DOMAIN heap : r \in DOMAIN MutHeap(h) /\ MutHeap(h)[r] = heap[r]
         /\ \A g \in Handle \ {h} : Held(g) => handle[g].rev # MutRev(h)
         /\ ~handle[h].mutable => MutRev(h) \notin DOMAIN heap
<1> DEFINE H == MutHeap(h)
           p == handle[h].rev
           n == Len(heap)
<1>0. /\ IsSeq(heap)
      /\ n \in Nat
      /\ DOMAIN heap = 1 .. n
      /\ p \in 1 .. n
      /\ handle[h].mutable \in BOOLEAN
      /\ \A g \in Handle : Held(g) => handle[g].rev \in 1 .. n
      /\ \A r \in 1 .. n : "parent" \in DOMAIN heap[r] /\ heap[r].parent \in 0 .. r - 1
  <2>1. n \in Nat /\ DOMAIN heap = 1 .. n
    BY IsSeqFacts DEF Inv, Forest
  <2>2. handle[h].mutable \in BOOLEAN
    BY DEF Inv, Forest, Held
  <2> QED BY <2>1, <2>2 DEF Inv, Forest
<1>1. \A r \in 1 .. n : \A g \in Handle :
         Held(g) /\ handle[g].mutable => heap[r].parent # handle[g].rev
  BY <1>0 DEF Inv, OwnedRevision
<1>2. CASE handle[h].mutable
  <2>1. H = heap /\ MutRev(h) = p
    BY <1>2 DEF MutHeap, MutRev
  <2>2. \A g \in Handle \ {h} : Held(g) => handle[g].rev # p
    BY <1>2 DEF Inv, OwnedRevision
  <2> QED BY <1>0, <1>1, <1>2, <2>1, <2>2
<1>3. CASE ~handle[h].mutable
  <2> DEFINE new == EmptyRev(p)
  <2>1. H = Append(heap, new) /\ MutRev(h) = n + 1
    BY <1>3 DEF MutHeap, MutRev
  <2>2. "parent" \in DOMAIN new /\ new.parent = p
    BY DEF EmptyRev
  <2> HIDE DEF new, H
  <2>3. /\ IsSeq(H)
        /\ DOMAIN H = 1 .. n + 1 /\ Len(H) = n + 1
        /\ \A r \in 1 .. n : H[r] = heap[r]
        /\ H[n + 1] = new
    BY <1>0, <2>1, IsSeqAppend
  <2>4. \A g \in Handle \ {h} : Held(g) /\ handle[g].mutable => p # handle[g].rev
    BY DEF Inv, OwnedRevision
  <2> HIDE DEF n, p
  <2>5. ASSUME NEW r \in 1 .. n + 1
        PROVE  /\ "parent" \in DOMAIN H[r]
               /\ H[r].parent \in 0 .. r - 1
               /\ H[r].parent # n + 1
               /\ \A g \in Handle \ {h} : Held(g) /\ handle[g].mutable
                    => H[r].parent # handle[g].rev
    <3>1. CASE r \in 1 .. n
      BY <1>0, <1>1, <2>3, <3>1
    <3>2. CASE r = n + 1
      BY <1>0, <2>2, <2>3, <2>4, <3>2
    <3> QED BY <1>0, <3>1, <3>2
  <2>6. \A g \in Handle \ {h} : Held(g) => handle[g].rev # n + 1
    BY <1>0
  <2>7. n + 1 \in 1 .. n + 1 /\ n + 1 \notin 1 .. n /\ 1 .. n \subseteq 1 .. n + 1
    BY <1>0
  <2> QED BY <1>0, <2>1, <2>3, <2>5, <2>6, <2>7 DEF H, n
<1> QED BY <1>0, <1>2, <1>3

(* A write through h that keeps the parent of the revision it writes to.   *)
LEMMA WriteInv ==
  ASSUME Inv, NEW h \in Handle, Held(h), NEW new,
         "parent" \in DOMAIN new,
         new.parent = MutHeap(h)[MutRev(h)].parent,
         Write(h, new)
  PROVE  Inv' /\ FrozenStep
<1> DEFINE H == MutHeap(h)
           m == MutRev(h)
           K == [H EXCEPT ![m] = new]
<1>1. /\ IsSeq(H)
      /\ m \in DOMAIN H
      /\ DOMAIN H = 1 .. Len(H)
      /\ \A r \in DOMAIN H :
           /\ "parent" \in DOMAIN H[r]
           /\ H[r].parent \in 0 .. r - 1
           /\ H[r].parent # m
           /\ \A g \in Handle \ {h} : Held(g) /\ handle[g].mutable
                => H[r].parent # handle[g].rev
      /\ \A r \in DOMAIN heap : r \in DOMAIN H /\ H[r] = heap[r]
      /\ \A g \in Handle \ {h} : Held(g) => handle[g].rev # m
      /\ ~handle[h].mutable => m \notin DOMAIN heap
  BY MutHeapFacts
<1>2. heap' = K /\ handle' = [handle EXCEPT ![h] = [rev |-> m, mutable |-> TRUE]]
  BY DEF Write
<1>3. handle[h].mutable => m = handle[h].rev
  BY DEF MutRev
<1>4. new.parent = H[m].parent
  OBVIOUS
<1> HIDE DEF H, m, K
<1>5. /\ IsSeq(K)
      /\ DOMAIN K = DOMAIN H
      /\ \A r \in DOMAIN H : K[r] = IF r = m THEN new ELSE H[r]
  BY <1>1, IsSeqUpdate DEF K
<1>6. ASSUME NEW r \in DOMAIN K
      PROVE  "parent" \in DOMAIN K[r] /\ K[r].parent = H[r].parent
  BY <1>1, <1>4, <1>5
<1>7. /\ handle \in [Handle -> [rev : Nat, mutable : BOOLEAN] \cup {Dropped}]
      /\ m \in Nat
  BY <1>1, IsSeqFacts DEF Inv, Forest
<1>8. /\ handle' \in [Handle -> [rev : Nat, mutable : BOOLEAN] \cup {Dropped}]
      /\ handle'[h].rev = m /\ handle'[h].mutable
      /\ \A g \in Handle \ {h} : handle'[g] = handle[g]
  BY <1>2, <1>7
<1>9. \A g \in Handle \ {h} : Held(g)' => Held(g)
  BY <1>8 DEF Held
<1>10. Forest'
  <2>1. \A r \in DOMAIN K : "parent" \in DOMAIN K[r] /\ K[r].parent \in 0 .. r - 1
    BY <1>1, <1>5, <1>6
  <2>2. ASSUME NEW g \in Handle, Held(g)' PROVE handle'[g].rev \in DOMAIN K
    <3>1. CASE g = h
      BY <1>1, <1>5, <1>8, <3>1
    <3>2. CASE g # h
      <4>1. handle[g].rev \in DOMAIN heap
        BY <1>9, <2>2, <3>2 DEF Inv, Forest
      <4> QED BY <1>1, <1>5, <1>8, <3>2, <4>1
    <3> QED BY <3>1, <3>2
  <2> QED BY <1>2, <1>5, <1>8, <2>1, <2>2 DEF Forest
<1>11. OwnedRevision'
  <2> SUFFICES ASSUME NEW x \in Handle, Held(x)', handle'[x].mutable
               PROVE  /\ \A g \in Handle \ {x} : Held(g)' => handle'[g].rev # handle'[x].rev
                      /\ \A r \in DOMAIN K : K[r].parent # handle'[x].rev
    BY <1>2 DEF OwnedRevision
  <2>1. CASE x = h
    BY <1>1, <1>5, <1>6, <1>8, <1>9, <2>1
  <2>2. CASE x # h
    <3>1. Held(x) /\ handle[x].mutable /\ handle'[x] = handle[x]
      BY <1>8, <1>9, <2>2
    <3>2. \A g \in Handle \ {x} : Held(g) => handle[g].rev # handle[x].rev
      BY <3>1 DEF Inv, OwnedRevision
    <3>3. handle[x].rev # m
      BY <1>1, <2>2, <3>1
    <3> QED BY <1>1, <1>5, <1>6, <1>8, <1>9, <2>2, <3>1, <3>2, <3>3
  <2> QED BY <2>1, <2>2
<1>12. FrozenStep
  <2> SUFFICES ASSUME NEW r \in DOMAIN heap, Frozen(r)
               PROVE  r \in DOMAIN K /\ K[r] = heap[r]
    BY <1>2 DEF FrozenStep
  <2>1. r # m
    BY <1>1, <1>3 DEF Frozen
  <2> QED BY <1>1, <1>5, <2>1
<1> QED BY <1>10, <1>11, <1>12 DEF Inv

LEMMA SetFieldInv ==
  ASSUME Inv, NEW h \in Handle, NEW a, NEW f, NEW v, SetField(h, a, f, v)
  PROVE  Inv' /\ FrozenStep
<1> DEFINE rev == MutHeap(h)[MutRev(h)]
           new == [rev EXCEPT !.entries = @ \cup {a}, !.fields[a][f] = v]
<1>1. Held(h) /\ Write(h, new)
  BY DEF SetField
<1>2. "parent" \in DOMAIN rev
  BY <1>1, MutHeapFacts
<1>3. "parent" \in DOMAIN new /\ new.parent = rev.parent
  BY <1>2
<1> QED BY <1>1, <1>3, WriteInv

LEMMA CreateAccountInv ==
  ASSUME Inv, NEW h \in Handle, NEW a, CreateAccount(h, a)
  PROVE  Inv' /\ FrozenStep
<1> DEFINE rev == MutHeap(h)[MutRev(h)]
<1>1. PICK fs : Write(h, [rev EXCEPT !.entries   = @ \cup {a},
                                     !.fields[a] = fs,
                                     !.deleted   = @ \ {a}])
  BY DEF CreateAccount
<1> DEFINE new == [rev EXCEPT !.entries = @ \cup {a}, !.fields[a] = fs, !.deleted = @ \ {a}]
<1>2. Held(h) /\ "parent" \in DOMAIN rev
  BY MutHeapFacts DEF CreateAccount
<1>3. "parent" \in DOMAIN new /\ new.parent = rev.parent
  BY <1>2
<1> QED BY <1>1, <1>2, <1>3, WriteInv

LEMMA DeleteAccountInv ==
  ASSUME Inv, NEW h \in Handle, NEW a, DeleteAccount(h, a)
  PROVE  Inv' /\ FrozenStep
<1> DEFINE rev == MutHeap(h)[MutRev(h)]
           new == [rev EXCEPT !.entries   = @ \ {a},
                              !.fields[a] = NoFields,
                              !.deleted   = @ \cup {a}]
<1>1. Held(h) /\ Write(h, new)
  BY DEF DeleteAccount
<1>2. "parent" \in DOMAIN rev
  BY <1>1, MutHeapFacts
<1>3. "parent" \in DOMAIN new /\ new.parent = rev.parent
  BY <1>2
<1> QED BY <1>1, <1>3, WriteInv

LEMMA AddLogInv ==
  ASSUME Inv, NEW h \in Handle, NEW a, AddLog(h, a)
  PROVE  Inv' /\ FrozenStep
<1> DEFINE rev == MutHeap(h)[MutRev(h)]
           new == [rev EXCEPT !.logs = Append(@, a)]
<1>1. Held(h) /\ Write(h, new)
  BY DEF AddLog
<1>2. "parent" \in DOMAIN rev
  BY <1>1, MutHeapFacts
<1>3. "parent" \in DOMAIN new /\ new.parent = rev.parent
  BY <1>2
<1> QED BY <1>1, <1>3, WriteInv

LEMMA AddLogPanicsInv ==
  ASSUME Inv, NEW h \in Handle, AddLogPanics(h)
  PROVE  Inv' /\ FrozenStep
<1> DEFINE rev == MutHeap(h)[MutRev(h)]
<1>1. Held(h) /\ Write(h, rev)
  BY DEF AddLogPanics
<1>2. "parent" \in DOMAIN rev
  BY <1>1, MutHeapFacts
<1> QED BY <1>1, <1>2, WriteInv

(* h's newest revision is frozen and g gets r, which is no other object's  *)
(* own; the heap may have grown by revisions that rest on nobody's own.    *)
LEMMA ShareInv ==
  ASSUME Inv, NEW h \in Handle, NEW g \in Handle, NEW r,
         Held(h), ~Held(g), Share(h, g, r),
         IsSeq(heap'), r \in DOMAIN heap',
         \A i \in DOMAIN heap : i \in DOMAIN heap' /\ heap'[i] = heap[i],
         \A i \in DOMAIN heap' :
           "parent" \in DOMAIN heap'[i] /\ heap'[i].parent \in 0 .. i - 1,
         \A x \in Handle \ {h} : Held(x) /\ handle[x].mutable =>
           /\ r # handle[x].rev
           /\ \A i \in DOMAIN heap' : heap'[i].parent # handle[x].rev
  PROVE  Inv' /\ FrozenStep
<1>1. handle \in [Handle -> [rev : Nat, mutable : BOOLEAN] \cup {Dropped}] /\ h # g
  BY DEF Inv, Forest
<1>2. handle' = [handle EXCEPT ![h].mutable = FALSE,
                               ![g] = [rev |-> r, mutable |-> FALSE]]
  BY DEF Share
<1>3. handle[h] \in [rev : Nat, mutable : BOOLEAN] /\ r \in Nat
  BY <1>1, IsSeqFacts DEF Held
<1>4. /\ handle'[h].rev = handle[h].rev /\ handle'[h].mutable = FALSE
      /\ handle'[h] \in [rev : Nat, mutable : BOOLEAN]
      /\ handle'[g] = [rev |-> r, mutable |-> FALSE]
      /\ \A x \in Handle \ {h, g} : handle'[x] = handle[x]
      /\ DOMAIN handle' = Handle
      /\ handle' = [x \in Handle |-> handle'[x]]
  BY <1>1, <1>2, <1>3
<1>5. handle' \in [Handle -> [rev : Nat, mutable : BOOLEAN] \cup {Dropped}]
  <2>1. ASSUME NEW x \in Handle
        PROVE  handle'[x] \in [rev : Nat, mutable : BOOLEAN] \cup {Dropped}
    <3>1. CASE x = g
      <4>1. r \in Nat
        BY <1>3
      <4>2. [rev |-> r, mutable |-> FALSE] \in [rev : Nat, mutable : BOOLEAN]
        BY <4>1
      <4> QED BY <1>4, <3>1, <4>2
    <3>2. CASE x = h
      BY <1>4, <3>2
    <3>3. CASE x \notin {h, g}
      BY <1>1, <1>4, <3>3
    <3> QED BY <3>1, <3>2, <3>3
  <2> QED BY <1>4, <2>1
<1>6. ASSUME NEW x \in Handle, Held(x)'
      PROVE  handle'[x].rev = IF x = g THEN r ELSE handle[x].rev
  BY <1>4
<1>7. ASSUME NEW x \in Handle, Held(x)', handle'[x].mutable
      PROVE  x \notin {h, g} /\ Held(x) /\ handle'[x] = handle[x]
  BY <1>4, <1>7 DEF Held
<1>8. ASSUME NEW x \in Handle, Held(x)', x # g
      PROVE  Held(x)
  BY <1>4, <1>8 DEF Held
<1>9. Forest'
  <2>1. ASSUME NEW x \in Handle, Held(x)' PROVE handle'[x].rev \in DOMAIN heap'
    BY <1>6, <1>8, <2>1 DEF Inv, Forest
  <2> QED BY <1>5, <2>1 DEF Forest
<1>10. OwnedRevision'
  <2> SUFFICES ASSUME NEW x \in Handle, Held(x)', handle'[x].mutable
               PROVE  /\ \A y \in Handle \ {x} : Held(y)' => handle'[y].rev # handle'[x].rev
                      /\ \A i \in DOMAIN heap' : heap'[i].parent # handle'[x].rev
    BY DEF OwnedRevision
  <2>1. x \in Handle \ {h} /\ x # g /\ Held(x) /\ handle'[x] = handle[x] /\ handle[x].mutable
    BY <1>7
  <2>2. ASSUME NEW y \in Handle \ {x}, Held(y)' PROVE handle'[y].rev # handle'[x].rev
    <3>1. CASE y = g
      BY <1>4, <2>1, <3>1
    <3>2. CASE y # g
      <4>1. Held(y) /\ handle'[y].rev = handle[y].rev
        BY <1>6, <1>8, <2>2, <3>2
      <4>2. handle[y].rev # handle[x].rev
        BY <2>1, <4>1 DEF Inv, OwnedRevision
      <4> QED BY <2>1, <4>1, <4>2
    <3> QED BY <3>1, <3>2
  <2> QED BY <2>1, <2>2
<1> QED BY <1>9, <1>10 DEF Inv, FrozenStep

LEMMA SnapshotInv ==
  ASSUME Inv, NEW h \in Handle, NEW g \in Handle, Snapshot(h, g)
  PROVE  Inv' /\ FrozenStep
<1>1. Held(h) /\ ~Held(g) /\ Share(h, g, handle[h].rev) /\ heap' = heap
  BY DEF Snapshot
<1>2. /\ IsSeq(heap) /\ handle[h].rev \in DOMAIN heap
      /\ \A i \in DOMAIN heap : "parent" \in DOMAIN heap[i] /\ heap[i].parent \in 0 .. i - 1
  BY <1>1 DEF Inv, Forest
<1>3. \A x \in Handle \ {h} : Held(x) /\ handle[x].mutable =>
        /\ handle[h].rev # handle[x].rev
        /\ \A i \in DOMAIN heap : heap[i].parent # handle[x].rev
  BY <1>1 DEF Inv, OwnedRevision
<1> QED BY <1>1, <1>2, <1>3, ShareInv

(* The revision that consolidation makes rests where the segment it merges *)
(* did.                                                                    *)
LEMMA ConsolidatedParent ==
  ASSUME Inv, NEW r \in DOMAIN heap, NEW steps \in Nat
  PROVE  /\ "parent" \in DOMAIN Consolidated(r, steps)
         /\ \E i \in 1 .. r : Consolidated(r, steps).parent = heap[i].parent
<1> DEFINE c   == Ancestry(heap, r)
           seg == Segment(r, steps)
           d   == Merge(seg)
<1>1. c \subseteq 1 .. r /\ r \in c
  BY AncestryBounds, ForestTree DEF Inv
<1>2. r \in Nat
  BY IsSeqFacts DEF Inv, Forest
<1>3. {j \in c : j > r} = {}
  BY <1>1, <1>2
<1>4. Cardinality({j \in c : j > r}) <= steps
  BY <1>3, FS_EmptySet
<1>5. r \in seg /\ seg \subseteq c
  BY <1>1, <1>4 DEF Segment
<1> HIDE DEF seg
<1>6. Min(seg) \in seg
  BY <1>1, <1>5, MinInSet
<1> HIDE DEF d
<1>7. Consolidated(r, steps) = Onto(heap[Min(seg)].parent, d)
  BY DEF Consolidated, seg, d
<1>8. /\ "parent" \in DOMAIN Onto(heap[Min(seg)].parent, d)
      /\ Onto(heap[Min(seg)].parent, d).parent = heap[Min(seg)].parent
  BY DEF Onto
<1> QED BY <1>1, <1>5, <1>6, <1>7, <1>8

LEMMA ConsolidateInv ==
  ASSUME Inv, NEW h \in Handle, NEW g \in Handle, NEW steps \in Nat,
         Consolidate(h, g, steps)
  PROVE  Inv' /\ FrozenStep
<1> DEFINE p   == handle[h].rev
           n   == Len(heap)
           new == Consolidated(p, steps)
<1>1. Held(h) /\ ~Held(g)
  BY DEF Consolidate
<1>2. /\ IsSeq(heap) /\ n \in Nat /\ DOMAIN heap = 1 .. n /\ p \in 1 .. n
      /\ \A i \in 1 .. n : "parent" \in DOMAIN heap[i] /\ heap[i].parent \in 0 .. i - 1
  BY <1>1, IsSeqFacts DEF Inv, Forest
<1>3. \A x \in Handle \ {h} : Held(x) /\ handle[x].mutable =>
        /\ p # handle[x].rev
        /\ \A i \in 1 .. n : heap[i].parent # handle[x].rev
  BY <1>1, <1>2 DEF Inv, OwnedRevision
<1>4. CASE heap[p].parent = 0
  <2>1. heap' = heap /\ Share(h, g, p)
    BY <1>4 DEF Consolidate
  <2> QED BY <1>1, <1>2, <1>3, <2>1, ShareInv
<1>5. CASE heap[p].parent # 0
  <2>1. heap' = Append(heap, new) /\ Share(h, g, n + 1)
    BY <1>5 DEF Consolidate
  <2>2. "parent" \in DOMAIN new /\ \E i \in 1 .. p : new.parent = heap[i].parent
    BY <1>2, ConsolidatedParent
  <2> HIDE DEF new
  <2>3. /\ IsSeq(heap')
        /\ DOMAIN heap' = 1 .. n + 1
        /\ \A i \in 1 .. n : heap'[i] = heap[i]
        /\ heap'[n + 1] = new
    BY <1>2, <2>1, IsSeqAppend
  <2>4. /\ \A x \in Handle \ {h} : Held(x) /\ handle[x].mutable =>
             new.parent # handle[x].rev /\ n + 1 # handle[x].rev
        /\ new.parent \in 0 .. n
    BY <1>2, <1>3, <2>2 DEF Inv, Forest
  <2> HIDE DEF n, p
  <2>5. ASSUME NEW i \in 1 .. n + 1
        PROVE  /\ "parent" \in DOMAIN heap'[i] /\ heap'[i].parent \in 0 .. i - 1
               /\ \A x \in Handle \ {h} : Held(x) /\ handle[x].mutable =>
                    heap'[i].parent # handle[x].rev
    <3>1. CASE i \in 1 .. n
      BY <1>2, <1>3, <2>3, <3>1
    <3>2. CASE i = n + 1
      BY <1>2, <2>2, <2>3, <2>4, <3>2
    <3> QED BY <1>2, <3>1, <3>2
  <2>6. /\ n + 1 \in DOMAIN heap'
        /\ \A i \in DOMAIN heap : i \in DOMAIN heap' /\ heap'[i] = heap[i]
    BY <1>2, <2>3
  <2> QED BY <1>1, <2>1, <2>3, <2>4, <2>5, <2>6, ShareInv
<1> QED BY <1>4, <1>5

LEMMA RollbackInv ==
  ASSUME Inv, NEW h \in Handle, NEW g \in Handle, Rollback(h, g)
  PROVE  Inv' /\ FrozenStep
<1>1. /\ Held(g) /\ g # h /\ heap' = heap
      /\ handle' = [handle EXCEPT ![h] = handle[g], ![g] = Dropped]
      /\ handle \in [Handle -> [rev : Nat, mutable : BOOLEAN] \cup {Dropped}]
  BY DEF Rollback, Inv, Forest
<1>2. /\ handle'[h] = handle[g] /\ handle'[g] = Dropped
      /\ \A x \in Handle \ {h, g} : handle'[x] = handle[x]
      /\ handle' \in [Handle -> [rev : Nat, mutable : BOOLEAN] \cup {Dropped}]
  BY <1>1
<1>3. Forest'
  BY <1>1, <1>2 DEF Inv, Forest, Held
<1>4. OwnedRevision'
  <2> SUFFICES ASSUME NEW x \in Handle, Held(x)', handle'[x].mutable
               PROVE  /\ \A y \in Handle \ {x} : Held(y)' => handle'[y].rev # handle'[x].rev
                      /\ \A i \in DOMAIN heap : heap[i].parent # handle'[x].rev
    BY <1>1 DEF OwnedRevision
  <2> DEFINE was(z) == IF z = h THEN g ELSE z
  <2>1. \A z \in Handle : Held(z)' =>
          z # g /\ was(z) \in Handle /\ Held(was(z)) /\ handle'[z] = handle[was(z)]
    BY <1>1, <1>2 DEF Held
  <2>2. \A y \in Handle \ {x} : Held(y)' => was(y) # was(x)
    BY <2>1
  <2> HIDE DEF was
  <2> QED BY <2>1, <2>2 DEF Inv, OwnedRevision
<1> QED BY <1>1, <1>3, <1>4 DEF Inv, FrozenStep

LEMMA DropInv ==
  ASSUME Inv, NEW g \in Handle, Drop(g)
  PROVE  Inv' /\ FrozenStep
<1>1. /\ heap' = heap
      /\ handle' = [handle EXCEPT ![g] = Dropped]
      /\ handle \in [Handle -> [rev : Nat, mutable : BOOLEAN] \cup {Dropped}]
  BY DEF Drop, Inv, Forest
<1>2. /\ handle'[g] = Dropped
      /\ \A x \in Handle \ {g} : handle'[x] = handle[x]
      /\ handle' \in [Handle -> [rev : Nat, mutable : BOOLEAN] \cup {Dropped}]
  BY <1>1
<1>3. Forest'
  BY <1>1, <1>2 DEF Inv, Forest, Held
<1>4. OwnedRevision'
  BY <1>1, <1>2 DEF Inv, OwnedRevision, Held
<1> QED BY <1>1, <1>3, <1>4 DEF Inv, FrozenStep

LEMMA InitInv ==
  ASSUME Init PROVE Inv
<1> DEFINE e == EmptyRev(0)
<1>1. "parent" \in DOMAIN e /\ e.parent = 0
  BY DEF EmptyRev
<1>2. heap = <<e>>
  BY DEF Init
<1> HIDE DEF e
<1>3. heap \in Seq({e}) /\ DOMAIN heap = {1} /\ heap[1] = e /\ Len(heap) = 1
  BY <1>2
<1>4. {heap[r] : r \in DOMAIN heap} = {e}
  BY <1>3
<1>5. IsSeq(heap)
  BY <1>3, <1>4 DEF IsSeq
<1>6. /\ handle \in [Handle -> [rev : Nat, mutable : BOOLEAN] \cup {Dropped}]
      /\ \A h \in Handle : Held(h) => handle[h].rev = 1 /\ ~handle[h].mutable
  BY DEF Init, Held
<1>7. Forest
  BY <1>1, <1>3, <1>5, <1>6 DEF Forest
<1>8. OwnedRevision
  BY <1>6 DEF OwnedRevision
<1> QED BY <1>7, <1>8 DEF Inv

LEMMA NextInv ==
  ASSUME Inv, [Next]_vars
  PROVE  Inv' /\ FrozenStep
<1>1. CASE UNCHANGED vars
  <2>1. heap' = heap /\ handle' = handle
    BY <1>1 DEF vars
  <2> QED BY <2>1 DEF Inv, Forest, OwnedRevision, Held, IsSeq, FrozenStep
<1>2. CASE Next
  <2>1. PICK h \in Handle :
          \/ \E a \in Addr : \/ \E f \in Field, v \in Val : SetField(h, a, f, v)
                             \/ CreateAccount(h, a)
                             \/ DeleteAccount(h, a)
                             \/ AddLog(h, a)
          \/ AddLogPanics(h)
          \/ \E g \in Handle : \/ Snapshot(h, g)
                               \/ Rollback(h, g)
                               \/ \E steps \in 0 .. MaxRev : Consolidate(h, g, steps)
          \/ Drop(h)
    BY <1>2 DEF Next
  <2>2. 0 .. MaxRev \subseteq Nat
    BY MemAssumption
  <2> QED BY <2>1, <2>2, SetFieldInv, CreateAccountInv, DeleteAccountInv, AddLogInv,
             AddLogPanicsInv, SnapshotInv, RollbackInv, ConsolidateInv, DropInv
<1> QED BY <1>1, <1>2

-----------------------------------------------------------------------------
(* What is read through an object.                                         *)

(* The largest element of a bounded set of naturals, as CHOSEN by          *)
(* FiniteSetsExt!Max.                                                      *)
LEMMA MaxInSet ==
  ASSUME NEW r \in Nat, NEW S \in SUBSET (1 .. r), S # {}
  PROVE  Max(S) \in S /\ \A x \in S : Max(S) >= x
<1> DEFINE D == {r - i : i \in S}
<1>1. D \in SUBSET Nat /\ D # {}
  <2>1. \A i \in S : r - i \in Nat
    OBVIOUS
  <2> QED BY <2>1
<1> DEFINE R == OpToRel(<, Nat)
<1>2. IsWellFoundedOn(R, Nat)
  BY NatLessThanWellFounded
<1>3. \A x, y \in Nat : y < x => <<y, x>> \in R
  BY DEF OpToRel
<1> HIDE DEF R, D
<1>4. PICK d \in D : \A y \in D : ~ (<<y, d>> \in R)
  BY <1>1, <1>2, WFMin
<1>5. PICK m \in S : d = r - m
  BY DEF D
<1>6. ASSUME NEW y \in S PROVE m >= y
  <2>1. r - y \in D
    BY DEF D
  <2>2. ~ (r - y < d)
    BY <1>1, <1>3, <1>4, <2>1
  <2>3. y \in 1 .. r /\ m \in 1 .. r
    OBVIOUS
  <2> QED BY <1>5, <2>2, <2>3
<1> QED BY <1>6 DEF Max

(* The revisions a look-up visits are closed under parents, and no smaller *)
(* set that holds the first one is.                                        *)
LEMMA AncestryLeast ==
  ASSUME NEW H, Tree(H), NEW r \in DOMAIN H
  PROVE  /\ Ancestry(H, r) \subseteq DOMAIN H
         /\ ClosedUp(H, Ancestry(H, r))
         /\ \A S \in SUBSET DOMAIN H :
              r \in S /\ ClosedUp(H, S) => Ancestry(H, r) \subseteq S
<1> DEFINE A == Ancestry(H, r)
<1>1. DOMAIN H = 1 .. Len(H) /\ Len(H) \in Nat
  BY IsSeqFacts DEF Tree
<1>2. ASSUME NEW i \in A PROVE H[i].parent \in A \cup {0}
  <2>1. i \in DOMAIN H
    BY DEF Ancestry
  <2>2. H[i].parent \in 0 .. i - 1
    BY <2>1 DEF Tree
  <2>3. H[i].parent \in DOMAIN H \cup {0}
    BY <1>1, <2>1, <2>2
  <2>4. ASSUME NEW S \in SUBSET DOMAIN H, r \in S, ClosedUp(H, S)
        PROVE  H[i].parent \in S \cup {0}
    BY <2>4 DEF Ancestry, ClosedUp
  <2>5. CASE H[i].parent # 0
    BY <2>3, <2>4, <2>5 DEF Ancestry
  <2> QED BY <2>5
<1>3. ClosedUp(H, A)
  BY <1>2 DEF ClosedUp
<1> QED BY <1>3 DEF Ancestry

(* A look-up visits the same revisions in a heap that agrees on them.      *)
LEMMA AncestryAgrees ==
  ASSUME NEW H, Tree(H), NEW r \in DOMAIN H, NEW K,
         \A i \in Ancestry(H, r) : i \in DOMAIN K /\ K[i].parent = H[i].parent
  PROVE  Ancestry(K, r) = Ancestry(H, r)
<1> DEFINE A == Ancestry(H, r)
<1>1. /\ A \subseteq DOMAIN H
      /\ ClosedUp(H, A)
      /\ \A S \in SUBSET DOMAIN H : r \in S /\ ClosedUp(H, S) => A \subseteq S
  BY AncestryLeast
<1>2. r \in A
  BY AncestryBounds
<1> HIDE DEF A
<1>3. A \in SUBSET DOMAIN K /\ \A i \in A : K[i].parent = H[i].parent
  BY DEF A
<1>4. ClosedUp(K, A)
  BY <1>1, <1>3 DEF ClosedUp
<1>5. Ancestry(K, r) \subseteq A
  BY <1>2, <1>3, <1>4 DEF Ancestry
<1>6. ASSUME NEW S \in SUBSET DOMAIN K, r \in S, ClosedUp(K, S)
      PROVE  A \subseteq S
  <2>1. ClosedUp(H, S \cap A)
    BY <1>1, <1>3, <1>6 DEF ClosedUp
  <2>2. S \cap A \in SUBSET DOMAIN H /\ r \in S \cap A
    BY <1>1, <1>2, <1>6
  <2> QED BY <1>1, <2>1, <2>2
<1>7. A \subseteq Ancestry(K, r)
  BY <1>3, <1>6 DEF Ancestry
<1> QED BY <1>5, <1>7 DEF A

(* Two heaps that agree on the revisions c of a look-up from r. *)
Agree(H, K, c, r) ==
  /\ r \in Nat /\ c \subseteq 1 .. r /\ r \in c
  /\ \A i \in c : K[i] = H[i]

LEMMA GetAgrees ==
  ASSUME NEW H, NEW K, NEW c, NEW r, Agree(H, K, c, r), NEW a, NEW f
  PROVE  Get(K, c, a, f) = Get(H, c, a, f)
<1> DEFINE S == {i \in c : H[i].fields[a][f] # NoChange}
           T == {i \in c : K[i].fields[a][f] # NoChange}
           e == IF a \in Origin THEN OriginVal[f] ELSE Zero
<1>1. S = T /\ S \in SUBSET (1 .. r)
  BY DEF Agree
<1>2. S # {} => Max(S) \in c
  BY <1>1, MaxInSet DEF Agree
<1>3. S # {} => K[Max(S)] = H[Max(S)]
  BY <1>2 DEF Agree
<1>4. K[Max(c)] = H[Max(c)]
  BY MaxInSet DEF Agree
<1> HIDE DEF e
<1>5. /\ Get(H, c, a, f) = IF a \in H[Max(c)].deleted THEN Zero
                           ELSE IF S = {} THEN e ELSE H[Max(S)].fields[a][f]
      /\ Get(K, c, a, f) = IF a \in K[Max(c)].deleted THEN Zero
                           ELSE IF T = {} THEN e ELSE K[Max(T)].fields[a][f]
  BY DEF Get, RevWalk, e
<1> HIDE DEF S, T
<1> QED BY <1>1, <1>3, <1>4, <1>5

LEMMA ExistAgrees ==
  ASSUME NEW H, NEW K, NEW c, NEW r, Agree(H, K, c, r), NEW a
  PROVE  Exist(K, c, a) = Exist(H, c, a)
<1> DEFINE P(i) == IF a \in H[i].entries THEN TRUE ELSE NoChange
           Q(i) == IF a \in K[i].entries THEN TRUE ELSE NoChange
           S == {i \in c : P(i) # NoChange}
           T == {i \in c : Q(i) # NoChange}
           e == a \in Origin
<1>1. \A i \in c : P(i) = Q(i)
  BY DEF Agree
<1>2. /\ Exist(H, c, a) = (a \notin H[Max(c)].deleted /\ IF S = {} THEN e ELSE P(Max(S)))
      /\ Exist(K, c, a) = (a \notin K[Max(c)].deleted /\ IF T = {} THEN e ELSE Q(Max(T)))
  BY DEF Exist, RevWalk
<1> HIDE DEF P, Q, e
<1>3. S = T /\ S \in SUBSET (1 .. r)
  BY <1>1 DEF Agree
<1>4. S # {} => Max(S) \in c
  BY <1>3, MaxInSet DEF Agree
<1>5. S # {} => P(Max(S)) = Q(Max(S))
  BY <1>1, <1>4
<1>6. K[Max(c)] = H[Max(c)]
  BY MaxInSet DEF Agree
<1> HIDE DEF S, T
<1> QED BY <1>2, <1>3, <1>5, <1>6

(* The logs of a chain, one revision after the other. *)
LEMMA JoinedEq ==
  ASSUME NEW H, NEW c, NEW n \in Nat
  PROVE  /\ Joined(H, c, 0) = << >>
         /\ Joined(H, c, n + 1) = IF n + 1 \in c THEN Joined(H, c, n) \o H[n + 1].logs
                                  ELSE Joined(H, c, n)
<1> DEFINE Def(g, i) == IF i = 0 THEN << >>
                        ELSE IF i \in c THEN g[i - 1] \o H[i].logs ELSE g[i - 1]
           Is(g, k) == g = [i \in 0 .. k |-> Def(g, i)]
           J(k) == CHOOSE g : Is(g, k)

<1>1. \A k : Joined(H, c, k) = J(k)[k]
  BY DEF Joined
<1> DEFINE Only(k) == \E g : Is(g, k) /\ \A h : Is(h, k) => h = g
<1>2. Only(0)
  <2> DEFINE g == [i \in 0 .. 0 |-> << >>]
  <2>1. 0 .. 0 = {0}
    OBVIOUS
  <2>2. \A h : Is(h, 0) <=> h = g
    BY <2>1
  <2> QED BY <2>2
<1>3. ASSUME NEW k \in Nat, NEW g, NEW h, Is(g, k), \A x : Is(x, k) => x = g,
             h = [i \in 0 .. k + 1 |-> IF i = k + 1 THEN Def(g, k + 1) ELSE g[i]]
      PROVE  Is(h, k + 1) /\ \A x : Is(x, k + 1) => x = h
  <2>1. /\ DOMAIN g = 0 .. k
        /\ \A i \in 0 .. k : g[i] = Def(g, i)
    BY <1>3
  <2>2. /\ DOMAIN h = 0 .. k + 1
        /\ \A i \in 0 .. k : h[i] = g[i]
        /\ h[k + 1] = Def(g, k + 1)
    BY <1>3
  <2>3. (k + 1) - 1 = k /\ k + 1 # 0 /\ k \in 0 .. k
    OBVIOUS
  <2>4. \A i \in 0 .. k : i # 0 => i - 1 \in 0 .. k
    OBVIOUS
  <2>5. \A i \in 0 .. k + 1 : i \in 0 .. k \/ i = k + 1
    OBVIOUS
  <2>6. \A i \in 0 .. k + 1 : h[i] = Def(h, i)
    BY <2>1, <2>2, <2>3, <2>4, <2>5
  <2>7. Is(h, k + 1)
    BY <1>3, <2>6
  <2>8. ASSUME NEW x, Is(x, k + 1) PROVE x = h
    <3> DEFINE y == [i \in 0 .. k |-> x[i]]
    <3>1. \A i \in 0 .. k + 1 : x[i] = Def(x, i)
      BY <2>8
    <3>2. \A i \in 0 .. k : y[i] = Def(y, i)
      BY <2>4, <3>1
    <3>3. y = g
      BY <1>3, <3>2
    <3>4. \A i \in 0 .. k : x[i] = g[i]
      BY <3>3
    <3>5. x[k + 1] = Def(g, k + 1)
      BY <2>3, <3>1, <3>4
    <3> QED BY <1>3, <2>8, <3>4, <3>5
  <2> QED BY <2>7, <2>8
<1> HIDE DEF Is
<1>4. \A k \in Nat : Only(k)
  <2> DEFINE S == {k \in Nat : Only(k)}
  <2>1. 0 \in S
    BY <1>2
  <2>2. ASSUME NEW k \in Nat, k \in S PROVE k + 1 \in S
    <3>1. PICK g : Is(g, k) /\ \A x : Is(x, k) => x = g
      BY <2>2
    <3>2. Only(k + 1)
      BY <1>3, <3>1
    <3> QED BY <3>2
  <2> HIDE DEF S
  <2>3. \A k \in Nat : k \in S
    BY <2>1, <2>2, NatInd
  <2> QED BY <2>3 DEF S
<1>5. ASSUME NEW k \in Nat PROVE Is(J(k), k) /\ \A h : Is(h, k) => h = J(k)
  <2>1. PICK g : Is(g, k) /\ \A x : Is(x, k) => x = g
    BY <1>4
  <2>2. Is(J(k), k)
    BY <2>1, Zenon
  <2> QED BY <2>1, <2>2
<1> HIDE DEF J
<1> DEFINE h == [i \in 0 .. n + 1 |-> IF i = n + 1 THEN Def(J(n), n + 1) ELSE J(n)[i]]
<1>6. J(n + 1) = h
  <2>1. Is(h, n + 1)
    BY <1>3, <1>5
  <2> QED BY <1>5, <2>1
<1>7. J(n + 1)[n + 1] = Def(J(n), n + 1)
  <2>1. n + 1 \in 0 .. n + 1
    OBVIOUS
  <2>2. h[n + 1] = Def(J(n), n + 1)
    BY <2>1
  <2> HIDE DEF h, Def
  <2> QED BY <1>6, <2>2
<1>8. J(0)[0] = << >>
  <2>1. Is([i \in 0 .. 0 |-> << >>], 0)
    BY DEF Is
  <2>2. J(0) = [i \in 0 .. 0 |-> << >>]
    BY <1>5, <2>1
  <2> QED BY <2>2
<1>9. (n + 1) - 1 = n /\ n + 1 # 0
  OBVIOUS
<1> QED BY <1>1, <1>7, <1>8, <1>9

(* The logs of the revisions c do not depend on other revisions. *)
LEMMA JoinedSame ==
  ASSUME NEW H, NEW K, NEW c, NEW n \in Nat, \A i \in c : K[i].logs = H[i].logs
  PROVE  Joined(K, c, n) = Joined(H, c, n)
<1> DEFINE S == {j \in Nat : Joined(K, c, j) = Joined(H, c, j)}
<1>1. 0 \in S
  BY JoinedEq
<1>2. ASSUME NEW j \in Nat, j \in S PROVE j + 1 \in S
  <2>1. Joined(K, c, j) = Joined(H, c, j)
    BY <1>2
  <2>2. Joined(K, c, j + 1) = Joined(H, c, j + 1)
    BY <2>1, JoinedEq
  <2> QED BY <2>2
<1> HIDE DEF S
<1>3. \A j \in Nat : j \in S
  BY <1>1, <1>2, NatInd
<1> QED BY <1>3 DEF S

(* ... nor on how many younger ones there are. *)
LEMMA JoinedStops ==
  ASSUME NEW H, NEW c, NEW k \in Nat, NEW n \in Nat, k <= n, c \subseteq 1 .. k
  PROVE  Joined(H, c, n) = Joined(H, c, k)
<1> DEFINE S == {d \in Nat : Joined(H, c, k + d) = Joined(H, c, k)}
<1>1. 0 \in S
  OBVIOUS
<1>2. ASSUME NEW d \in Nat, d \in S PROVE d + 1 \in S
  <2>1. k + (d + 1) = (k + d) + 1 /\ k + d \in Nat /\ (k + d) + 1 \notin c
    OBVIOUS
  <2>2. Joined(H, c, (k + d) + 1) = Joined(H, c, k + d)
    BY <2>1, JoinedEq
  <2> QED BY <1>2, <2>1, <2>2
<1> HIDE DEF S
<1>3. \A d \in Nat : d \in S
  BY <1>1, <1>2, NatInd
<1>4. n - k \in Nat /\ n = k + (n - k)
  OBVIOUS
<1> QED BY <1>3, <1>4 DEF S

(* ... and a set that agrees with c up to n has the same ones up to n. *)
LEMMA JoinedPart ==
  ASSUME NEW H, NEW c, NEW d, NEW n \in Nat, \A i \in 1 .. n : i \in c <=> i \in d
  PROVE  Joined(H, c, n) = Joined(H, d, n)
<1> DEFINE S == {j \in Nat : j <= n => Joined(H, c, j) = Joined(H, d, j)}
<1>1. 0 \in S
  BY JoinedEq
<1>2. ASSUME NEW j \in Nat, j \in S PROVE j + 1 \in S
  <2> SUFFICES ASSUME j + 1 <= n PROVE Joined(H, c, j + 1) = Joined(H, d, j + 1)
    OBVIOUS
  <2>1. Joined(H, c, j) = Joined(H, d, j)
    BY <1>2
  <2>2. j + 1 \in c <=> j + 1 \in d
    OBVIOUS
  <2> QED BY <2>1, <2>2, JoinedEq
<1> HIDE DEF S
<1>3. n \in S
  BY <1>1, <1>2, NatInd
<1> QED BY <1>3 DEF S

LEMMA LogsAgree ==
  ASSUME NEW H, NEW K, NEW c, NEW r, Agree(H, K, c, r),
         Len(H) \in Nat, r <= Len(H), Len(K) \in Nat, r <= Len(K)
  PROVE  Logs(K, c) = Logs(H, c)
<1>1. r \in Nat /\ c \subseteq 1 .. r
  BY DEF Agree
<1>2. \A i \in c : K[i].logs = H[i].logs
  BY DEF Agree
<1>3. Joined(K, c, Len(K)) = Joined(K, c, r)
  BY <1>1, JoinedStops
<1>4. Joined(H, c, Len(H)) = Joined(H, c, r)
  BY <1>1, JoinedStops
<1>5. r \in Nat
  BY <1>1
<1>6. Joined(K, c, r) = Joined(H, c, r)
  BY <1>2, <1>5, JoinedSame
<1> QED BY <1>3, <1>4, <1>6 DEF Logs

(* An object that keeps its newest revision reads what it read if the      *)
(* revisions it visits stay as they were.                                  *)
LEMMA ViewKept ==
  ASSUME Inv, IsSeq(heap'), NEW x \in Handle, Held(x), handle'[x].rev = handle[x].rev,
         \A i \in Ancestry(heap, handle[x].rev) :
            i \in DOMAIN heap' /\ heap'[i] = heap[i]
  PROVE  View(x)' = View(x)
<1> DEFINE r == handle[x].rev
           c == Ancestry(heap, r)
           H == heap
           K == heap'
<1>1. r \in DOMAIN heap /\ Forest
  BY DEF Inv, Forest
<1>2. r \in Nat /\ c \subseteq 1 .. r /\ r \in c
  BY <1>1, AncestryBounds, ForestTree, IsSeqFacts DEF Forest
<1>3. Ancestry(K, r) = c
  BY <1>1, AncestryAgrees, ForestTree
<1>4. Agree(H, K, c, r)
  BY <1>2 DEF Agree
<1>5. /\ View(x)  = [exist |-> {a \in Addr : Exist(H, c, a)},
                     val   |-> [a \in Addr |-> [f \in Field |-> Get(H, c, a, f)]],
                     logs  |-> Logs(H, c)]
      /\ View(x)' = [exist |-> {a \in Addr : Exist(K, c, a)},
                     val   |-> [a \in Addr |-> [f \in Field |-> Get(K, c, a, f)]],
                     logs  |-> Logs(K, c)]
  BY <1>3 DEF View
<1> HIDE DEF r, c, H, K
<1>6. {a \in Addr : Exist(H, c, a)} = {a \in Addr : Exist(K, c, a)}
  BY <1>4, ExistAgrees
<1>7. [a \in Addr |-> [f \in Field |-> Get(H, c, a, f)]]
        = [a \in Addr |-> [f \in Field |-> Get(K, c, a, f)]]
  BY <1>4, GetAgrees
<1>8. Logs(K, c) = Logs(H, c)
  <2>1. Len(H) \in Nat /\ r <= Len(H) /\ Len(K) \in Nat /\ r <= Len(K)
    BY <1>1, <1>2, IsSeqFacts DEF Forest, r, c, H, K
  <2> QED BY <1>4, <2>1, LogsAgree
<1> QED BY <1>5, <1>6, <1>7, <1>8

(* What Isolation says of one step, with the object that may change named. *)
OnlyThrough(h) ==
  \A x \in Handle \ {h} : Held(x) /\ Held(x)' => View(x)' = View(x)

(* The revision h writes to is on nobody else's chain. *)
LEMMA OwnIsAside ==
  ASSUME Inv, NEW h \in Handle, Held(h), NEW x \in Handle \ {h}, Held(x)
  PROVE  MutRev(h) \notin Ancestry(heap, handle[x].rev)
<1> DEFINE r == handle[x].rev
           m == MutRev(h)
           A == Ancestry(heap, r)
<1>1. r \in DOMAIN heap /\ Forest
  BY DEF Inv, Forest
<1>2. /\ A \subseteq DOMAIN heap
      /\ ClosedUp(heap, A)
      /\ \A S \in SUBSET DOMAIN heap : r \in S /\ ClosedUp(heap, S) => A \subseteq S
  BY <1>1, AncestryLeast, ForestTree
<1>3. r \in A
  BY <1>1, AncestryBounds, ForestTree
<1>4. CASE handle[h].mutable
  <2>1. m = handle[h].rev
    BY <1>4 DEF MutRev
  <2>2. r # m /\ \A i \in DOMAIN heap : heap[i].parent # m
    BY <1>4, <2>1 DEF Inv, OwnedRevision
  <2> HIDE DEF r, m, A
  <2>3. ClosedUp(heap, A \ {m})
    BY <1>2, <2>2 DEF ClosedUp
  <2> QED BY <1>2, <1>3, <2>2, <2>3 DEF A, m, r
<1>5. CASE ~handle[h].mutable
  BY <1>2, <1>5, MutHeapFacts
<1> QED BY <1>4, <1>5

LEMMA WriteIsolated ==
  ASSUME Inv, IsSeq(heap'), NEW h \in Handle, Held(h), NEW new, Write(h, new)
  PROVE  OnlyThrough(h)
<1> SUFFICES ASSUME NEW x \in Handle \ {h}, Held(x), Held(x)'
             PROVE  View(x)' = View(x)
  BY DEF OnlyThrough
<1> DEFINE H == MutHeap(h)
           m == MutRev(h)
           A == Ancestry(heap, handle[x].rev)
<1>1. /\ IsSeq(H)
      /\ \A r \in DOMAIN heap : r \in DOMAIN H /\ H[r] = heap[r]
  BY MutHeapFacts
<1>2. /\ heap' = [H EXCEPT ![m] = new]
      /\ handle' = [handle EXCEPT ![h] = [rev |-> m, mutable |-> TRUE]]
  BY DEF Write
<1>3. m \notin A
  BY OwnIsAside
<1>4. A \subseteq DOMAIN heap
  BY DEF Ancestry
<1>5. handle'[x] = handle[x]
  BY <1>2 DEF Inv, Forest
<1> HIDE DEF H, m
<1>6. \A i \in A : i \in DOMAIN heap' /\ heap'[i] = heap[i]
  BY <1>1, <1>2, <1>3, <1>4
<1> QED BY <1>5, <1>6, ViewKept

(* Sharing adds at most a revision and changes none. *)
LEMMA ShareIsolated ==
  ASSUME Inv, IsSeq(heap'), NEW h \in Handle, NEW g \in Handle, NEW r,
         Held(h), ~Held(g), Share(h, g, r),
         \A i \in DOMAIN heap : i \in DOMAIN heap' /\ heap'[i] = heap[i]
  PROVE  OnlyThrough(h)
<1> SUFFICES ASSUME NEW x \in Handle \ {h}, Held(x), Held(x)'
             PROVE  View(x)' = View(x)
  BY DEF OnlyThrough
<1>1. x # g /\ handle'[x] = handle[x]
  BY DEF Share, Inv, Forest
<1>2. Ancestry(heap, handle[x].rev) \subseteq DOMAIN heap
  BY DEF Ancestry
<1> QED BY <1>1, <1>2, ViewKept

(* A step that leaves the heap and the objects other than h and g alone,   *)
(* and drops g.                                                            *)
LEMMA DropIsolated ==
  ASSUME Inv, NEW h \in Handle, NEW g \in Handle, heap' = heap, ~Held(g)',
         \A x \in Handle \ {h, g} : handle'[x] = handle[x]
  PROVE  OnlyThrough(h)
<1> SUFFICES ASSUME NEW x \in Handle \ {h}, Held(x), Held(x)'
             PROVE  View(x)' = View(x)
  BY DEF OnlyThrough
<1>1. handle'[x] = handle[x]
  OBVIOUS
<1>2. Ancestry(heap, handle[x].rev) \subseteq DOMAIN heap /\ IsSeq(heap')
  BY DEF Ancestry, Inv, Forest
<1> QED BY <1>1, <1>2, ViewKept

LEMMA ConsolidateIsolated ==
  ASSUME Inv, IsSeq(heap'), NEW h \in Handle, NEW g \in Handle, NEW steps, Consolidate(h, g, steps)
  PROVE  OnlyThrough(h)
<1> DEFINE new == Consolidated(handle[h].rev, steps)
<1>1. /\ Held(h) /\ ~Held(g)
      /\ heap' = heap \/ heap' = Append(heap, new)
      /\ \E r : Share(h, g, r)
  BY DEF Consolidate
<1>2. IsSeq(heap)
  BY DEF Inv, Forest
<1> HIDE DEF new
<1>3. \A i \in DOMAIN heap : i \in DOMAIN heap' /\ heap'[i] = heap[i]
  <2>1. CASE heap' = heap
    BY <2>1
  <2>2. CASE heap' = Append(heap, new)
    <3>1. /\ DOMAIN heap = 1 .. Len(heap) /\ Len(heap) \in Nat
          /\ DOMAIN heap' = 1 .. Len(heap) + 1
          /\ \A i \in 1 .. Len(heap) : heap'[i] = heap[i]
      BY <1>2, <2>2, IsSeqAppend, IsSeqFacts
    <3> QED BY <3>1
  <2> QED BY <1>1, <2>1, <2>2
<1> QED BY <1>1, <1>3, ShareIsolated

LEMMA NextIsolated ==
  ASSUME Inv, Next
  PROVE  \E h \in Handle : OnlyThrough(h)
<1>0. IsSeq(heap')
  BY NextInv DEF Inv, Forest
<1>1. PICK h \in Handle :
          \/ \E a \in Addr : \/ \E f \in Field, v \in Val : SetField(h, a, f, v)
                             \/ CreateAccount(h, a)
                             \/ DeleteAccount(h, a)
                             \/ AddLog(h, a)
          \/ AddLogPanics(h)
          \/ \E g \in Handle : \/ Snapshot(h, g)
                               \/ Rollback(h, g)
                               \/ \E steps \in 0 .. MaxRev : Consolidate(h, g, steps)
          \/ Drop(h)
  BY DEF Next
<1>2. ASSUME NEW a \in Addr, NEW f \in Field, NEW v \in Val, SetField(h, a, f, v)
      PROVE  OnlyThrough(h)
  BY <1>2, <1>0, WriteIsolated DEF SetField
<1>3. ASSUME NEW a \in Addr, CreateAccount(h, a)
      PROVE  OnlyThrough(h)
  BY <1>3, <1>0, WriteIsolated DEF CreateAccount
<1>4. ASSUME NEW a \in Addr, DeleteAccount(h, a)
      PROVE  OnlyThrough(h)
  BY <1>4, <1>0, WriteIsolated DEF DeleteAccount
<1>5. ASSUME NEW a \in Addr, AddLog(h, a)
      PROVE  OnlyThrough(h)
  BY <1>5, <1>0, WriteIsolated DEF AddLog
<1>6. ASSUME NEW g \in Handle, Snapshot(h, g)
      PROVE  OnlyThrough(h)
  BY <1>6, <1>0, ShareIsolated DEF Snapshot
<1>7. ASSUME NEW g \in Handle, Rollback(h, g)
      PROVE  OnlyThrough(h)
  BY <1>7, DropIsolated DEF Rollback, Inv, Forest, Held
<1>8. ASSUME NEW g \in Handle, NEW steps \in 0 .. MaxRev, Consolidate(h, g, steps)
      PROVE  OnlyThrough(h)
  BY <1>8, <1>0, ConsolidateIsolated
<1>9. CASE Drop(h)
  BY <1>9, DropIsolated DEF Drop, Inv, Forest, Held
<1>10. CASE AddLogPanics(h)
  BY <1>10, <1>0, WriteIsolated DEF AddLogPanics
<1> QED BY <1>1, <1>2, <1>3, <1>4, <1>5, <1>6, <1>7, <1>8, <1>9, <1>10

-----------------------------------------------------------------------------
(* Chains of revisions. *)

(* Everything on the way from r, but r itself, is older than r and closed  *)
(* under parents.                                                          *)
LEMMA BelowTop ==
  ASSUME NEW H, Tree(H), NEW r \in DOMAIN H
  PROVE  LET C == Ancestry(H, r) \ {r} IN
           /\ C \subseteq DOMAIN H /\ C \subseteq 1 .. r - 1
           /\ ClosedUp(H, C)
           /\ Ancestry(H, r) = C \cup {r}
<1> DEFINE A == Ancestry(H, r)
           C == A \ {r}
<1>1. A \subseteq 1 .. r /\ r \in A /\ A \subseteq DOMAIN H /\ ClosedUp(H, A)
  BY AncestryBounds, AncestryLeast
<1>2. DOMAIN H = 1 .. Len(H) /\ Len(H) \in Nat
  BY IsSeqFacts DEF Tree
<1>3. C \subseteq 1 .. r - 1
  BY <1>1, <1>2
<1>4. ASSUME NEW i \in C PROVE H[i].parent \in C \cup {0}
  <2>1. H[i].parent \in A \cup {0}
    BY <1>1 DEF ClosedUp
  <2>2. i \in DOMAIN H /\ i \in 1 .. r - 1
    BY <1>1, <1>3
  <2>3. H[i].parent \in 0 .. i - 1
    BY <2>2 DEF Tree
  <2>4. H[i].parent # r
    BY <1>2, <2>2, <2>3
  <2> QED BY <2>1, <2>4
<1>5. ClosedUp(H, C)
  BY <1>4 DEF ClosedUp
<1> HIDE DEF A
<1> QED BY <1>1, <1>3, <1>5 DEF A

(* The chain of r goes on with that of its parent. *)
LEMMA AncestryTail ==
  ASSUME NEW H, Tree(H), NEW r \in DOMAIN H
  PROVE  /\ H[r].parent = 0 => Ancestry(H, r) = {r}
         /\ H[r].parent # 0 => /\ H[r].parent \in DOMAIN H
                               /\ Ancestry(H, r) = {r} \cup Ancestry(H, H[r].parent)
<1> DEFINE p == H[r].parent
           A == Ancestry(H, r)
<1>1. /\ A \subseteq DOMAIN H /\ ClosedUp(H, A) /\ r \in A
      /\ \A S \in SUBSET DOMAIN H : r \in S /\ ClosedUp(H, S) => A \subseteq S
  BY AncestryLeast, AncestryBounds
<1>2. CASE p = 0
  <2>1. ClosedUp(H, {r})
    BY <1>2 DEF ClosedUp
  <2>2. A \subseteq {r}
    BY <1>1, <2>1
  <2> QED BY <1>1, <1>2, <2>2
<1>3. CASE p # 0
  <2> DEFINE B == Ancestry(H, p)
  <2>1. p \in DOMAIN H
    <3>1. DOMAIN H = 1 .. Len(H) /\ Len(H) \in Nat /\ p \in 0 .. r - 1
      BY IsSeqFacts DEF Tree
    <3> QED BY <1>3, <3>1
  <2>2. /\ B \subseteq DOMAIN H /\ ClosedUp(H, B) /\ p \in B
        /\ \A S \in SUBSET DOMAIN H : p \in S /\ ClosedUp(H, S) => B \subseteq S
    BY <2>1, AncestryLeast, AncestryBounds
  <2>3. p \in A
    BY <1>1, <1>3 DEF ClosedUp
  <2> HIDE DEF A, B
  <2>4. B \subseteq A
    BY <1>1, <2>2, <2>3
  <2>5. ClosedUp(H, {r} \cup B)
    BY <2>2 DEF ClosedUp, p
  <2>6. A \subseteq {r} \cup B
    BY <1>1, <2>2, <2>5
  <2> QED BY <1>1, <1>3, <2>1, <2>4, <2>6 DEF A, B
<1> QED BY <1>2, <1>3

(* A look-up that visits m visits it from every younger revision on its    *)
(* way: no parent link passes over m.                                      *)
LEMMA ChainLinear ==
  ASSUME NEW H, Tree(H), NEW r \in DOMAIN H, NEW m \in Ancestry(H, r),
         NEW i \in Ancestry(H, r), i > m
  PROVE  H[i].parent >= m
<1> DEFINE A == Ancestry(H, r)
           S == {j \in A : m \in Ancestry(H, j)} \cup Ancestry(H, m)
<1>1. /\ A \subseteq DOMAIN H /\ ClosedUp(H, A) /\ r \in A
      /\ \A T \in SUBSET DOMAIN H : r \in T /\ ClosedUp(H, T) => A \subseteq T
  BY AncestryLeast, AncestryBounds
<1>2. /\ DOMAIN H = 1 .. Len(H) /\ Len(H) \in Nat
      /\ m \in DOMAIN H /\ i \in DOMAIN H
  BY <1>1, IsSeqFacts DEF Tree
<1>3. /\ Ancestry(H, m) \subseteq DOMAIN H /\ Ancestry(H, m) \subseteq 1 .. m
      /\ ClosedUp(H, Ancestry(H, m)) /\ m \in Ancestry(H, m)
  BY <1>2, AncestryLeast, AncestryBounds
<1>4. ASSUME NEW j \in A, m \in Ancestry(H, j), j # m
      PROVE  /\ H[j].parent \in A /\ m \in Ancestry(H, H[j].parent)
             /\ H[j].parent \in DOMAIN H
  <2>1. j \in DOMAIN H
    BY <1>1
  <2>2. H[j].parent # 0 /\ H[j].parent \in DOMAIN H /\ m \in Ancestry(H, H[j].parent)
    BY <1>4, <2>1, AncestryTail
  <2> QED BY <1>1, <2>2 DEF ClosedUp
<1>5. ClosedUp(H, S)
  <2>1. ASSUME NEW j \in S PROVE H[j].parent \in S \cup {0}
    <3>1. CASE j \in Ancestry(H, m)
      BY <1>3, <3>1 DEF ClosedUp
    <3>2. CASE j \notin Ancestry(H, m)
      BY <1>3, <1>4, <3>2
    <3> QED BY <3>1, <3>2
  <2> QED BY <2>1 DEF ClosedUp
<1>6. r \in S /\ S \subseteq DOMAIN H
  BY <1>1, <1>3
<1>7. i \in S
  <2> HIDE DEF S
  <2> QED BY <1>1, <1>5, <1>6
<1>8. i \notin Ancestry(H, m)
  BY <1>2, <1>3
<1>9. m \in Ancestry(H, H[i].parent) /\ H[i].parent \in DOMAIN H
  <2>1. m \in Ancestry(H, i) /\ i # m
    BY <1>2, <1>7, <1>8
  <2> QED BY <1>4, <2>1
<1>10. m \in 1 .. H[i].parent
  BY <1>9, AncestryBounds
<1> QED BY <1>2, <1>9, <1>10

-----------------------------------------------------------------------------
(* What a chain reads: each revision over what lies below it. *)

(* What the chain c reads in heap H. *)
Seen(H, c) ==
  [exist |-> {a \in Addr : Exist(H, c, a)},
   val   |-> [a \in Addr |-> [f \in Field |-> Get(H, c, a, f)]],
   logs  |-> Logs(H, c)]

(* The same when no revision of c has deleted an account, c being possibly *)
(* empty: the external source read through nothing.                        *)
Answers(H, c, a, f) == {i \in c : H[i].fields[a][f] # NoChange}
External(a, f) == IF a \in Origin THEN OriginVal[f] ELSE Zero
Look(H, c, a, f) ==
  IF Answers(H, c, a, f) = {} THEN External(a, f)
  ELSE H[Max(Answers(H, c, a, f))].fields[a][f]
Known(H, c) == {a \in Addr : a \in Origin \/ \E i \in c : a \in H[i].entries}
Looks(H, c) == [a \in Addr |-> [f \in Field |-> Look(H, c, a, f)]]
Base(H, c) == [exist |-> Known(H, c), val |-> Looks(H, c), logs |-> Logs(H, c)]

(* One revision read over what lies below it. *)
Over(b, rev) ==
  [exist |-> b.exist \cup rev.entries,
   val   |-> [a \in Addr |-> [f \in Field |->
                IF rev.fields[a][f] # NoChange THEN rev.fields[a][f] ELSE b.val[a][f]]],
   logs  |-> b.logs \o rev.logs]

LEMMA ViewSeen ==
  ASSUME NEW h
  PROVE  View(h) = Seen(heap, Ancestry(heap, handle[h].rev))
BY DEF View, Seen

LEMMA SeenIsBase ==
  ASSUME NEW H, NEW n \in Nat, NEW c, c \subseteq 1 .. n, c # {},
         \A i \in c : H[i].deleted = {}
  PROVE  Seen(H, c) = Base(H, c)
<1>1. H[Max(c)].deleted = {}
  BY MaxInSet
<1>2. ASSUME NEW a \in Addr, NEW f \in Field PROVE Get(H, c, a, f) = Look(H, c, a, f)
  BY <1>1 DEF Get, RevWalk, Look, Answers, External
<1>3. ASSUME NEW a \in Addr PROVE Exist(H, c, a) <=> a \in Known(H, c)
  <2> DEFINE P(i) == IF a \in H[i].entries THEN TRUE ELSE NoChange
             S == {i \in c : P(i) # NoChange}
  <2>1. S = {i \in c : a \in H[i].entries}
    BY MemAssumption
  <2>2. Exist(H, c, a) = (a \notin H[Max(c)].deleted
                            /\ IF S = {} THEN a \in Origin ELSE P(Max(S)))
    BY DEF Exist, RevWalk
  <2>3. /\ S = {} => (Exist(H, c, a) <=> a \in Origin)
        /\ S # {} /\ P(Max(S)) = TRUE => Exist(H, c, a)
    <3> HIDE DEF P, S
    <3> QED BY <1>1, <2>2
  <2>4. S # {} => Max(S) \in S
    <3>1. S \in SUBSET (1 .. n)
      OBVIOUS
    <3> HIDE DEF S
    <3> QED BY <3>1, MaxInSet
  <2>5. S # {} => P(Max(S)) = TRUE
    BY <2>1, <2>4
  <2> HIDE DEF P
  <2>6. (S # {}) <=> \E i \in c : a \in H[i].entries
    BY <2>1
  <2> HIDE DEF S
  <2>7. CASE S = {}
    BY <2>3, <2>6, <2>7 DEF Known
  <2>8. CASE S # {}
    BY <2>3, <2>5, <2>6, <2>8 DEF Known
  <2> QED BY <2>7, <2>8
<1>4. {a \in Addr : Exist(H, c, a)} = Known(H, c)
  BY <1>3 DEF Known
<1>5. [a \in Addr |-> [f \in Field |-> Get(H, c, a, f)]] = Looks(H, c)
  BY <1>2 DEF Looks
<1> QED BY <1>4, <1>5 DEF Seen, Base

LEMMA LogsTop ==
  ASSUME NEW H, IsSeq(H), NEW m \in DOMAIN H, NEW c, c \subseteq 1 .. m - 1
  PROVE  Logs(H, c \cup {m}) = Logs(H, c) \o H[m].logs
<1> DEFINE n == Len(H)
           k == m - 1
           d == c \cup {m}
<1>1. n \in Nat /\ m \in Nat /\ 1 <= m /\ m <= n /\ k \in Nat /\ m = k + 1 /\ k <= n
  BY IsSeqFacts
<1>3. c \subseteq 1 .. k
  OBVIOUS
<1>2. d \subseteq 1 .. m /\ m \in d /\ \A i \in 1 .. k : i \in d <=> i \in c
  <2>1. m \notin 1 .. k /\ 1 .. k \subseteq 1 .. m /\ m \in 1 .. m
    BY <1>1
  <2> HIDE DEF k
  <2> QED BY <1>3, <2>1
<1> HIDE DEF n, k, d
<1>4. Joined(H, d, n) = Joined(H, d, m)
  BY <1>1, <1>2, JoinedStops
<1>5. Joined(H, d, m) = Joined(H, d, k) \o H[m].logs
  BY <1>1, <1>2, JoinedEq
<1>6. Joined(H, d, k) = Joined(H, c, k)
  BY <1>1, <1>2, JoinedPart
<1>7. Joined(H, c, n) = Joined(H, c, k)
  BY <1>1, <1>3, JoinedStops
<1> QED BY <1>4, <1>5, <1>6, <1>7 DEF Logs, n, d

(* The newest revision of a chain is read over the others. *)
LEMMA BaseTop ==
  ASSUME NEW H, IsSeq(H), NEW m \in DOMAIN H, NEW c, c \subseteq 1 .. m - 1,
         H[m].entries \subseteq Addr
  PROVE  Base(H, c \cup {m}) = Over(Base(H, c), H[m])
<1>1. m \in Nat \ {0} /\ c \in SUBSET (1 .. m - 1)
  BY IsSeqFacts
<1>2. Logs(H, c \cup {m}) = Logs(H, c) \o H[m].logs
  BY LogsTop
<1>3. Known(H, c \cup {m}) = Known(H, c) \cup H[m].entries
  BY DEF Known
<1>4. Looks(H, c \cup {m}) =
        [a \in Addr |-> [f \in Field |->
           IF H[m].fields[a][f] # NoChange THEN H[m].fields[a][f] ELSE Looks(H, c)[a][f]]]
  <2>1. ASSUME NEW a \in Addr, NEW f \in Field
        PROVE  Look(H, c \cup {m}, a, f) =
                 IF H[m].fields[a][f] # NoChange THEN H[m].fields[a][f]
                 ELSE Looks(H, c)[a][f]
    <3>1. Looks(H, c)[a][f] = Look(H, c, a, f)
      BY DEF Looks
    <3> DEFINE S == Answers(H, c \cup {m}, a, f)
               T == Answers(H, c, a, f)
    <3>2. CASE H[m].fields[a][f] = NoChange
      <4>1. S = T
        BY <3>2 DEF Answers
      <4> QED BY <3>1, <3>2, <4>1 DEF Look
    <3>3. CASE H[m].fields[a][f] # NoChange
      <4>1. m \in S /\ S \subseteq c \cup {m}
        BY <3>3 DEF Answers
      <4> HIDE DEF S
      <4>2. S # {} /\ S \in SUBSET (1 .. m)
        BY <1>1, <4>1
      <4>3. Max(S) \in S /\ Max(S) >= m
        BY <1>1, <4>1, <4>2, MaxInSet
      <4> DEFINE x == Max(S)
      <4>4. x \in 1 .. m /\ x >= m
        BY <4>2, <4>3
      <4> HIDE DEF x
      <4>5. x = m
        BY <1>1, <4>4
      <4> QED BY <3>3, <4>2, <4>5 DEF Look, S, x
    <3> QED BY <3>2, <3>3
  <2> QED BY <2>1 DEF Looks
<1> QED BY <1>2, <1>3, <1>4 DEF Base, Over

(* What is below does not depend on revisions that are not on the chain. *)
LEMMA BaseAgree ==
  ASSUME NEW H, NEW K, IsSeq(H), IsSeq(K), NEW c, c \subseteq DOMAIN H,
         c \subseteq DOMAIN K, NEW n \in Nat, c \subseteq 1 .. n,
         \A i \in c : K[i] = H[i]
  PROVE  Base(K, c) = Base(H, c)
<1>1. Known(K, c) = Known(H, c)
  BY DEF Known
<1>2. ASSUME NEW a, NEW f PROVE Look(K, c, a, f) = Look(H, c, a, f)
  <2>1. Answers(K, c, a, f) = Answers(H, c, a, f)
    BY DEF Answers
  <2>2. Answers(H, c, a, f) # {} => Max(Answers(H, c, a, f)) \in c
    <3>1. Answers(H, c, a, f) \subseteq c /\ Answers(H, c, a, f) \in SUBSET (1 .. n)
      BY DEF Answers
    <3> QED BY <3>1, MaxInSet
  <2> QED BY <2>1, <2>2 DEF Look
<1>3. Looks(K, c) = Looks(H, c)
  BY <1>2 DEF Looks
<1>4. Logs(K, c) = Logs(H, c)
  <2> DEFINE k == Len(H)
             l == Len(K)
             t == IF k <= l THEN k ELSE l
  <2>1. k \in Nat /\ l \in Nat /\ DOMAIN H = 1 .. k /\ DOMAIN K = 1 .. l
    BY IsSeqFacts
  <2>2. t \in Nat /\ t <= k /\ t <= l /\ c \subseteq 1 .. t
    BY <2>1
  <2> HIDE DEF k, l, t
  <2>3. Joined(H, c, k) = Joined(H, c, t)
    BY <2>1, <2>2, JoinedStops
  <2>4. Joined(K, c, l) = Joined(K, c, t)
    BY <2>1, <2>2, JoinedStops
  <2>5. t \in Nat
    BY <2>2
  <2>6. Joined(K, c, t) = Joined(H, c, t)
    BY <2>5, JoinedSame
  <2> QED BY <2>3, <2>4, <2>6 DEF Logs, k, l
<1> QED BY <1>1, <1>3, <1>4 DEF Base

(* What a client may read. *)
Readable ==
  [exist : SUBSET Addr, val : [Addr -> [Field -> Val]], logs : Seq(Addr)]

LEMMA RevFacts ==
  ASSUME NEW rev \in Rev
  PROVE  /\ rev.entries \subseteq Addr /\ rev.deleted \subseteq Addr
         /\ rev.parent \in Nat /\ rev.logs \in Seq(Addr)
         /\ rev.fields \in [Addr -> [Field -> Val \cup {NoChange}]]
         /\ \A a \in Addr, f \in Field : rev.fields[a][f] \in Val \cup {NoChange}
BY DEF Rev

LEMMA LogsType ==
  ASSUME NEW H \in Seq(Rev), NEW c, c \subseteq DOMAIN H
  PROVE  Logs(H, c) \in Seq(Addr)
<1> DEFINE S == {j \in Nat : Joined(H, c, j) \in Seq(Addr)}
<1>1. 0 \in S
  <2>1. Joined(H, c, 0) = << >> /\ << >> \in Seq(Addr)
    BY JoinedEq
  <2> QED BY <2>1
<1>2. ASSUME NEW j \in Nat, j \in S PROVE j + 1 \in S
  <2>1. Joined(H, c, j) \in Seq(Addr)
    BY <1>2
  <2>2. CASE j + 1 \in c
    <3>1. H[j + 1] \in Rev
      BY <2>2, ElementOfSeq
    <3>2. H[j + 1].logs \in Seq(Addr)
      BY <3>1 DEF Rev
    <3>3. Joined(H, c, j + 1) = Joined(H, c, j) \o H[j + 1].logs
      BY <2>2, JoinedEq
    <3>4. Joined(H, c, j + 1) \in Seq(Addr)
      BY <2>1, <3>2, <3>3, ConcatProperties
    <3> QED BY <3>4
  <2>3. CASE j + 1 \notin c
    <3>1. Joined(H, c, j + 1) = Joined(H, c, j)
      BY <2>3, JoinedEq
    <3> QED BY <2>1, <3>1
  <2> QED BY <2>2, <2>3
<1> HIDE DEF S
<1>3. Len(H) \in S
  BY <1>1, <1>2, NatInd, LenProperties
<1> QED BY <1>3 DEF S, Logs

LEMMA BaseType ==
  ASSUME NEW H \in Seq(Rev), NEW c, c \subseteq DOMAIN H
  PROVE  Base(H, c) \in Readable
<1>1. Logs(H, c) \in Seq(Addr)
  BY LogsType
<1>2. Known(H, c) \subseteq Addr
  BY DEF Known
<1>3. ASSUME NEW a \in Addr, NEW f \in Field PROVE Look(H, c, a, f) \in Val
  <2> DEFINE S == Answers(H, c, a, f)
  <2>1. CASE S = {}
    BY <2>1, MemAssumption DEF Look, External
  <2>2. CASE S # {}
    <3>1. S \in SUBSET (1 .. Len(H)) /\ Len(H) \in Nat
      BY LenProperties DEF Answers
    <3> HIDE DEF S
    <3>2. Max(S) \in S
      BY <2>2, <3>1, MaxInSet
    <3> DEFINE x == Max(S)
    <3>3. x \in DOMAIN H /\ H[x].fields[a][f] # NoChange
      BY <3>2 DEF Answers, S
    <3>4. Look(H, c, a, f) = H[x].fields[a][f]
      BY <2>2 DEF Look, S
    <3> HIDE DEF x
    <3>5. H[x] \in Rev
      BY <3>3, ElementOfSeq
    <3>6. H[x].fields[a][f] \in Val \cup {NoChange}
      BY <3>5, RevFacts
    <3> QED BY <3>3, <3>4, <3>6
  <2> QED BY <2>1, <2>2
<1>4. Looks(H, c) \in [Addr -> [Field -> Val]]
  BY <1>3 DEF Looks
<1> QED BY <1>1, <1>2, <1>4 DEF Base, Readable

(* An empty revision hides nothing. *)
LEMMA OverEmpty ==
  ASSUME NEW b \in Readable, NEW p
  PROVE  Over(b, EmptyRev(p)) = b
<1> DEFINE e == EmptyRev(p)
<1>1. /\ e.entries = {} /\ e.logs = << >>
      /\ \A a \in Addr, f \in Field : e.fields[a][f] = NoChange
  BY DEF EmptyRev, NoFields
<1> HIDE DEF e
<1>2. b = [exist |-> b.exist, val |-> b.val, logs |-> b.logs]
  BY DEF Readable
<1>3. b.logs \o e.logs = b.logs
  <2>1. b.logs \in Seq(Addr)
    BY DEF Readable
  <2> QED BY <1>1, <2>1, ConcatEmptySeq
<1>4. b.val = [a \in Addr |-> [f \in Field |->
                IF e.fields[a][f] # NoChange THEN e.fields[a][f] ELSE b.val[a][f]]]
  <2>1. b.val \in [Addr -> [Field -> Val]]
    BY DEF Readable
  <2>2. [a \in Addr |-> [f \in Field |->
                IF e.fields[a][f] # NoChange THEN e.fields[a][f] ELSE b.val[a][f]]]
          = [a \in Addr |-> [f \in Field |-> b.val[a][f]]]
    BY <1>1
  <2>3. ASSUME NEW a \in Addr PROVE b.val[a] = [f \in Field |-> b.val[a][f]]
    BY <2>1
  <2>4. b.val = [a \in Addr |-> [f \in Field |-> b.val[a][f]]]
    BY <2>1, <2>3
  <2> QED BY <2>2, <2>4
<1> QED BY <1>1, <1>2, <1>3, <1>4 DEF Over, e

(* Two revisions, one over the other, read as their Overlay does: what     *)
(* consolidation rests on.                                                 *)
LEMMA OverOver ==
  ASSUME NEW b \in Readable, NEW d \in Rev, NEW rev \in Rev,
         d.deleted = {}, rev.deleted = {}
  PROVE  Over(Over(b, d), rev) = Over(b, Overlay(d, rev))
<1> DEFINE o == Overlay(d, rev)
           u == Over(b, d)
<1>1. /\ o.entries = d.entries \cup rev.entries
      /\ o.logs = d.logs \o rev.logs
      /\ \A a \in Addr, f \in Field :
           o.fields[a][f] = IF rev.fields[a][f] # NoChange THEN rev.fields[a][f]
                            ELSE d.fields[a][f]
  BY DEF Overlay
<1>2. /\ u.exist = b.exist \cup d.entries
      /\ u.logs = b.logs \o d.logs
      /\ \A a \in Addr, f \in Field :
           u.val[a][f] = IF d.fields[a][f] # NoChange THEN d.fields[a][f] ELSE b.val[a][f]
  BY DEF Over
<1> HIDE DEF o, u
<1>3. u.logs \o rev.logs = b.logs \o o.logs
  <2>1. b.logs \in Seq(Addr) /\ d.logs \in Seq(Addr) /\ rev.logs \in Seq(Addr)
    BY DEF Readable, Rev
  <2>2. (b.logs \o d.logs) \o rev.logs = b.logs \o (d.logs \o rev.logs)
    <3> DEFINE x == b.logs
               y == d.logs
               z == rev.logs
    <3>1. x \in Seq(Addr) /\ y \in Seq(Addr) /\ z \in Seq(Addr)
      BY <2>1
    <3> HIDE DEF x, y, z
    <3>2. (x \o y) \o z = x \o (y \o z)
      BY <3>1, ConcatAssociative
    <3> QED BY <3>2 DEF x, y, z
  <2> QED BY <1>1, <1>2, <2>2
<1>4. u.exist \cup rev.entries = b.exist \cup o.entries
  BY <1>1, <1>2
<1>5. ASSUME NEW a \in Addr, NEW f \in Field
      PROVE  (IF rev.fields[a][f] # NoChange THEN rev.fields[a][f] ELSE u.val[a][f])
               = IF o.fields[a][f] # NoChange THEN o.fields[a][f] ELSE b.val[a][f]
  BY <1>1, <1>2
<1>6. [a \in Addr |-> [f \in Field |->
          IF rev.fields[a][f] # NoChange THEN rev.fields[a][f] ELSE u.val[a][f]]]
        = [a \in Addr |-> [f \in Field |->
             IF o.fields[a][f] # NoChange THEN o.fields[a][f] ELSE b.val[a][f]]]
  BY <1>5
<1>7. Over(u, rev) = Over(b, o)
  BY <1>3, <1>4, <1>6 DEF Over
<1> QED BY <1>7 DEF o, u

-----------------------------------------------------------------------------
(* Consolidation: what merged deltas are and how they read. *)

(* The deltas of a segment, merged one revision after the other. *)
LEMMA MergedEq ==
  ASSUME NEW seg, NEW n \in Nat
  PROVE  /\ Merged(seg, 0) = EmptyRev(0)
         /\ Merged(seg, n + 1) = IF n + 1 \in seg THEN Overlay(Merged(seg, n), heap[n + 1])
                                 ELSE Merged(seg, n)
<1> DEFINE Def(g, i) == IF i = 0 THEN EmptyRev(0)
                        ELSE IF i \in seg THEN Overlay(g[i - 1], heap[i]) ELSE g[i - 1]
           Is(g, k) == g = [i \in 0 .. k |-> Def(g, i)]
           J(k) == CHOOSE g : Is(g, k)

<1>1. \A k : Merged(seg, k) = J(k)[k]
  BY DEF Merged
<1> DEFINE Only(k) == \E g : Is(g, k) /\ \A h : Is(h, k) => h = g
<1>2. Only(0)
  <2> DEFINE g == [i \in 0 .. 0 |-> EmptyRev(0)]
  <2>1. 0 .. 0 = {0}
    OBVIOUS
  <2>2. \A h : Is(h, 0) <=> h = g
    BY <2>1
  <2> QED BY <2>2
<1>3. ASSUME NEW k \in Nat, NEW g, NEW h, Is(g, k), \A x : Is(x, k) => x = g,
             h = [i \in 0 .. k + 1 |-> IF i = k + 1 THEN Def(g, k + 1) ELSE g[i]]
      PROVE  Is(h, k + 1) /\ \A x : Is(x, k + 1) => x = h
  <2>1. /\ DOMAIN g = 0 .. k
        /\ \A i \in 0 .. k : g[i] = Def(g, i)
    BY <1>3
  <2>2. /\ DOMAIN h = 0 .. k + 1
        /\ \A i \in 0 .. k : h[i] = g[i]
        /\ h[k + 1] = Def(g, k + 1)
    BY <1>3
  <2>3. (k + 1) - 1 = k /\ k + 1 # 0 /\ k \in 0 .. k
    OBVIOUS
  <2>4. \A i \in 0 .. k : i # 0 => i - 1 \in 0 .. k
    OBVIOUS
  <2>5. \A i \in 0 .. k + 1 : i \in 0 .. k \/ i = k + 1
    OBVIOUS
  <2>6. \A i \in 0 .. k + 1 : h[i] = Def(h, i)
    BY <2>1, <2>2, <2>3, <2>4, <2>5
  <2>7. Is(h, k + 1)
    BY <1>3, <2>6
  <2>8. ASSUME NEW x, Is(x, k + 1) PROVE x = h
    <3> DEFINE y == [i \in 0 .. k |-> x[i]]
    <3>1. \A i \in 0 .. k + 1 : x[i] = Def(x, i)
      BY <2>8
    <3>2. \A i \in 0 .. k : y[i] = Def(y, i)
      BY <2>4, <3>1
    <3>3. y = g
      BY <1>3, <3>2
    <3>4. \A i \in 0 .. k : x[i] = g[i]
      BY <3>3
    <3>5. x[k + 1] = Def(g, k + 1)
      BY <2>3, <3>1, <3>4
    <3>6. x = [i \in 0 .. k + 1 |-> x[i]]
      <4>1. x = [i \in 0 .. k + 1 |-> Def(x, i)]
        BY <2>8
      <4> HIDE DEF Def
      <4> QED BY <4>1
    <3>7. h = [i \in 0 .. k + 1 |-> h[i]]
      BY <1>3
    <3>8. \A i \in 0 .. k + 1 : x[i] = h[i]
      <4> HIDE DEF Def
      <4> QED BY <2>2, <2>5, <3>4, <3>5
    <3> QED BY <3>6, <3>7, <3>8
  <2> QED BY <2>7, <2>8
<1> HIDE DEF Is
<1>4. \A k \in Nat : Only(k)
  <2> DEFINE S == {k \in Nat : Only(k)}
  <2>1. 0 \in S
    BY <1>2
  <2>2. ASSUME NEW k \in Nat, k \in S PROVE k + 1 \in S
    <3>1. PICK g : Is(g, k) /\ \A x : Is(x, k) => x = g
      BY <2>2
    <3>2. Only(k + 1)
      BY <1>3, <3>1
    <3> QED BY <3>2
  <2> HIDE DEF S
  <2>3. \A k \in Nat : k \in S
    BY <2>1, <2>2, NatInd
  <2> QED BY <2>3 DEF S
<1>5. ASSUME NEW k \in Nat PROVE Is(J(k), k) /\ \A h : Is(h, k) => h = J(k)
  <2>1. PICK g : Is(g, k) /\ \A x : Is(x, k) => x = g
    BY <1>4
  <2>2. Is(J(k), k)
    BY <2>1, Zenon
  <2> QED BY <2>1, <2>2
<1> HIDE DEF J
<1> DEFINE h == [i \in 0 .. n + 1 |-> IF i = n + 1 THEN Def(J(n), n + 1) ELSE J(n)[i]]
<1>6. J(n + 1) = h
  <2>1. Is(h, n + 1)
    BY <1>3, <1>5
  <2> QED BY <1>5, <2>1
<1>7. J(n + 1)[n + 1] = Def(J(n), n + 1)
  <2>1. n + 1 \in 0 .. n + 1
    OBVIOUS
  <2>2. h[n + 1] = Def(J(n), n + 1)
    BY <2>1
  <2> HIDE DEF h, Def
  <2> QED BY <1>6, <2>2
<1>8. J(0)[0] = EmptyRev(0)
  <2>1. Is([i \in 0 .. 0 |-> EmptyRev(0)], 0)
    BY DEF Is
  <2>2. J(0) = [i \in 0 .. 0 |-> EmptyRev(0)]
    BY <1>5, <2>1
  <2> QED BY <2>2
<1>9. (n + 1) - 1 = n /\ n + 1 # 0
  OBVIOUS
<1> QED BY <1>1, <1>7, <1>8, <1>9


LEMMA OverlayType ==
  ASSUME NEW d \in Rev, NEW rev \in Rev
  PROVE  Overlay(d, rev) \in Rev
<1> DEFINE del == (d.deleted \ rev.entries) \cup rev.deleted
           m == [a \in Addr |-> IF a \in del THEN NoFields
                   ELSE [f \in Field |-> IF rev.fields[a][f] # NoChange
                                         THEN rev.fields[a][f] ELSE d.fields[a][f]]]
<1>1. NoFields \in [Field -> Val \cup {NoChange}]
  BY DEF NoFields
<1>2. ASSUME NEW a \in Addr, NEW f \in Field
      PROVE  /\ rev.fields[a][f] \in Val \cup {NoChange}
             /\ d.fields[a][f] \in Val \cup {NoChange}
  BY RevFacts
<1>3. m \in [Addr -> [Field -> Val \cup {NoChange}]]
  BY <1>1, <1>2
<1>4. del \subseteq Addr /\ (d.entries \cup rev.entries) \ del \subseteq Addr
  BY RevFacts
<1>5. d.logs \o rev.logs \in Seq(Addr)
  BY RevFacts, ConcatProperties
<1>6. d.parent \in Nat
  BY RevFacts
<1> HIDE DEF del
<1>7. [parent |-> d.parent, entries |-> (d.entries \cup rev.entries) \ del, fields |-> m,
       deleted |-> del, logs |-> d.logs \o rev.logs] \in Rev
  BY <1>3, <1>4, <1>5, <1>6 DEF Rev
<1> QED BY <1>7 DEF Overlay, del

LEMMA EmptyRevType ==
  ASSUME NEW p \in Nat
  PROVE  EmptyRev(p) \in Rev /\ EmptyRev(p).deleted = {}
BY DEF EmptyRev, Rev, NoFields

LEMMA MergedType ==
  ASSUME heap \in Seq(Rev), NEW seg, seg \subseteq DOMAIN heap, NEW n \in Nat
  PROVE  Merged(seg, n) \in Rev
<1> DEFINE S == {j \in Nat : Merged(seg, j) \in Rev}
<1>1. 0 \in S
  BY MergedEq, EmptyRevType
<1>2. ASSUME NEW j \in Nat, j \in S PROVE j + 1 \in S
  <2>1. Merged(seg, j) \in Rev
    BY <1>2
  <2>2. CASE j + 1 \in seg
    <3>1. heap[j + 1] \in Rev
      BY <2>2, ElementOfSeq
    <3>2. Merged(seg, j + 1) = Overlay(Merged(seg, j), heap[j + 1])
      BY <2>2, MergedEq
    <3> QED BY <2>1, <3>1, <3>2, OverlayType
  <2>3. CASE j + 1 \notin seg
    <3>1. Merged(seg, j + 1) = Merged(seg, j)
      BY <2>3, MergedEq
    <3> QED BY <2>1, <3>1
  <2> QED BY <2>2, <2>3
<1> HIDE DEF S
<1>3. n \in S
  BY <1>1, <1>2, NatInd
<1> QED BY <1>3 DEF S

(* ... and when none of them deletes, read over a base c that is older     *)
(* than the segment, it reads as the segment does.                         *)
LEMMA MergedReads ==
  ASSUME heap \in Seq(Rev), NEW seg, seg \subseteq DOMAIN heap,
         \A r \in DOMAIN heap : heap[r].deleted = {},
         NEW c, c \subseteq DOMAIN heap, \A i \in c, j \in seg : i < j,
         NEW n \in Nat
  PROVE  /\ Merged(seg, n).deleted = {}
         /\ Base(heap, c \cup (seg \cap 1 .. n)) = Over(Base(heap, c), Merged(seg, n))
<1> DEFINE B == Base(heap, c)
           Read(j) == /\ Merged(seg, j).deleted = {}
                      /\ Base(heap, c \cup (seg \cap 1 .. j)) = Over(B, Merged(seg, j))
           S == {j \in Nat : Read(j)}
<1>0. /\ B \in Readable /\ IsSeq(heap)
      /\ DOMAIN heap = 1 .. Len(heap) /\ Len(heap) \in Nat
  <2>1. \A r \in DOMAIN heap : heap[r] \in {heap[i] : i \in DOMAIN heap}
    OBVIOUS
  <2>2. IsSeq(heap)
    BY <2>1, LenProperties, IsASeq DEF IsSeq
  <2> QED BY <2>2, BaseType, IsSeqFacts
<1>1. 0 \in S
  <2>1. Merged(seg, 0) = EmptyRev(0)
    BY MergedEq
  <2>2. seg \cap 1 .. 0 = {}
    OBVIOUS
  <2>3. c \cup (seg \cap 1 .. 0) = c
    BY <2>2
  <2>4. Over(B, EmptyRev(0)) = B /\ EmptyRev(0).deleted = {}
    BY <1>0, OverEmpty, EmptyRevType
  <2> QED BY <2>1, <2>3, <2>4
<1>2. ASSUME NEW j \in Nat, j \in S PROVE j + 1 \in S
  <2> DEFINE e == c \cup (seg \cap 1 .. j)
             d == Merged(seg, j)
             rev == heap[j + 1]
  <2>1. d.deleted = {} /\ Base(heap, e) = Over(B, d)
    BY <1>2
  <2>2. d \in Rev
    BY MergedType
  <2>3. CASE j + 1 \notin seg
    <3>1. Merged(seg, j + 1) = d
      BY <2>3, MergedEq
    <3>2. seg \cap 1 .. j + 1 = seg \cap 1 .. j
      BY <2>3
    <3>3. Read(j + 1)
      <4> HIDE DEF d, e, B
      <4>1. c \cup (seg \cap 1 .. j + 1) = e
        BY <3>2 DEF e
      <4> QED BY <2>1, <3>1, <4>1
    <3> QED BY <3>3
  <2>4. CASE j + 1 \in seg
    <3>1. rev \in Rev /\ rev.deleted = {} /\ j + 1 \in DOMAIN heap
      BY <2>4, ElementOfSeq
    <3>2. Merged(seg, j + 1) = Overlay(d, rev)
      BY <2>4, MergedEq
    <3>3. c \cup (seg \cap 1 .. j + 1) = e \cup {j + 1}
      BY <1>0, <2>4
    <3>4. e \subseteq 1 .. (j + 1) - 1
      BY <1>0, <2>4
    <3>5. rev.entries \subseteq Addr
      BY <3>1, RevFacts
    <3> HIDE DEF e
    <3>6. Base(heap, e \cup {j + 1}) = Over(Base(heap, e), rev)
      BY <1>0, <3>1, <3>4, <3>5, BaseTop
    <3> HIDE DEF d, rev, B
    <3>7. Over(Over(B, d), rev) = Over(B, Overlay(d, rev))
      BY <1>0, <2>1, <2>2, <3>1, OverOver
    <3>8. Overlay(d, rev).deleted = {}
      BY <2>1, <3>1 DEF Overlay
    <3>9. Read(j + 1)
      BY <2>1, <3>2, <3>3, <3>6, <3>7, <3>8
    <3> QED BY <3>9
  <2> QED BY <2>3, <2>4
<1> HIDE DEF S
<1>3. n \in S
  BY <1>1, <1>2, NatInd
<1> QED BY <1>3 DEF S

-----------------------------------------------------------------------------
(* Types. *)

LEMMA GetType ==
  ASSUME NEW H \in Seq(Rev), NEW c, c \subseteq DOMAIN H, NEW a \in Addr, NEW f \in Field
  PROVE  Get(H, c, a, f) \in Val
<1> DEFINE S == Answers(H, c, a, f)
<1>1. Get(H, c, a, f) = IF a \in H[Max(c)].deleted THEN Zero
                        ELSE IF S = {} THEN External(a, f) ELSE H[Max(S)].fields[a][f]
  BY DEF Get, RevWalk, Answers, External
<1>2. External(a, f) \in Val /\ Zero \in Val
  BY MemAssumption DEF External
<1>3. S # {} => H[Max(S)].fields[a][f] \in Val
  <2> SUFFICES ASSUME S # {} PROVE H[Max(S)].fields[a][f] \in Val
    OBVIOUS
  <2>1. S \in SUBSET (1 .. Len(H)) /\ Len(H) \in Nat
    BY LenProperties DEF Answers
  <2> HIDE DEF S
  <2> DEFINE x == Max(S)
  <2>2. x \in S
    BY <2>1, MaxInSet
  <2> HIDE DEF x
  <2>3. x \in DOMAIN H /\ H[x].fields[a][f] # NoChange
    BY <2>2 DEF Answers, S
  <2>4. H[x] \in Rev
    BY <2>3, ElementOfSeq
  <2>5. H[x].fields[a][f] \in Val \cup {NoChange}
    BY <2>4, RevFacts
  <2> QED BY <2>3, <2>5 DEF x
<1> HIDE DEF S
<1> QED BY <1>1, <1>2, <1>3

TypeInv == Inv /\ heap \in Seq(Rev) /\ ops \in 0 .. MaxOps

LEMMA MutTyped ==
  ASSUME TypeInv, NEW h \in Handle, Held(h)
  PROVE  /\ MutHeap(h) \in Seq(Rev)
         /\ MutHeap(h)[MutRev(h)] \in Rev
         /\ MutRev(h) \in DOMAIN MutHeap(h)
         /\ Tree(MutHeap(h))
<1>1. handle[h].rev \in Nat /\ heap \in Seq(Rev)
  BY DEF TypeInv, Inv, Forest, Held
<1>2. EmptyRev(handle[h].rev) \in Rev
  BY <1>1, EmptyRevType
<1>3. MutHeap(h) \in Seq(Rev)
  BY <1>1, <1>2, AppendProperties DEF MutHeap
<1>4. MutRev(h) \in DOMAIN MutHeap(h)
  BY MutHeapFacts DEF TypeInv
<1>5. MutHeap(h)[MutRev(h)] \in Rev
  BY <1>3, <1>4, ElementOfSeq, LenProperties
<1>6. Tree(MutHeap(h))
  BY MutHeapFacts DEF TypeInv, Tree
<1> QED BY <1>3, <1>4, <1>5, <1>6

LEMMA WriteTyped ==
  ASSUME TypeInv, NEW h \in Handle, Held(h), NEW new \in Rev, Write(h, new)
  PROVE  heap' \in Seq(Rev) /\ ops' \in 0 .. MaxOps
<1>1. heap' = [MutHeap(h) EXCEPT ![MutRev(h)] = new] /\ ops < MaxOps /\ ops' = ops + 1
  BY DEF Write, Count
<1>2. MutHeap(h) \in Seq(Rev) /\ MutRev(h) \in DOMAIN MutHeap(h)
  BY MutTyped
<1>3. heap' \in Seq(Rev)
  BY <1>1, <1>2, ExceptSeq, LenProperties
<1>4. MaxOps \in Nat /\ ops \in 0 .. MaxOps
  BY MemAssumption DEF TypeInv
<1> QED BY <1>1, <1>3, <1>4

(* The revisions that the writes leave behind. *)
LEMMA SetFieldRev ==
  ASSUME NEW rev \in Rev, NEW a \in Addr, NEW f \in Field, NEW v \in Val
  PROVE  [rev EXCEPT !.entries = @ \cup {a}, !.fields[a][f] = v] \in Rev
<1> DEFINE F == [rev.fields EXCEPT ![a][f] = v]
<1>1. rev.fields \in [Addr -> [Field -> Val \cup {NoChange}]]
  BY DEF Rev
<1>2. F \in [Addr -> [Field -> Val \cup {NoChange}]]
  BY <1>1
<1> HIDE DEF F
<1>3. [rev EXCEPT !.entries = @ \cup {a}, !.fields = F] \in Rev
  BY <1>2 DEF Rev
<1>4. [rev EXCEPT !.entries = @ \cup {a}, !.fields = F]
        = [rev EXCEPT !.entries = @ \cup {a}, !.fields[a][f] = v]
  BY DEF F, Rev
<1> QED BY <1>3, <1>4

LEMMA CreateRev ==
  ASSUME NEW rev \in Rev, NEW a \in Addr, NEW fs \in [Field -> Val \cup {NoChange}]
  PROVE  [rev EXCEPT !.entries = @ \cup {a}, !.fields[a] = fs, !.deleted = @ \ {a}] \in Rev
BY DEF Rev

LEMMA DeleteRev ==
  ASSUME NEW rev \in Rev, NEW a \in Addr
  PROVE  [rev EXCEPT !.entries = @ \ {a}, !.fields[a] = NoFields, !.deleted = @ \cup {a}]
           \in Rev
<1>1. NoFields \in [Field -> Val \cup {NoChange}]
  BY DEF NoFields
<1> QED BY <1>1 DEF Rev

LEMMA LogRev ==
  ASSUME NEW rev \in Rev, NEW a \in Addr
  PROVE  [rev EXCEPT !.logs = Append(@, a)] \in Rev
<1>1. Append(rev.logs, a) \in Seq(Addr)
  BY AppendProperties DEF Rev
<1> QED BY <1>1 DEF Rev

LEMMA ConsolidatedType ==
  ASSUME TypeInv, NEW r \in DOMAIN heap, NEW steps \in Nat
  PROVE  Consolidated(r, steps) \in Rev
<1> DEFINE seg == Segment(r, steps)
           m == Merge(seg)
           p == heap[Min(seg)].parent
<1>1. seg \subseteq DOMAIN heap
  BY DEF Segment, Ancestry
<1>2. Len(heap) \in Nat /\ heap \in Seq(Rev)
  BY LenProperties DEF TypeInv
<1>3. m \in Rev
  BY <1>1, <1>2, MergedType DEF Merge
<1>4. Consolidated(r, steps) = Onto(p, m)
  BY DEF Consolidated
<1>5. p \in Nat
  <2>1. Consolidated(r, steps).parent = p
    BY <1>4 DEF Onto
  <2>2. PICK i \in 1 .. r : Consolidated(r, steps).parent = heap[i].parent
    BY ConsolidatedParent DEF TypeInv
  <2>3. i \in DOMAIN heap
    BY <1>2, LenProperties
  <2>4. heap[i].parent \in Nat
    BY <2>3 DEF TypeInv, Inv, Forest
  <2> QED BY <2>1, <2>2, <2>4
<1> HIDE DEF m, p
<1> QED BY <1>3, <1>4, <1>5 DEF Onto, Rev

LEMMA NextTyped ==
  ASSUME TypeInv, [Next]_vars
  PROVE  TypeInv'
<1>0. Inv'
  BY NextInv DEF TypeInv
<1>1. CASE UNCHANGED vars
  BY <1>0, <1>1 DEF TypeInv, vars
<1>2. CASE Next
  <2>0. MaxOps \in Nat /\ ops \in 0 .. MaxOps /\ heap \in Seq(Rev) /\ MaxRev \in Nat
    BY MemAssumption DEF TypeInv
  <2>1. PICK h \in Handle :
          \/ \E a \in Addr : \/ \E f \in Field, v \in Val : SetField(h, a, f, v)
                             \/ CreateAccount(h, a)
                             \/ DeleteAccount(h, a)
                             \/ AddLog(h, a)
          \/ AddLogPanics(h)
          \/ \E g \in Handle : \/ Snapshot(h, g)
                               \/ Rollback(h, g)
                               \/ \E steps \in 0 .. MaxRev : Consolidate(h, g, steps)
          \/ Drop(h)
    BY <1>2 DEF Next
  <2> DEFINE Ok == heap' \in Seq(Rev) /\ ops' \in 0 .. MaxOps
  <2>2. ASSUME NEW a \in Addr, NEW f \in Field, NEW v \in Val, SetField(h, a, f, v) PROVE Ok
    <3> DEFINE rev == MutHeap(h)[MutRev(h)]
               new == [rev EXCEPT !.entries = @ \cup {a}, !.fields[a][f] = v]
    <3>1. Held(h) /\ Write(h, new)
      BY <2>2 DEF SetField
    <3>2. new \in Rev
      BY <3>1, MutTyped, SetFieldRev
    <3> HIDE DEF new
    <3> QED BY <3>1, <3>2, WriteTyped
  <2>3. ASSUME NEW a \in Addr, CreateAccount(h, a) PROVE Ok
    <3> DEFINE H == MutHeap(h)
               r == MutRev(h)
               c == Ancestry(H, r)
               fs == [f \in Field |-> CASE f = "balance" -> Get(H, c, a, "balance")
                                        [] f \in Scalar \ {"balance"} -> Zero
                                        [] OTHER -> NoChange]
               new == [H[r] EXCEPT !.entries = @ \cup {a}, !.fields[a] = fs,
                                   !.deleted = @ \ {a}]
    <3>1. Held(h) /\ Write(h, new)
      BY <2>3 DEF CreateAccount
    <3>2. H \in Seq(Rev) /\ H[r] \in Rev
      BY <3>1, MutTyped
    <3>3. c \subseteq DOMAIN H
      BY DEF Ancestry
    <3>4. "balance" \in Field
      BY MemAssumption DEF Field
    <3>5. Get(H, c, a, "balance") \in Val
      BY <3>2, <3>3, <3>4, GetType
    <3> HIDE DEF c, H
    <3>6. fs \in [Field -> Val \cup {NoChange}]
      BY <3>5, MemAssumption
    <3> HIDE DEF fs, r
    <3>7. new \in Rev
      BY <3>2, <3>6, CreateRev
    <3> HIDE DEF new
    <3> QED BY <3>1, <3>7, WriteTyped
  <2>4. ASSUME NEW a \in Addr, DeleteAccount(h, a) PROVE Ok
    <3> DEFINE rev == MutHeap(h)[MutRev(h)]
               new == [rev EXCEPT !.entries = @ \ {a}, !.fields[a] = NoFields,
                                  !.deleted = @ \cup {a}]
    <3>1. Held(h) /\ Write(h, new)
      BY <2>4 DEF DeleteAccount
    <3>2. new \in Rev
      BY <3>1, MutTyped, DeleteRev
    <3> HIDE DEF new
    <3> QED BY <3>1, <3>2, WriteTyped
  <2>5. ASSUME NEW a \in Addr, AddLog(h, a) PROVE Ok
    <3> DEFINE rev == MutHeap(h)[MutRev(h)]
               new == [rev EXCEPT !.logs = Append(@, a)]
    <3>1. Held(h) /\ Write(h, new)
      BY <2>5 DEF AddLog
    <3>2. new \in Rev
      BY <3>1, MutTyped, LogRev
    <3> HIDE DEF new
    <3> QED BY <3>1, <3>2, WriteTyped
  <2>6. ASSUME NEW g \in Handle, NEW steps \in 0 .. MaxRev, Consolidate(h, g, steps) PROVE Ok
    <3> DEFINE r == handle[h].rev
               new == Consolidated(r, steps)
    <3>1. /\ Held(h) /\ Count
          /\ heap' = heap \/ heap' = Append(heap, new)
      BY <2>6 DEF Consolidate
    <3>2. r \in DOMAIN heap /\ steps \in Nat
      BY <2>0, <3>1 DEF TypeInv, Inv, Forest
    <3>3. new \in Rev
      BY <3>2, ConsolidatedType
    <3> HIDE DEF new
    <3>4. heap' \in Seq(Rev)
      BY <2>0, <3>1, <3>3, AppendProperties
    <3> QED BY <2>0, <3>1, <3>4 DEF Count
  <2>7. ASSUME NEW g \in Handle, Snapshot(h, g) \/ Rollback(h, g) \/ Drop(h) PROVE Ok
    <3>1. heap' = heap /\ Count
      BY <2>7 DEF Snapshot, Rollback, Drop
    <3> QED BY <2>0, <3>1 DEF Count
  <2>8. ASSUME AddLogPanics(h) PROVE Ok
    BY <2>8, MutTyped, WriteTyped DEF AddLogPanics
  <2>9. Ok
    BY <2>1, <2>2, <2>3, <2>4, <2>5, <2>6, <2>7, <2>8
  <2> QED BY <1>0, <2>9 DEF TypeInv
<1> QED BY <1>1, <1>2

LEMMA InitTyped ==
  ASSUME Init PROVE TypeInv
<1>1. EmptyRev(0) \in Rev
  BY EmptyRevType
<1>2. heap \in Seq(Rev)
  BY <1>1 DEF Init
<1> QED BY <1>2, InitInv, MemAssumption DEF Init, TypeInv

-----------------------------------------------------------------------------
(* What a write through an object reads as. *)

NoneDeleted == \A r \in DOMAIN heap : heap[r].deleted = {}

(* What the revision h writes to is read over. *)
Beneath(h) == Ancestry(MutHeap(h), MutRev(h)) \ {MutRev(h)}
Ground(h) == Base(MutHeap(h), Beneath(h))

LEMMA GroundType ==
  ASSUME TypeInv, NEW h \in Handle, Held(h)
  PROVE  /\ Ground(h) \in Readable
         /\ Beneath(h) \subseteq DOMAIN MutHeap(h)
         /\ Beneath(h) \subseteq 1 .. MutRev(h) - 1
         /\ Ancestry(MutHeap(h), MutRev(h)) = Beneath(h) \cup {MutRev(h)}
<1>1. MutHeap(h) \in Seq(Rev) /\ MutRev(h) \in DOMAIN MutHeap(h) /\ Tree(MutHeap(h))
  BY MutTyped
<1>2. /\ Beneath(h) \subseteq DOMAIN MutHeap(h)
      /\ Beneath(h) \subseteq 1 .. MutRev(h) - 1
      /\ Ancestry(MutHeap(h), MutRev(h)) = Beneath(h) \cup {MutRev(h)}
  BY <1>1, BelowTop DEF Beneath
<1> QED BY <1>1, <1>2, BaseType DEF Ground

(* convert_mut changes nothing that is read. *)
LEMMA MutReads ==
  ASSUME TypeInv, NoneDeleted, NEW h \in Handle, Held(h)
  PROVE  /\ View(h) = Over(Ground(h), MutHeap(h)[MutRev(h)])
         /\ View(h) = Base(MutHeap(h), Ancestry(MutHeap(h), MutRev(h)))
         /\ \A r \in DOMAIN MutHeap(h) : MutHeap(h)[r].deleted = {}
<1> DEFINE H == MutHeap(h)
           m == MutRev(h)
           p == handle[h].rev
           A == Ancestry(heap, p)
           C == Beneath(h)
<1>1. /\ H \in Seq(Rev) /\ m \in DOMAIN H /\ Tree(H) /\ H[m] \in Rev
      /\ C \subseteq DOMAIN H /\ C \subseteq 1 .. m - 1
      /\ Ancestry(H, m) = C \cup {m}
      /\ Ground(h) \in Readable
  BY MutTyped, GroundType
<1>2. /\ Tree(heap) /\ p \in DOMAIN heap /\ IsSeq(heap)
      /\ DOMAIN heap = 1 .. Len(heap) /\ Len(heap) \in Nat
  BY ForestTree, IsSeqFacts DEF TypeInv, Inv, Forest
<1>3. A \subseteq 1 .. p /\ p \in A /\ A \subseteq DOMAIN heap
  BY <1>2, AncestryBounds, AncestryLeast
<1>4. View(h) = Base(heap, A)
  <2>1. View(h) = Seen(heap, A)
    BY ViewSeen
  <2>2. p \in Nat /\ A # {} /\ \A i \in A : heap[i].deleted = {}
    BY <1>2, <1>3 DEF NoneDeleted
  <2> HIDE DEF A, p
  <2> QED BY <1>3, <2>1, <2>2, SeenIsBase
<1>5. H[m].entries \subseteq Addr
  BY <1>1, RevFacts
<1>6. Base(H, C \cup {m}) = Over(Ground(h), H[m])
  <2>1. IsSeq(H)
    BY <1>1 DEF Tree
  <2> HIDE DEF C, H, m
  <2>2. Base(H, C \cup {m}) = Over(Base(H, C), H[m])
    BY <1>1, <1>5, <2>1, BaseTop
  <2> QED BY <2>2 DEF Ground, C, H
<1>7. CASE handle[h].mutable
  <2>1. H = heap /\ m = p
    BY <1>7 DEF MutHeap, MutRev
  <2> QED BY <1>1, <1>4, <1>6, <2>1 DEF NoneDeleted
<1>8. CASE ~handle[h].mutable
  <2>1. H = Append(heap, EmptyRev(p)) /\ m = Len(heap) + 1
    BY <1>8 DEF MutHeap, MutRev
  <2>2. /\ IsSeq(H) /\ DOMAIN H = 1 .. Len(heap) + 1
        /\ \A i \in DOMAIN heap : H[i] = heap[i]
        /\ H[m] = EmptyRev(p)
    BY <1>2, <2>1, IsSeqAppend
  <2>3. /\ EmptyRev(p).parent = p /\ EmptyRev(p).deleted = {}
    BY DEF EmptyRev
  <2>4. Ancestry(H, p) = A
    <3>1. \A i \in A : i \in DOMAIN H /\ H[i].parent = heap[i].parent
      BY <1>2, <1>3, <2>2
    <3> HIDE DEF H, A
    <3> QED BY <1>2, <3>1, AncestryAgrees DEF A
  <2>5. Ancestry(H, m) = {m} \cup A
    <3>1. H[m].parent = p /\ p # 0
      BY <1>2, <2>2, <2>3
    <3> HIDE DEF H, m, A, p
    <3> QED BY <1>1, <2>4, <3>1, AncestryTail
  <2>6. C = A
    <3>1. m \notin A
      BY <1>2, <1>3, <2>1
    <3> HIDE DEF A, m, H
    <3>2. C = Ancestry(H, m) \ {m}
      BY DEF Beneath, H, m
    <3> QED BY <2>5, <3>1, <3>2
  <2>7. Base(H, A) = Base(heap, A)
    <3>1. /\ A \subseteq DOMAIN H /\ A \subseteq 1 .. Len(heap)
          /\ \A i \in A : H[i] = heap[i]
      BY <1>2, <1>3, <2>2
    <3> HIDE DEF A, H
    <3> QED BY <1>2, <1>3, <2>2, <3>1, BaseAgree
  <2>8. Ground(h) = View(h)
    <3> HIDE DEF A, H, C
    <3> QED BY <1>4, <2>6, <2>7 DEF Ground, C, H
  <2>9. Over(Ground(h), H[m]) = View(h)
    <3> HIDE DEF H, m
    <3> QED BY <1>1, <2>2, <2>8, OverEmpty
  <2>10. \A r \in DOMAIN H : H[r].deleted = {}
    <3>1. ASSUME NEW r \in DOMAIN H PROVE H[r].deleted = {}
      <4>1. r \in DOMAIN heap \/ r = m
        BY <1>2, <2>1, <2>2
      <4> HIDE DEF H, m
      <4> QED BY <2>2, <2>3, <4>1 DEF NoneDeleted
    <3> QED BY <3>1
  <2> HIDE DEF H, m, C
  <2> QED BY <1>1, <1>6, <2>9, <2>10 DEF H, m
<1> QED BY <1>7, <1>8

(* A write of h is read through h over the same ground. *)
LEMMA WriteReads ==
  ASSUME TypeInv, NoneDeleted, NEW h \in Handle, Held(h), NEW new \in Rev,
         new.deleted = {}, new.parent = MutHeap(h)[MutRev(h)].parent, Write(h, new)
  PROVE  View(h)' = Over(Ground(h), new) /\ NoneDeleted'
<1> DEFINE H == MutHeap(h)
           m == MutRev(h)
           A == Ancestry(H, m)
           C == Beneath(h)
           K == [H EXCEPT ![m] = new]
<1>1. /\ H \in Seq(Rev) /\ m \in DOMAIN H /\ Tree(H)
      /\ C \subseteq DOMAIN H /\ C \subseteq 1 .. m - 1
      /\ A = C \cup {m}
  BY MutTyped, GroundType
<1>2. /\ heap' = K
      /\ handle' = [handle EXCEPT ![h] = [rev |-> m, mutable |-> TRUE]]
  BY DEF Write
<1>3. handle'[h].rev = m
  BY <1>2 DEF TypeInv, Inv, Forest
<1>4. \A r \in DOMAIN H : H[r].deleted = {}
  BY MutReads
<1>5. IsSeq(H) /\ DOMAIN H = 1 .. Len(H) /\ Len(H) \in Nat
  BY <1>1, IsSeqFacts DEF Tree
<1>6. new.parent = H[m].parent
  OBVIOUS
<1>7. /\ IsSeq(K) /\ DOMAIN K = DOMAIN H
      /\ \A r \in DOMAIN H : K[r] = IF r = m THEN new ELSE H[r]
  <2> HIDE DEF H, m
  <2> QED BY <1>1, <1>5, IsSeqUpdate
<1>8. View(h)' = Seen(K, Ancestry(K, m))
  <2>1. View(h)' = Seen(heap', Ancestry(heap', handle'[h].rev))
    BY DEF View, Seen
  <2> HIDE DEF K, m
  <2> QED BY <1>2, <1>3, <2>1
<1> HIDE DEF K, m, H, C
<1>9. Ancestry(K, m) = A
  <2>1. \A i \in A : i \in DOMAIN K /\ K[i].parent = H[i].parent
    BY <1>1, <1>6, <1>7
  <2> QED BY <1>1, <2>1, AncestryAgrees
<1>10. \A r \in DOMAIN K : K[r].deleted = {}
  BY <1>4, <1>7
<1>11. Seen(K, A) = Base(K, A)
  <2>1. A \subseteq DOMAIN H
    BY <1>1
  <2>2. A # {} /\ \A i \in A : K[i].deleted = {}
    BY <1>1, <1>7, <1>10, <2>1
  <2>3. A \subseteq 1 .. Len(H)
    BY <1>5, <2>1
  <2> HIDE DEF A
  <2> QED BY <1>5, <2>2, <2>3, SeenIsBase
<1>12. Base(K, C \cup {m}) = Over(Base(K, C), new)
  <2>1. m \in DOMAIN K /\ K[m] = new /\ new.entries \subseteq Addr
    BY <1>1, <1>7, RevFacts
  <2> QED BY <1>1, <1>7, <2>1, BaseTop
<1>13. Base(K, C) = Base(H, C)
  <2>1. m - 1 \in Nat /\ m \notin 1 .. m - 1
    BY <1>1, <1>5
  <2>2. \A i \in C : K[i] = H[i]
    BY <1>1, <1>7, <2>1
  <2>3. C \subseteq DOMAIN K
    BY <1>1, <1>7
  <2> QED BY <1>1, <1>5, <1>7, <2>1, <2>2, <2>3, BaseAgree
<1>14. Base(H, C) = Ground(h)
  BY DEF Ground, C, H
<1>15. View(h)' = Over(Ground(h), new)
  BY <1>1, <1>8, <1>9, <1>11, <1>12, <1>13, <1>14
<1> QED BY <1>2, <1>10, <1>15 DEF NoneDeleted

-----------------------------------------------------------------------------
(* What a consolidated revision reads as. *)

(* What a look-up visits below m is what a look-up from m visits. *)
LEMMA ChainSplit ==
  ASSUME NEW H, Tree(H), NEW r \in DOMAIN H, NEW m \in Ancestry(H, r)
  PROVE  {i \in Ancestry(H, r) : i < m} = Ancestry(H, m) \ {m}
<1> DEFINE A == Ancestry(H, r)
           B == Ancestry(H, m)
           T == B \cup {j \in A : j > m}
<1>1. /\ A \subseteq DOMAIN H /\ ClosedUp(H, A) /\ r \in A /\ A \subseteq 1 .. r
      /\ \A S \in SUBSET DOMAIN H : r \in S /\ ClosedUp(H, S) => A \subseteq S
  BY AncestryLeast, AncestryBounds
<1>2. m \in DOMAIN H /\ DOMAIN H = 1 .. Len(H) /\ Len(H) \in Nat
  BY <1>1, IsSeqFacts DEF Tree
<1>3. /\ B \subseteq DOMAIN H /\ ClosedUp(H, B) /\ m \in B /\ B \subseteq 1 .. m
      /\ \A S \in SUBSET DOMAIN H : m \in S /\ ClosedUp(H, S) => B \subseteq S
  BY <1>2, AncestryLeast, AncestryBounds
<1>4. B \subseteq A
  BY <1>1, <1>3
<1>5. ClosedUp(H, T)
  <2>1. ASSUME NEW j \in A, j > m PROVE H[j].parent \in T
    <3>1. H[j].parent >= m
      BY <2>1, ChainLinear
    <3>2. H[j].parent \in A \cup {0}
      BY <1>1 DEF ClosedUp
    <3>3. H[j].parent \in A
      BY <1>2, <3>1, <3>2
    <3> HIDE DEF A, B
    <3>4. H[j].parent = m \/ H[j].parent > m
      BY <1>1, <1>2, <3>1, <3>3
    <3> QED BY <1>3, <3>3, <3>4
  <2> HIDE DEF A, B
  <2> QED BY <1>3, <2>1 DEF ClosedUp
<1>6. r \in T /\ T \subseteq DOMAIN H
  <2>1. r = m \/ r > m
    BY <1>1, <1>2
  <2> QED BY <1>1, <1>3, <2>1
<1>7. A \subseteq T
  <2> HIDE DEF A, T
  <2> QED BY <1>1, <1>5, <1>6
<1> HIDE DEF A, B
<1>8. \A i \in A : i \in Nat
  BY <1>1, <1>2
<1>9. ASSUME NEW i \in A, i < m PROVE i \in B \ {m}
  BY <1>2, <1>7, <1>8, <1>9
<1>10. ASSUME NEW i \in B \ {m} PROVE i \in A /\ i < m
  BY <1>2, <1>3, <1>4
<1> QED BY <1>9, <1>10 DEF A, B

(* Consolidation merges the newest revisions of the chain, and them only. *)
LEMMA SegmentFacts ==
  ASSUME TypeInv, NEW r \in DOMAIN heap, NEW steps \in Nat
  PROVE  LET A   == Ancestry(heap, r)
             seg == Segment(r, steps)
             m   == Min(seg)
         IN  /\ seg \subseteq A /\ m \in seg /\ m \in A
             /\ A = (Ancestry(heap, m) \ {m}) \cup seg
             /\ \A i \in Ancestry(heap, m) \ {m}, j \in seg : i < j
<1> DEFINE A   == Ancestry(heap, r)
           seg == Segment(r, steps)
           m   == Min(seg)
           Up(i) == {j \in A : j > i}
<1>1. Tree(heap) /\ DOMAIN heap = 1 .. Len(heap) /\ Len(heap) \in Nat
  BY ForestTree, IsSeqFacts DEF TypeInv, Inv, Forest
<1>2. A \subseteq 1 .. r /\ r \in A /\ A \subseteq DOMAIN heap
  BY <1>1, AncestryBounds, AncestryLeast
<1>3. r \in Nat /\ IsFiniteSet(A)
  <2>1. r \in Nat /\ IsFiniteSet(1 .. r)
    BY <1>1, FS_Interval
  <2> QED BY <1>2, <2>1, FS_Subset
<1>4. seg = {i \in A : Cardinality(Up(i)) <= steps}
  BY DEF Segment
<1>5. seg \subseteq A
  BY <1>4
<1>6. r \in seg
  <2>1. Up(r) = {}
    BY <1>2, <1>3
  <2>2. Cardinality(Up(r)) = 0
    BY <2>1, FS_EmptySet
  <2> QED BY <1>2, <1>4, <2>2
<1>7. ASSUME NEW i \in seg, NEW j \in A, j > i PROVE j \in seg
  <2>1. Up(j) \subseteq Up(i)
    BY <1>2, <1>3, <1>5, <1>7
  <2>2. IsFiniteSet(Up(i))
    BY <1>3, FS_Subset
  <2>3. /\ Cardinality(Up(j)) \in Nat /\ Cardinality(Up(i)) \in Nat
        /\ Cardinality(Up(j)) <= Cardinality(Up(i))
        /\ Cardinality(Up(i)) <= steps
    <3> HIDE DEF Up
    <3>1. IsFiniteSet(Up(j)) /\ Cardinality(Up(j)) <= Cardinality(Up(i))
      BY <2>1, <2>2, FS_Subset
    <3> QED BY <1>4, <2>2, <3>1, FS_CardinalityType
  <2>4. Cardinality(Up(j)) <= steps
    <3> HIDE DEF Up
    <3> QED BY <2>3
  <2> QED BY <1>4, <2>4
<1>8. m \in seg /\ \A x \in seg : m <= x
  <2>1. seg \in SUBSET Nat /\ seg # {}
    BY <1>2, <1>5, <1>6
  <2> HIDE DEF seg
  <2> QED BY <2>1, MinInSet
<1> DEFINE C == Ancestry(heap, m) \ {m}
<1> HIDE DEF seg, m
<1>9. {i \in A : i < m} = C
  BY <1>1, <1>5, <1>8, ChainSplit
<1>10. m \in Nat /\ \A i \in A : i \in Nat
  BY <1>2, <1>3, <1>5, <1>8
<1> HIDE DEF A, C
<1>11. A = C \cup seg
  <2>1. ASSUME NEW i \in A PROVE i \in C \cup seg
    <3>1. i < m \/ i = m \/ i > m
      BY <1>10
    <3> QED BY <1>7, <1>8, <1>9, <3>1
  <2> QED BY <1>5, <1>9, <2>1
<1>12. ASSUME NEW i \in C, NEW j \in seg PROVE i < j
  <2>1. i \in Nat /\ j \in Nat /\ i < m /\ m <= j
    BY <1>5, <1>8, <1>9, <1>10
  <2> QED BY <1>10, <2>1
<1> QED BY <1>5, <1>8, <1>11, <1>12 DEF A, C, seg, m

(* The consolidated revision reads as the chain it was made of. *)
LEMMA ConsolidatedReads ==
  ASSUME TypeInv, NoneDeleted, NEW r \in DOMAIN heap, NEW steps \in Nat
  PROVE  LET K == Append(heap, Consolidated(r, steps))
             n == Len(heap) + 1
         IN  /\ Seen(K, Ancestry(K, n)) = Seen(heap, Ancestry(heap, r))
             /\ \A i \in DOMAIN K : K[i].deleted = {}
<1> DEFINE A   == Ancestry(heap, r)
           seg == Segment(r, steps)
           m   == Min(seg)
           p   == heap[m].parent
           C   == Ancestry(heap, m) \ {m}
           d   == Merge(seg)
           new == Consolidated(r, steps)
           K   == Append(heap, new)
           l   == Len(heap)
           n   == l + 1
<1>1. /\ Tree(heap) /\ IsSeq(heap) /\ DOMAIN heap = 1 .. l /\ l \in Nat
      /\ heap \in Seq(Rev)
  BY ForestTree, IsSeqFacts DEF TypeInv, Inv, Forest
<1>2. A \subseteq 1 .. r /\ r \in A /\ A \subseteq DOMAIN heap
  BY <1>1, AncestryBounds, AncestryLeast
<1>3. /\ seg \subseteq A /\ m \in seg /\ m \in A /\ A = C \cup seg
      /\ \A i \in C, j \in seg : i < j
  BY SegmentFacts
<1>4. new = Onto(p, d)
  BY DEF Consolidated
<1>5. new.parent = p /\ new.entries = d.entries /\ new.fields = d.fields
        /\ new.deleted = d.deleted /\ new.logs = d.logs
  <2> HIDE DEF d, p, new
  <2> QED BY <1>4 DEF Onto
<1>6. new \in Rev
  BY ConsolidatedType
<1> HIDE DEF new, seg
<1>7. /\ d.deleted = {}
      /\ Base(heap, A) = Over(Base(heap, C), d)
  <2>1. /\ seg \subseteq DOMAIN heap /\ C \subseteq DOMAIN heap
        /\ \A i \in DOMAIN heap : heap[i].deleted = {}
    BY <1>2, <1>3 DEF NoneDeleted
  <2>2. C \cup (seg \cap 1 .. l) = A
    BY <1>1, <1>3, <2>1
  <2> HIDE DEF C
  <2>3. /\ Merged(seg, l).deleted = {}
        /\ Base(heap, C \cup (seg \cap 1 .. l)) = Over(Base(heap, C), Merged(seg, l))
    BY <1>1, <1>3, <2>1, MergedReads
  <2> QED BY <2>2, <2>3 DEF Merge
<1> HIDE DEF d
<1>8. /\ IsSeq(K) /\ DOMAIN K = 1 .. n
      /\ \A i \in DOMAIN heap : K[i] = heap[i]
      /\ K[n] = new
  BY <1>1, IsSeqAppend
<1> HIDE DEF K
<1>9. p \in 0 .. m - 1 /\ m \in DOMAIN heap /\ m \in 1 .. l
  BY <1>1, <1>2, <1>3 DEF Tree
<1>10. Tree(K)
  <2>1. ASSUME NEW i \in DOMAIN K PROVE K[i].parent \in 0 .. i - 1
    <3>1. CASE i \in DOMAIN heap
      BY <1>1, <1>8, <3>1 DEF Tree
    <3>2. CASE i = n
      BY <1>1, <1>5, <1>8, <1>9, <3>2
    <3> QED BY <1>1, <1>8, <3>1, <3>2
  <2> QED BY <1>8, <2>1 DEF Tree
<1>11. C \subseteq DOMAIN heap
  BY <1>2, <1>3
<1> HIDE DEF m, A
<1>12. Ancestry(K, n) = C \cup {n}
  <2>1. n \in DOMAIN K /\ K[n].parent = p
    BY <1>1, <1>5, <1>8
  <2>2. CASE p = 0
    <3>1. Ancestry(K, n) = {n} /\ Ancestry(heap, m) = {m}
      BY <1>1, <1>9, <1>10, <2>1, <2>2, AncestryTail
    <3> QED BY <3>1
  <2>3. CASE p # 0
    <3>1. p \in DOMAIN heap /\ Ancestry(heap, m) = {m} \cup Ancestry(heap, p)
      BY <1>1, <1>9, <2>3, AncestryTail
    <3>2. Ancestry(K, n) = {n} \cup Ancestry(K, p)
      BY <1>10, <2>1, <2>3, AncestryTail
    <3>3. Ancestry(heap, p) \subseteq DOMAIN heap /\ Ancestry(heap, p) \subseteq 1 .. p
      BY <1>1, <3>1, AncestryBounds, AncestryLeast
    <3>4. \A i \in Ancestry(heap, p) : i \in DOMAIN K /\ K[i].parent = heap[i].parent
      BY <1>1, <1>8, <3>3
    <3> HIDE DEF p
    <3>5. Ancestry(K, p) = Ancestry(heap, p)
      BY <1>1, <3>1, <3>4, AncestryAgrees
    <3>6. m \notin Ancestry(heap, p)
      BY <1>9, <3>1, <3>3
    <3> QED BY <3>1, <3>2, <3>5, <3>6
  <2> QED BY <2>2, <2>3
<1>13. \A i \in DOMAIN K : K[i].deleted = {}
  <2>1. ASSUME NEW i \in DOMAIN K PROVE K[i].deleted = {}
    <3>1. i \in DOMAIN heap \/ i = n
      BY <1>1, <1>8
    <3> QED BY <1>5, <1>7, <1>8, <3>1 DEF NoneDeleted
  <2> QED BY <2>1
<1> HIDE DEF C
<1>14. Base(K, C \cup {n}) = Over(Base(K, C), new)
  <2>1. n \in DOMAIN K /\ C \subseteq 1 .. n - 1 /\ new.entries \subseteq Addr
    BY <1>1, <1>6, <1>8, <1>11, RevFacts
  <2> HIDE DEF n
  <2> QED BY <1>8, <2>1, BaseTop
<1>15. Base(K, C) = Base(heap, C)
  <2>1. C \subseteq DOMAIN K /\ C \subseteq 1 .. l /\ \A i \in C : K[i] = heap[i]
    BY <1>1, <1>8, <1>11
  <2> QED BY <1>1, <1>8, <1>11, <2>1, BaseAgree
<1>16. Over(Base(heap, C), new) = Over(Base(heap, C), d)
  BY <1>5 DEF Over
<1>17. Seen(K, C \cup {n}) = Base(K, C \cup {n})
  <2> DEFINE e == C \cup {n}
  <2>1. n \in Nat /\ e \subseteq 1 .. n /\ e # {} /\ \A i \in e : K[i].deleted = {}
    BY <1>1, <1>8, <1>11, <1>13
  <2> HIDE DEF e, n
  <2> QED BY <2>1, SeenIsBase DEF e
<1>18. Seen(heap, A) = Base(heap, A)
  <2>1. A \subseteq 1 .. l /\ A # {} /\ \A i \in A : heap[i].deleted = {}
    BY <1>1, <1>2 DEF NoneDeleted
  <2> QED BY <1>1, <2>1, SeenIsBase
<1> QED BY <1>7, <1>12, <1>13, <1>14, <1>15, <1>16, <1>17, <1>18 DEF A, K, new, n

-----------------------------------------------------------------------------
(* The flat copies beside the objects. *)

StoreMap == store = [h \in Handle |-> store[h]]

CVInv == TypeInv /\ NoneDeleted /\ StoreMap /\ CheckSame

(* A write that the flat store makes of what h reads. *)
LEMMA WriteSame ==
  ASSUME CVInv, IsSeq(heap'), NEW h \in Handle, Held(h), NEW new \in Rev, new.deleted = {},
         new.parent = MutHeap(h)[MutRev(h)].parent, Write(h, new),
         store' = [store EXCEPT ![h] = Over(Ground(h), new)]
  PROVE  NoneDeleted' /\ StoreMap' /\ CheckSame'
<1>1. View(h)' = Over(Ground(h), new) /\ NoneDeleted'
  BY WriteReads DEF CVInv
<1>2. OnlyThrough(h)
  BY WriteIsolated DEF CVInv, TypeInv
<1>3. \A x \in Handle \ {h} : handle'[x] = handle[x]
  BY DEF Write, CVInv, TypeInv, Inv, Forest
<1>4. store = [x \in Handle |-> store[x]]
  BY DEF CVInv, StoreMap
<1>5. /\ store'[h] = Over(Ground(h), new)
      /\ \A x \in Handle \ {h} : store'[x] = store[x]
      /\ store' = [x \in Handle |-> store'[x]]
  BY <1>4
<1>6. ASSUME NEW x \in Handle, Held(x)' PROVE View(x)' = store'[x]
  <2>1. CASE x = h
    BY <1>1, <1>5, <2>1
  <2>2. CASE x # h
    <3>1. Held(x)
      BY <1>3, <1>6, <2>2 DEF Held
    <3>2. View(x)' = View(x)
      BY <1>2, <1>6, <2>2, <3>1 DEF OnlyThrough
    <3>3. View(x) = store[x]
      BY <3>1 DEF CVInv, CheckSame
    <3> QED BY <1>5, <2>2, <3>2, <3>3
  <2> QED BY <2>1, <2>2
<1>7. CheckSame'
  BY <1>6 DEF CheckSame
<1> QED BY <1>1, <1>5, <1>7 DEF StoreMap

(* h's chain is read as before, through h and through g. *)
LEMMA ShareSame ==
  ASSUME CVInv, IsSeq(heap'), NEW h \in Handle, NEW g \in Handle, NEW r,
         Held(h), ~Held(g), Share(h, g, r), r \in Nat,
         \A i \in DOMAIN heap : i \in DOMAIN heap' /\ heap'[i] = heap[i],
         Seen(heap', Ancestry(heap', r)) = View(h),
         store' = [store EXCEPT ![g] = store[h]]
  PROVE  StoreMap' /\ CheckSame'
<1>1. handle \in [Handle -> [rev : Nat, mutable : BOOLEAN] \cup {Dropped}] /\ h # g
  BY DEF CVInv, TypeInv, Inv, Forest
<1>2. /\ handle'[g] = [rev |-> r, mutable |-> FALSE]
      /\ handle'[h].rev = handle[h].rev
      /\ \A x \in Handle \ {h, g} : handle'[x] = handle[x]
  <2>1. handle[h] \in [rev : Nat, mutable : BOOLEAN]
    BY <1>1 DEF Held
  <2> QED BY <1>1, <2>1 DEF Share
<1>3. handle'[g].rev = r
  BY <1>2
<1>4. View(g)' = View(h)
  <2>1. View(g)' = Seen(heap', Ancestry(heap', handle'[g].rev))
    BY DEF View, Seen
  <2> QED BY <1>3, <2>1
<1>5. OnlyThrough(h)
  BY ShareIsolated DEF CVInv, TypeInv
<1>6. View(h)' = View(h)
  <2>1. Ancestry(heap, handle[h].rev) \subseteq DOMAIN heap
    BY DEF Ancestry
  <2> QED BY <1>2, <2>1, ViewKept DEF CVInv, TypeInv
<1>7. store = [x \in Handle |-> store[x]]
  BY DEF CVInv, StoreMap
<1>8. /\ store'[g] = store[h]
      /\ \A x \in Handle \ {g} : store'[x] = store[x]
      /\ store' = [x \in Handle |-> store'[x]]
  BY <1>7
<1>9. ASSUME NEW x \in Handle, Held(x)' PROVE View(x)' = store'[x]
  <2>1. View(h) = store[h]
    BY DEF CVInv, CheckSame
  <2>2. CASE x = g
    BY <1>4, <1>8, <2>1, <2>2
  <2>3. CASE x = h
    BY <1>1, <1>6, <1>8, <2>1, <2>3
  <2>4. CASE x \notin {h, g}
    <3>1. Held(x)
      BY <1>2, <1>9, <2>4 DEF Held
    <3>2. View(x)' = View(x)
      BY <1>5, <1>9, <2>4, <3>1 DEF OnlyThrough
    <3>3. View(x) = store[x]
      BY <3>1 DEF CVInv, CheckSame
    <3> QED BY <1>8, <2>4, <3>2, <3>3
  <2> QED BY <2>2, <2>3, <2>4
<1>10. CheckSame'
  BY <1>9 DEF CheckSame
<1> QED BY <1>8, <1>10 DEF StoreMap

Same == NoneDeleted' /\ StoreMap' /\ CheckSame'

LEMMA SetFieldSame ==
  ASSUME CVInv, IsSeq(heap'), NEW h \in Handle, NEW a \in Addr, NEW f \in Field,
         NEW v \in Val, SetField(h, a, f, v), Flat!SetField(h, a, f, v)
  PROVE  Same
<1> DEFINE rev == MutHeap(h)[MutRev(h)]
           new == [rev EXCEPT !.entries = @ \cup {a}, !.fields[a][f] = v]
           G == Ground(h)
           u == Over(G, rev)
<1>1. Held(h) /\ Write(h, new)
  BY DEF SetField
<1>2. rev \in Rev /\ View(h) = u /\ rev.deleted = {} /\ G \in Readable
  BY <1>1, MutTyped, MutReads, GroundType DEF CVInv
<1>3. new \in Rev
  BY <1>2, SetFieldRev
<1>4. v # NoChange
  BY MemAssumption
<1>5. store' = [store EXCEPT ![h].exist = @ \cup {a}, ![h].val[a][f] = v]
  BY DEF Flat!SetField
<1>6. store = [x \in Handle |-> store[x]] /\ store[h] = u
  BY <1>1, <1>2 DEF CVInv, StoreMap, CheckSame
<1> HIDE DEF rev
<1>7. /\ new.parent = rev.parent /\ new.deleted = rev.deleted
      /\ new.entries = rev.entries \cup {a} /\ new.logs = rev.logs
      /\ new.fields = [rev.fields EXCEPT ![a][f] = v]
  BY <1>2 DEF Rev
<1>8. ASSUME NEW b \in Addr, NEW e \in Field
      PROVE  new.fields[b][e] = IF b = a /\ e = f THEN v ELSE rev.fields[b][e]
  <2>1. rev.fields \in [Addr -> [Field -> Val \cup {NoChange}]]
    BY <1>2, RevFacts
  <2> HIDE DEF new
  <2> QED BY <1>7, <2>1
<1> HIDE DEF new, G
<1>9. Over(G, new) = [u EXCEPT !.exist = @ \cup {a}, !.val[a][f] = v]
  <2> DEFINE V == [b \in Addr |-> [e \in Field |->
                     IF new.fields[b][e] # NoChange THEN new.fields[b][e] ELSE G.val[b][e]]]
             W == [b \in Addr |-> [e \in Field |->
                     IF rev.fields[b][e] # NoChange THEN rev.fields[b][e] ELSE G.val[b][e]]]
  <2>1. V = [b \in Addr |-> [e \in Field |-> IF b = a /\ e = f THEN v ELSE W[b][e]]]
    BY <1>4, <1>8
  <2>2. W \in [Addr -> [Field -> Val]]
    <3>1. \A b \in Addr, e \in Field : rev.fields[b][e] \in Val \cup {NoChange}
      BY <1>2, RevFacts
    <3>2. \A b \in Addr, e \in Field : G.val[b][e] \in Val
      BY <1>2 DEF Readable
    <3> QED BY <3>1, <3>2
  <2> HIDE DEF V, W
  <2>3. V = [W EXCEPT ![a][f] = v]
    <3>1. [W[a] EXCEPT ![f] = v] = [e \in Field |-> IF e = f THEN v ELSE W[a][e]]
      BY <2>2
    <3>2. ASSUME NEW b \in Addr
          PROVE  V[b] = IF b = a THEN [W[a] EXCEPT ![f] = v] ELSE W[b]
      <4>1. CASE b = a
        BY <2>1, <3>1, <4>1
      <4>2. CASE b # a
        <5>1. V[b] = [e \in Field |-> W[b][e]]
          BY <2>1, <4>2
        <5>2. W[b] = [e \in Field |-> W[b][e]]
          BY <2>2
        <5> QED BY <4>2, <5>1, <5>2
      <4> QED BY <4>1, <4>2
    <3>3. V = [b \in Addr |-> V[b]]
      BY <2>1
    <3>4. [W EXCEPT ![a][f] = v]
            = [b \in Addr |-> IF b = a THEN [W[a] EXCEPT ![f] = v] ELSE W[b]]
      BY <2>2
    <3> QED BY <3>2, <3>3, <3>4
  <2> DEFINE x == G.exist \cup rev.entries
             z == G.logs \o rev.logs
  <2>4. Over(G, new) = [exist |-> x \cup {a}, val |-> V, logs |-> z]
    BY <1>7 DEF Over, V
  <2>5. u = [exist |-> x, val |-> W, logs |-> z]
    BY DEF Over, W
  <2> HIDE DEF u, x, z
  <2>6. [u EXCEPT !.exist = @ \cup {a}, !.val[a][f] = v] = [u EXCEPT !.exist = x \cup {a}, !.val = V]
    <3>1. u.exist = x /\ u.val = W
      BY <2>5
    <3> QED BY <2>3, <3>1
  <2>7. [u EXCEPT !.exist = x \cup {a}, !.val = V] = [exist |-> x \cup {a}, val |-> V, logs |-> z]
    <3> DEFINE y == x \cup {a}
               p == [u EXCEPT !.exist = y]
               q == [p EXCEPT !.val = V]
    <3> HIDE DEF y
    <3>1. p = [exist |-> y, val |-> W, logs |-> z]
      BY <2>5
    <3> HIDE DEF p
    <3>2. q = [exist |-> y, val |-> V, logs |-> z]
      BY <3>1
    <3> QED BY <3>2 DEF p, y
  <2> QED BY <2>4, <2>6, <2>7
<1> HIDE DEF u
<1>10. store' = [store EXCEPT ![h] = Over(G, new)]
  BY <1>5, <1>6, <1>9
<1> QED BY <1>1, <1>2, <1>3, <1>7, <1>10, WriteSame DEF Same, rev, G

LEMMA AddLogSame ==
  ASSUME CVInv, IsSeq(heap'), NEW h \in Handle, NEW a \in Addr,
         AddLog(h, a), Flat!AddLog(h, a)
  PROVE  Same
<1> DEFINE rev == MutHeap(h)[MutRev(h)]
           new == [rev EXCEPT !.logs = Append(@, a)]
           G == Ground(h)
           u == Over(G, rev)
<1>1. Held(h) /\ Write(h, new)
  BY DEF AddLog
<1>2. rev \in Rev /\ View(h) = u /\ rev.deleted = {} /\ G \in Readable
  BY <1>1, MutTyped, MutReads, GroundType DEF CVInv
<1>3. new \in Rev
  BY <1>2, LogRev
<1>5. store' = [store EXCEPT ![h].logs = Append(@, a)]
  BY DEF Flat!AddLog
<1>6. store = [x \in Handle |-> store[x]] /\ store[h] = u
  BY <1>1, <1>2 DEF CVInv, StoreMap, CheckSame
<1> HIDE DEF rev
<1>7. /\ new.parent = rev.parent /\ new.deleted = rev.deleted
      /\ new.entries = rev.entries /\ new.logs = Append(rev.logs, a)
      /\ new.fields = rev.fields
  BY <1>2 DEF Rev
<1> HIDE DEF new, G
<1>8. G.logs \o Append(rev.logs, a) = Append(G.logs \o rev.logs, a)
  <2> DEFINE x == G.logs
             y == rev.logs
  <2>1. x \in Seq(Addr) /\ y \in Seq(Addr)
    BY <1>2 DEF Readable, Rev
  <2> HIDE DEF x, y
  <2>2. x \o Append(y, a) = Append(x \o y, a)
    BY <2>1
  <2> QED BY <2>2 DEF x, y
<1>9. Over(G, new) = [u EXCEPT !.logs = Append(@, a)]
  <2> DEFINE x == G.exist \cup rev.entries
             W == [b \in Addr |-> [e \in Field |->
                     IF rev.fields[b][e] # NoChange THEN rev.fields[b][e] ELSE G.val[b][e]]]
             z == G.logs \o rev.logs
  <2>1. u = [exist |-> x, val |-> W, logs |-> z]
    BY DEF Over
  <2>2. Over(G, new) = [exist |-> x, val |-> W, logs |-> Append(z, a)]
    BY <1>7, <1>8 DEF Over
  <2> HIDE DEF u, x, W, z
  <2>3. u.logs = z
    BY <2>1
  <2>4. [u EXCEPT !.logs = Append(z, a)] = [exist |-> x, val |-> W, logs |-> Append(z, a)]
    <3> DEFINE y == Append(z, a)
    <3> HIDE DEF y
    <3>1. [u EXCEPT !.logs = y] = [exist |-> x, val |-> W, logs |-> y]
      BY <2>1
    <3> QED BY <3>1 DEF y
  <2> QED BY <2>2, <2>3, <2>4
<1> HIDE DEF u
<1>10. store' = [store EXCEPT ![h] = Over(G, new)]
  BY <1>5, <1>6, <1>9
<1> QED BY <1>1, <1>2, <1>3, <1>7, <1>10, WriteSame DEF Same, rev, G

LEMMA AddLogPanicsSame ==
  ASSUME CVInv, IsSeq(heap'), NEW h \in Handle, AddLogPanics(h), UNCHANGED store
  PROVE  Same
<1> DEFINE rev == MutHeap(h)[MutRev(h)]
           u == Over(Ground(h), rev)
<1>1. Held(h) /\ Write(h, rev)
  BY DEF AddLogPanics
<1>2. rev \in Rev /\ View(h) = u /\ rev.deleted = {}
  BY <1>1, MutTyped, MutReads DEF CVInv
<1>3. store = [x \in Handle |-> store[x]] /\ store[h] = u
  BY <1>1, <1>2 DEF CVInv, StoreMap, CheckSame
<1> HIDE DEF rev, u
<1>4. store' = [store EXCEPT ![h] = u]
  BY <1>3
<1> QED BY <1>1, <1>2, <1>4, WriteSame DEF Same, rev, u

LEMMA CreateSame ==
  ASSUME CVInv, Deletes = {}, IsSeq(heap'), NEW h \in Handle, NEW a \in Addr,
         CreateAccount(h, a), Flat!CreateAccount(h, a)
  PROVE  Same
<1> DEFINE H == MutHeap(h)
           m == MutRev(h)
           rev == H[m]
           A == Ancestry(H, m)
           fs == [f \in Field |-> CASE f = "balance" -> Get(H, A, a, "balance")
                                    [] f \in Scalar \ {"balance"} -> Zero
                                    [] OTHER -> NoChange]
           new == [rev EXCEPT !.entries = @ \cup {a}, !.fields[a] = fs, !.deleted = @ \ {a}]
           G == Ground(h)
           u == Over(G, rev)
           bal == u.val[a]["balance"]
           created == [Flat!Blank EXCEPT !["balance"] = bal]
<1>1. Held(h) /\ Write(h, new) /\ NeverStored(H, A, a)
  BY DEF CreateAccount
<1>2. /\ rev \in Rev /\ View(h) = u /\ rev.deleted = {} /\ G \in Readable
      /\ H \in Seq(Rev) /\ m \in DOMAIN H /\ View(h) = Base(H, A)
      /\ \A i \in DOMAIN H : H[i].deleted = {}
      /\ Beneath(h) \subseteq DOMAIN H /\ A = Beneath(h) \cup {m}
  BY <1>1, MutTyped, MutReads, GroundType DEF CVInv
<1>3. "balance" \in Scalar /\ "balance" \in Field /\ Field = Scalar \cup Key
      /\ Zero \in Val /\ NoChange \notin Val
  BY MemAssumption DEF Field
<1>4. A \subseteq DOMAIN H /\ DOMAIN H = 1 .. Len(H) /\ Len(H) \in Nat
  BY <1>2, LenProperties
<1>5. Get(H, A, a, "balance") = bal /\ bal \in Val
  <2>1. Seen(H, A) = Base(H, A)
    <3>1. A \subseteq 1 .. Len(H) /\ A # {} /\ \A i \in A : H[i].deleted = {}
      BY <1>2, <1>4
    <3> HIDE DEF A, H
    <3> QED BY <1>4, <3>1, SeenIsBase
  <2>2. Seen(H, A).val[a]["balance"] = Get(H, A, a, "balance")
    <3> HIDE DEF A, H
    <3> QED BY <1>3 DEF Seen
  <2>3. Get(H, A, a, "balance") = bal
    <3> HIDE DEF A, H, u
    <3> QED BY <1>2, <2>1, <2>2
  <2>4. Get(H, A, a, "balance") \in Val
    <3> HIDE DEF A, H
    <3> QED BY <1>2, <1>3, <1>4, GetType
  <2> QED BY <2>3, <2>4
<1>6. ASSUME NEW k \in Key PROVE G.val[a][k] = Zero
  <2> DEFINE C == Beneath(h)
             S == Answers(H, C, a, k)
  <2>1. G.val[a][k] = Look(H, C, a, k)
    BY <1>3 DEF Ground, Base, Looks
  <2>2. /\ \A i \in A : H[i].fields[a][k] \in {NoChange, Zero}
        /\ a \in Origin => OriginVal[k] = Zero
    BY <1>1 DEF NeverStored
  <2>3. CASE S = {}
    BY <2>1, <2>2, <2>3 DEF Look, External
  <2>4. CASE S # {}
    <3>1. S \in SUBSET (1 .. Len(H))
      BY <1>2, <1>4 DEF Answers
    <3> HIDE DEF S
    <3> DEFINE x == Max(S)
    <3>2. x \in S
      BY <1>4, <2>4, <3>1, MaxInSet
    <3>3. Look(H, C, a, k) = H[x].fields[a][k]
      BY <2>4 DEF Look, S
    <3> HIDE DEF x, A, H, C
    <3>4. x \in C /\ H[x].fields[a][k] # NoChange
      BY <3>2 DEF Answers, S
    <3>5. x \in A
      BY <1>2, <3>4 DEF C
    <3> QED BY <2>1, <2>2, <3>3, <3>4, <3>5
  <2> QED BY <2>3, <2>4
<1>7. store' = [store EXCEPT
                  ![h].exist  = @ \cup {a},
                  ![h].val[a] = [Flat!Blank EXCEPT !["balance"] = store[h].val[a]["balance"]]]
  BY DEF Flat!CreateAccount
<1>8. store = [x \in Handle |-> store[x]] /\ store[h] = u
  BY <1>1, <1>2 DEF CVInv, StoreMap, CheckSame
<1> HIDE DEF A, H, m
<1>9. /\ \A f \in Scalar \ {"balance"} : fs[f] = Zero
      /\ \A f \in Key : fs[f] = NoChange
      /\ fs["balance"] = bal
      /\ fs \in [Field -> Val \cup {NoChange}]
  <2> HIDE DEF bal
  <2>1. Scalar \cap Key = {}
    BY MemAssumption
  <2> QED BY <1>3, <1>5, <2>1
<1>10. /\ \A f \in Field \ {"balance"} : created[f] = Zero
       /\ created["balance"] = bal
       /\ created = [f \in Field |-> created[f]]
  <2> HIDE DEF bal
  <2>1. Flat!Blank = [f \in Field |-> Zero]
    BY DEF Flat!Blank, Flat!Field, Field
  <2> QED BY <1>3, <2>1
<1> HIDE DEF fs, rev, bal
<1>11. new \in Rev
  BY <1>2, <1>9, CreateRev
<1>12. /\ new.parent = rev.parent /\ new.deleted = {}
       /\ new.entries = rev.entries \cup {a} /\ new.logs = rev.logs
       /\ new.fields = [rev.fields EXCEPT ![a] = fs]
  BY <1>2 DEF Rev
<1>13. ASSUME NEW b \in Addr
       PROVE  new.fields[b] = IF b = a THEN fs ELSE rev.fields[b]
  <2>1. rev.fields \in [Addr -> [Field -> Val \cup {NoChange}]]
    BY <1>2, RevFacts
  <2> HIDE DEF new
  <2> QED BY <1>12, <2>1
<1> HIDE DEF new, G, created
<1>14. ASSUME NEW e \in Field
       PROVE  (IF fs[e] # NoChange THEN fs[e] ELSE G.val[a][e]) = created[e]
  <2>1. CASE e = "balance"
    BY <1>3, <1>5, <1>9, <1>10, <2>1
  <2>2. CASE e \in Scalar \ {"balance"}
    BY <1>3, <1>9, <1>10, <2>2
  <2>3. CASE e \in Key /\ e # "balance"
    BY <1>3, <1>6, <1>9, <1>10, <2>3
  <2> QED BY <1>3, <2>1, <2>2, <2>3
<1>15. Over(G, new) = [u EXCEPT !.exist = @ \cup {a}, !.val[a] = created]
  <2> DEFINE V == [b \in Addr |-> [e \in Field |->
                     IF new.fields[b][e] # NoChange THEN new.fields[b][e] ELSE G.val[b][e]]]
             W == [b \in Addr |-> [e \in Field |->
                     IF rev.fields[b][e] # NoChange THEN rev.fields[b][e] ELSE G.val[b][e]]]
  <2>1. ASSUME NEW b \in Addr, b # a PROVE V[b] = W[b]
    BY <1>13, <2>1
  <2>2. V[a] = created
    <3>1. V[a] = [e \in Field |->
                    IF new.fields[a][e] # NoChange THEN new.fields[a][e] ELSE G.val[a][e]]
      OBVIOUS
    <3>2. new.fields[a] = fs
      BY <1>13
    <3>3. V[a] = [e \in Field |-> IF fs[e] # NoChange THEN fs[e] ELSE G.val[a][e]]
      BY <3>1, <3>2
    <3>4. V[a] = [e \in Field |-> created[e]]
      BY <1>14, <3>3
    <3> QED BY <1>10, <3>4
  <2>3. V = [b \in Addr |-> V[b]] /\ W = [b \in Addr |-> W[b]]
    OBVIOUS
  <2>4. DOMAIN W = Addr
    OBVIOUS
  <2> DEFINE x == G.exist \cup rev.entries
             z == G.logs \o rev.logs
  <2>5. Over(G, new) = [exist |-> x \cup {a}, val |-> V, logs |-> z]
    BY <1>12 DEF Over
  <2>6. u = [exist |-> x, val |-> W, logs |-> z]
    BY DEF Over
  <2> HIDE DEF V, W
  <2>7. V = [W EXCEPT ![a] = created]
    BY <2>1, <2>2, <2>3, <2>4
  <2> HIDE DEF u, x, z
  <2>8. [u EXCEPT !.exist = @ \cup {a}, !.val[a] = created]
          = [u EXCEPT !.exist = x \cup {a}, !.val = V]
    <3>1. u.exist = x /\ u.val = W
      BY <2>6
    <3> QED BY <2>7, <3>1
  <2>9. [u EXCEPT !.exist = x \cup {a}, !.val = V]
          = [exist |-> x \cup {a}, val |-> V, logs |-> z]
    <3> DEFINE y == x \cup {a}
               p == [u EXCEPT !.exist = y]
               q == [p EXCEPT !.val = V]
    <3> HIDE DEF y
    <3>1. p = [exist |-> y, val |-> W, logs |-> z]
      BY <2>6
    <3> HIDE DEF p
    <3>2. q = [exist |-> y, val |-> V, logs |-> z]
      BY <3>1
    <3> QED BY <3>2 DEF p, y
  <2> QED BY <2>5, <2>8, <2>9
<1>16. store' = [store EXCEPT ![h].exist  = @ \cup {a}, ![h].val[a] = created]
  BY <1>7, <1>8 DEF created, bal
<1> HIDE DEF u
<1>17. store' = [store EXCEPT ![h] = Over(G, new)]
  BY <1>8, <1>15, <1>16
<1> QED BY <1>1, <1>11, <1>12, <1>17, WriteSame DEF Same, rev, G, H, m

LEMMA SnapshotSame ==
  ASSUME CVInv, IsSeq(heap'), NEW h \in Handle, NEW g \in Handle,
         Snapshot(h, g), Flat!Copy(h, g)
  PROVE  Same
<1>1. Held(h) /\ ~Held(g) /\ Share(h, g, handle[h].rev) /\ heap' = heap
  BY DEF Snapshot
<1>2. store' = [store EXCEPT ![g] = store[h]]
  BY DEF Flat!Copy
<1>3. handle[h].rev \in Nat
  BY <1>1 DEF CVInv, TypeInv, Inv, Forest, Held
<1>4. Seen(heap', Ancestry(heap', handle[h].rev)) = View(h)
  BY <1>1, ViewSeen
<1>5. StoreMap' /\ CheckSame'
  BY <1>1, <1>2, <1>3, <1>4, ShareSame
<1> QED BY <1>1, <1>5 DEF Same, CVInv, NoneDeleted

LEMMA ConsolidateSame ==
  ASSUME CVInv, IsSeq(heap'), NEW h \in Handle, NEW g \in Handle, NEW steps \in Nat,
         Consolidate(h, g, steps), Flat!Copy(h, g)
  PROVE  Same
<1> DEFINE r == handle[h].rev
           K == Append(heap, Consolidated(r, steps))
           n == Len(heap) + 1
<1>1. Held(h) /\ ~Held(g) /\ store' = [store EXCEPT ![g] = store[h]]
  BY DEF Consolidate, Flat!Copy
<1>2. r \in DOMAIN heap /\ r \in Nat /\ IsSeq(heap) /\ Len(heap) \in Nat
  BY <1>1, IsSeqFacts DEF CVInv, TypeInv, Inv, Forest, Held
<1>3. CASE heap[r].parent = 0
  <2>1. heap' = heap /\ Share(h, g, r)
    BY <1>3 DEF Consolidate
  <2>2. Seen(heap', Ancestry(heap', r)) = View(h)
    BY <2>1, ViewSeen
  <2>3. StoreMap' /\ CheckSame'
    BY <1>1, <1>2, <2>1, <2>2, ShareSame
  <2> QED BY <2>1, <2>3 DEF Same, CVInv, NoneDeleted
<1>4. CASE heap[r].parent # 0
  <2>1. heap' = K /\ Share(h, g, n)
    BY <1>4 DEF Consolidate
  <2>2. /\ Seen(K, Ancestry(K, n)) = Seen(heap, Ancestry(heap, r))
        /\ \A i \in DOMAIN K : K[i].deleted = {}
    BY <1>2, ConsolidatedReads DEF CVInv
  <2>3. \A i \in DOMAIN heap : i \in DOMAIN K /\ K[i] = heap[i]
    <3> DEFINE new == Consolidated(r, steps)
    <3> HIDE DEF new
    <3>1. /\ DOMAIN Append(heap, new) = 1 .. n
          /\ \A i \in DOMAIN heap : Append(heap, new)[i] = heap[i]
          /\ DOMAIN heap = 1 .. Len(heap)
      BY <1>2, IsSeqAppend, IsSeqFacts
    <3>2. \A i \in DOMAIN heap : i \in 1 .. n
      BY <1>2, <3>1
    <3> QED BY <3>1, <3>2 DEF new
  <2> HIDE DEF K
  <2>4. Seen(heap', Ancestry(heap', n)) = View(h)
    BY <2>1, <2>2, ViewSeen
  <2>5. n \in Nat
    BY <1>2
  <2> HIDE DEF n
  <2>6. StoreMap' /\ CheckSame'
    BY <1>1, <2>1, <2>3, <2>4, <2>5, ShareSame
  <2> QED BY <2>1, <2>2, <2>6 DEF Same, NoneDeleted
<1> QED BY <1>3, <1>4

(* Dropping g, or handing what it holds over to h. *)
LEMMA RollbackSame ==
  ASSUME CVInv, NEW h \in Handle, NEW g \in Handle, Rollback(h, g), Flat!Rollback(h, g)
  PROVE  Same
<1>1. /\ Held(h) /\ Held(g) /\ g # h /\ heap' = heap
      /\ handle' = [handle EXCEPT ![h] = handle[g], ![g] = Dropped]
      /\ store' = [store EXCEPT ![h] = store[g], ![g] = Dropped]
      /\ handle \in [Handle -> [rev : Nat, mutable : BOOLEAN] \cup {Dropped}]
      /\ store = [x \in Handle |-> store[x]]
  BY DEF Rollback, Flat!Rollback, CVInv, StoreMap, TypeInv, Inv, Forest
<1>2. /\ handle'[h] = handle[g] /\ handle'[g] = Dropped
      /\ \A x \in Handle \ {h, g} : handle'[x] = handle[x]
  BY <1>1
<1>3. /\ store'[h] = store[g]
      /\ \A x \in Handle \ {h, g} : store'[x] = store[x]
      /\ store' = [x \in Handle |-> store'[x]]
  BY <1>1
<1>4. ASSUME NEW x \in Handle, Held(x)' PROVE View(x)' = store'[x]
  <2> DEFINE y == IF x = h THEN g ELSE x
  <2>1. x # g /\ Held(y) /\ y \in Handle /\ handle'[x] = handle[y] /\ store'[x] = store[y]
    BY <1>1, <1>2, <1>3, <1>4 DEF Held
  <2> HIDE DEF y
  <2>2. View(y) = store[y]
    BY <2>1 DEF CVInv, CheckSame
  <2>3. View(x)' = Seen(heap', Ancestry(heap', handle'[x].rev))
    BY DEF View, Seen
  <2>4. View(x)' = View(y)
    BY <1>1, <2>1, <2>3, ViewSeen
  <2> QED BY <2>1, <2>2, <2>4
<1>5. CheckSame'
  BY <1>4 DEF CheckSame
<1> QED BY <1>1, <1>3, <1>5 DEF Same, StoreMap, CVInv, NoneDeleted

LEMMA DropSame ==
  ASSUME CVInv, NEW g \in Handle, Drop(g), Flat!Drop(g)
  PROVE  Same
<1>1. /\ Held(g) /\ heap' = heap
      /\ handle' = [handle EXCEPT ![g] = Dropped]
      /\ store' = [store EXCEPT ![g] = Dropped]
      /\ handle \in [Handle -> [rev : Nat, mutable : BOOLEAN] \cup {Dropped}]
      /\ store = [x \in Handle |-> store[x]]
  BY DEF Drop, Flat!Drop, CVInv, StoreMap, TypeInv, Inv, Forest
<1>2. /\ handle'[g] = Dropped
      /\ \A x \in Handle \ {g} : handle'[x] = handle[x] /\ store'[x] = store[x]
      /\ store' = [x \in Handle |-> store'[x]]
  BY <1>1
<1>3. ASSUME NEW x \in Handle, Held(x)' PROVE View(x)' = store'[x]
  <2>1. Held(x) /\ handle'[x] = handle[x] /\ store'[x] = store[x]
    BY <1>2, <1>3 DEF Held
  <2>2. View(x) = store[x]
    BY <2>1 DEF CVInv, CheckSame
  <2>3. View(x)' = Seen(heap', Ancestry(heap', handle'[x].rev))
    BY DEF View, Seen
  <2> QED BY <1>1, <2>1, <2>2, <2>3, ViewSeen
<1>4. CheckSame'
  BY <1>3 DEF CheckSame
<1> QED BY <1>1, <1>2, <1>4 DEF Same, StoreMap, CVInv, NoneDeleted

LEMMA CVInitInv ==
  ASSUME CVInit PROVE CVInv
<1> DEFINE e == EmptyRev(0)
           w == [exist |-> Origin,
                 val   |-> [a \in Addr |-> IF a \in Origin THEN OriginVal ELSE Flat!Blank],
                 logs  |-> << >>]
<1>1. TypeInv
  BY InitTyped DEF CVInit
<1>2. heap = <<e>> /\ handle = [h \in Handle |->
                 IF h = Initial THEN [rev |-> 1, mutable |-> FALSE] ELSE Dropped]
  BY DEF CVInit, Init
<1>3. store = [h \in Handle |-> IF h = Initial THEN w ELSE Dropped]
  BY DEF CVInit, Flat!Init
<1>4. e \in Rev /\ e.deleted = {} /\ e.parent = 0 /\ e.logs = << >> /\ e.entries = {}
      /\ \A a \in Addr, f \in Field : e.fields[a][f] = NoChange
  BY DEF EmptyRev, Rev, NoFields
<1> HIDE DEF e
<1>5. DOMAIN heap = {1} /\ heap[1] = e /\ Len(heap) = 1
  BY <1>2
<1>6. NoneDeleted
  BY <1>4, <1>5 DEF NoneDeleted
<1>7. Ancestry(heap, 1) = {1}
  BY <1>1, <1>4, <1>5, AncestryTail, ForestTree DEF TypeInv, Inv
<1>8. Base(heap, {1}) = w
  <2>1. Known(heap, {1}) = Origin
    BY <1>4, <1>5, MemAssumption DEF Known
  <2>2. ASSUME NEW a \in Addr, NEW f \in Field PROVE Look(heap, {1}, a, f) = External(a, f)
    BY <1>4, <1>5 DEF Look, Answers
  <2>3. Looks(heap, {1}) = w.val
    <3>1. ASSUME NEW a \in Addr
          PROVE  (IF a \in Origin THEN OriginVal ELSE Flat!Blank)
                   = [f \in Field |-> External(a, f)]
      <4>1. OriginVal = [f \in Field |-> OriginVal[f]]
        BY MemAssumption
      <4>2. Flat!Blank = [f \in Field |-> Zero]
        BY DEF Flat!Blank, Flat!Field, Field
      <4> QED BY <4>1, <4>2 DEF External
    <3> QED BY <2>2, <3>1 DEF Looks
  <2>4. Logs(heap, {1}) = << >>
    <3> DEFINE c == {1}
               z == 0
    <3>1. z \in Nat /\ z + 1 = 1 /\ z + 1 \in c
      OBVIOUS
    <3> HIDE DEF c, z
    <3>2. Joined(heap, c, z + 1) = Joined(heap, c, z) \o heap[z + 1].logs
      BY <3>1, JoinedEq
    <3>3. Joined(heap, c, 0) = << >>
      BY JoinedEq
    <3>4. << >> \o << >> = << >>
      OBVIOUS
    <3> QED BY <1>4, <1>5, <3>1, <3>2, <3>3, <3>4 DEF Logs, c, z
  <2> QED BY <2>1, <2>3, <2>4 DEF Base
<1>9. Seen(heap, {1}) = Base(heap, {1})
  <2>1. {1} \subseteq 1 .. 1 /\ \A i \in {1} : heap[i].deleted = {}
    BY <1>4, <1>5
  <2> QED BY <2>1, SeenIsBase
<1> HIDE DEF w
<1>10. ASSUME NEW h \in Handle, Held(h) PROVE View(h) = store[h]
  <2>1. h = Initial
    BY <1>2, <1>10 DEF Held
  <2>2. handle[h].rev = 1 /\ store[h] = w
    BY <1>2, <1>3, <2>1
  <2> QED BY <1>7, <1>8, <1>9, <2>2, ViewSeen
<1>11. CheckSame
  BY <1>10 DEF CheckSame
<1>12. StoreMap
  BY <1>3 DEF StoreMap
<1> QED BY <1>1, <1>6, <1>11, <1>12 DEF CVInv

LEMMA CVNextInv ==
  ASSUME Deletes = {}, CVInv, [CVNext]_<<vars, store>>
  PROVE  CVInv'
<1>1. CASE UNCHANGED <<vars, store>>
  <2>1. heap' = heap /\ handle' = handle /\ ops' = ops /\ store' = store
    BY <1>1 DEF vars
  <2>2. ASSUME NEW x \in Handle PROVE View(x)' = View(x)
    BY <2>1 DEF View
  <2>3. TypeInv'
    BY <2>1, NextTyped DEF vars, CVInv
  <2> QED BY <2>1, <2>2, <2>3 DEF CVInv, NoneDeleted, StoreMap, CheckSame, Held
<1>2. CASE CVNext
  <2>1. PICK h \in Handle :
          \/ \E a \in Addr :
               \/ \E f \in Field, v \in Val : SetField(h, a, f, v) /\ Flat!SetField(h, a, f, v)
               \/ CreateAccount(h, a) /\ Flat!CreateAccount(h, a)
               \/ AddLog(h, a) /\ Flat!AddLog(h, a)
          \/ AddLogPanics(h) /\ UNCHANGED store
          \/ \E g \in Handle :
               \/ Snapshot(h, g) /\ Flat!Copy(h, g)
               \/ Rollback(h, g) /\ Flat!Rollback(h, g)
               \/ \E steps \in 0 .. MaxRev : Consolidate(h, g, steps) /\ Flat!Copy(h, g)
          \/ Drop(h) /\ Flat!Drop(h)
    BY <1>2 DEF CVNext
  <2>2. Next
    BY <2>1 DEF Next
  <2>3. TypeInv'
    BY <2>2, NextTyped DEF CVInv
  <2>4. IsSeq(heap')
    BY <2>3 DEF TypeInv, Inv, Forest
  <2>5. 0 .. MaxRev \subseteq Nat
    BY MemAssumption
  <2>6. Same
    BY <2>1, <2>4, <2>5, SetFieldSame, CreateSame, AddLogSame, AddLogPanicsSame,
       SnapshotSame, RollbackSame, ConsolidateSame, DropSame
  <2> QED BY <2>3, <2>6 DEF CVInv, Same
<1> QED BY <1>1, <1>2

-----------------------------------------------------------------------------
(* However the objects of the clients are created, snapshotted, rolled     *)
(* back, consolidated and dropped, every chain of revisions is well-       *)
(* founded: rev_walk! and consolidate end (state.rs:79-98, 260-325).       *)
THEOREM ChainsWellFounded == Spec => []Forest
<1>1. Init => Inv
  BY InitInv
<1>2. Inv /\ [Next]_vars => Inv'
  BY NextInv
<1>3. Inv => Forest
  BY DEF Inv
<1> QED BY <1>1, <1>2, <1>3, PTL DEF Spec

(* A revision that convert_mut hands out for writing in place is held by   *)
(* no other object and no revision rests on it (state.rs:492-524).         *)
THEOREM WritesAreOwned == Spec => []OwnedRevision
<1>1. Init => Inv
  BY InitInv
<1>2. Inv /\ [Next]_vars => Inv'
  BY NextInv
<1>3. Inv => OwnedRevision
  BY DEF Inv
<1> QED BY <1>1, <1>2, <1>3, PTL DEF Spec

(* Once a revision is shared it never changes again: what a snapshot was   *)
(* taken of stays readable through it (state.rs:580-588).                  *)
THEOREM SharedNeverChanges == Spec => FrozenForever
<1>1. Init => Inv
  BY InitInv
<1>2. Inv /\ [Next]_vars => Inv'
  BY NextInv
<1>3. Inv /\ [Next]_vars =>
        [\A r \in DOMAIN heap :
            Frozen(r) => r \in DOMAIN heap' /\ heap'[r] = heap[r]]_vars
  BY NextInv DEF FrozenStep
<1> QED BY <1>1, <1>2, <1>3, PTL DEF Spec, FrozenForever

(* However much two objects share, no operation changes what is read       *)
(* through both: writes, rollback and consolidation of one object leave    *)
(* the accounts, values and logs of every other (state.rs:463-589).        *)
THEOREM ObjectsAreIsolated == Spec => Isolation
<1>1. Init => Inv
  BY InitInv
<1>2. Inv /\ [Next]_vars => Inv'
  BY NextInv
<1>3. Inv /\ [Next]_vars =>
        [\A h, g \in {x \in Handle : Held(x) /\ Held(x)' /\ View(x)' # View(x)} :
            h = g]_vars
  <2> SUFFICES ASSUME Inv, Next
               PROVE  \A h, g \in {x \in Handle : Held(x) /\ Held(x)' /\ View(x)' # View(x)} :
                        h = g
    OBVIOUS
  <2>1. PICK o \in Handle : OnlyThrough(o)
    BY NextIsolated
  <2> QED BY <2>1 DEF OnlyThrough
<1> QED BY <1>1, <1>2, <1>3, PTL DEF Spec, Isolation

(* The deltas in the heap stay maps of the right types whatever is         *)
(* written, deleted, snapshotted and consolidated (state.rs:13-44).        *)
THEOREM MemTypes == Spec => []TypeOK
<1>1. Init => TypeInv
  BY InitTyped
<1>2. TypeInv /\ [Next]_vars => TypeInv'
  BY NextTyped
<1>3. TypeInv => TypeOK
  BY DEF TypeInv, TypeOK, Inv
<1> QED BY <1>1, <1>2, <1>3, PTL DEF Spec

(* Where no account is deleted, every object reads exactly as a flat copy  *)
(* made by the same calls, whatever the calls: writes, account creation,   *)
(* logs, snapshots, rollback and consolidation with any number of back     *)
(* steps (state.rs:79-98, 180-325, 463-589; tests/state.rs:128).           *)
THEOREM ReadsAsFlatCopies ==
  ASSUME Deletes = {}
  PROVE  CVSpec => []CheckSame
<1>1. CVInit => CVInv
  BY CVInitInv
<1>2. CVInv /\ [CVNext]_<<vars, store>> => CVInv'
  BY CVNextInv
<1>3. CVInv => CheckSame
  BY DEF CVInv
<1> QED BY <1>1, <1>2, <1>3, PTL DEF CVSpec
=============================================================================
