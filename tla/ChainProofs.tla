----------------------------- MODULE ChainProofs ----------------------------
(***************************************************************************)
(* Proofs about the block tree, for every set of hashes and every parent   *)
(* function (finite or not, cyclic or not): the consistency of the three   *)
(* maps, that add_block never panics, that is_attached is exact, and that  *)
(* the tree implements ChainAbs.                                           *)
(***************************************************************************)
EXTENDS Chain, Integers, SequenceTheorems, TLAPS

(* ClosedIn and Connected, as sets. *)
LEMMA ConnectedSubset ==
  ASSUME NEW known
  PROVE  Connected(known) \subseteq known
BY DEF Connected

(* A closed set contains everything connected. *)
LEMMA ClosedContains ==
  ASSUME NEW known, NEW S, ClosedIn(known, S)
  PROVE  Connected(known) \subseteq S
BY DEF Connected, ClosedIn

(* A known child of a connected block is connected. *)
LEMMA ChildConnected ==
  ASSUME NEW known, NEW b \in known \cap Block, Parent[b] \in Connected(known)
  PROVE  b \in Connected(known)
BY DEF Connected, ClosedIn

(* What is connected stays connected when a block becomes known. *)
LEMMA ConnectedGrows ==
  ASSUME NEW known, NEW b \in Block \ known
  PROVE  Connected(known) \subseteq Connected(known \cup {b})
<1> SUFFICES ASSUME NEW h \in Connected(known),
                    NEW S \in SUBSET (known \cup {b}),
                    ClosedIn(known \cup {b}, S)
             PROVE  h \in S
  BY DEF Connected
<1>1. ClosedIn(known, S \ {b})
  BY ChainAssumption DEF ClosedIn
<1> QED BY <1>1, ClosedContains

(* The elements of a sequence under Append, concatenation, Head and Tail. *)
LEMMA ElemsAppend ==
  ASSUME NEW T, NEW s \in Seq(T), NEW x \in T
  PROVE  Elems(Append(s, x)) = Elems(s) \cup {x}
<1> DEFINE t == Append(s, x)
<1>1. /\ DOMAIN s = 1 .. Len(s)
      /\ DOMAIN t = 1 .. Len(s) + 1
      /\ Len(s) \in Nat
  OBVIOUS
<1>2. /\ \A i \in 1 .. Len(s) : t[i] = s[i]
      /\ t[Len(s) + 1] = x
  OBVIOUS
<1> HIDE DEF t
<1> QED BY <1>1, <1>2 DEF Elems

LEMMA ElemsConcat ==
  ASSUME NEW T, NEW s \in Seq(T), NEW t \in Seq(T)
  PROVE  Elems(s \o t) = Elems(s) \cup Elems(t)
<1> DEFINE u == s \o t
<1>1. /\ DOMAIN s = 1 .. Len(s)
      /\ DOMAIN t = 1 .. Len(t)
      /\ DOMAIN u = 1 .. Len(s) + Len(t)
      /\ Len(s) \in Nat
      /\ Len(t) \in Nat
  BY ConcatProperties, LenProperties
<1>2. \A i \in 1 .. Len(s) : u[i] = s[i]
  BY <1>1, ConcatProperties
<1>3. \A i \in 1 .. Len(t) : u[i + Len(s)] = t[i]
  BY <1>1, ConcatProperties
<1> HIDE DEF u
<1>4. \A i \in 1 .. Len(s) + Len(t) :
         i \in 1 .. Len(s) \/ \E j \in 1 .. Len(t) : i = j + Len(s)
  <2> SUFFICES ASSUME NEW i \in 1 .. Len(s) + Len(t), i \notin 1 .. Len(s)
               PROVE  i - Len(s) \in 1 .. Len(t) /\ i = (i - Len(s)) + Len(s)
    OBVIOUS
  <2> QED BY <1>1
<1>5. ASSUME NEW e \in Elems(u) PROVE e \in Elems(s) \cup Elems(t)
  <2>1. PICK i \in 1 .. Len(s) + Len(t) : e = u[i]
    BY <1>1 DEF Elems
  <2>2. CASE i \in 1 .. Len(s)
    BY <1>1, <1>2, <2>1, <2>2 DEF Elems
  <2>3. ASSUME NEW j \in 1 .. Len(t), i = j + Len(s) PROVE e \in Elems(t)
    BY <1>1, <1>3, <2>1, <2>3 DEF Elems
  <2> QED BY <1>4, <2>2, <2>3
<1>6. ASSUME NEW i \in 1 .. Len(t) PROVE i + Len(s) \in 1 .. Len(s) + Len(t)
  BY <1>1
<1>7. Elems(t) \subseteq Elems(u)
  BY <1>1, <1>3, <1>6 DEF Elems
<1>8. Elems(s) \subseteq Elems(u)
  BY <1>1, <1>2 DEF Elems
<1> QED BY <1>5, <1>7, <1>8 DEF u

LEMMA ElemsHeadTail ==
  ASSUME NEW T, NEW s \in Seq(T), s # << >>
  PROVE  /\ Head(s) \in T
         /\ Tail(s) \in Seq(T)
         /\ Elems(s) = {Head(s)} \cup Elems(Tail(s))
<1> DEFINE t == Tail(s)
<1>1. /\ Head(s) \in T
      /\ t \in Seq(T)
      /\ DOMAIN s = 1 .. Len(s)
      /\ DOMAIN t = 1 .. Len(s) - 1
      /\ Len(s) \in Nat \ {0}
      /\ Head(s) = s[1]
  BY HeadTailProperties, LenProperties, EmptySeq
<1>2. \A i \in 1 .. Len(s) - 1 : t[i] = s[i + 1]
  BY <1>1, HeadTailProperties
<1> HIDE DEF t
<1>3. \A i \in 1 .. Len(s) : i = 1 \/ (i - 1 \in 1 .. Len(s) - 1 /\ i = (i - 1) + 1)
  BY <1>1
<1>4. \A i \in 1 .. Len(s) - 1 : i + 1 \in 1 .. Len(s)
  BY <1>1
<1>5. 1 \in 1 .. Len(s)
  BY <1>1
<1>6. ASSUME NEW e \in Elems(s) PROVE e \in {s[1]} \cup Elems(t)
  <2>1. PICK i \in 1 .. Len(s) : e = s[i]
    BY <1>1 DEF Elems
  <2>2. CASE i = 1
    BY <2>1, <2>2
  <2>3. CASE i # 1
    <3>1. i - 1 \in 1 .. Len(s) - 1 /\ s[i] = t[i - 1]
      BY <1>1, <1>2, <1>3, <2>3
    <3> QED BY <1>1, <2>1, <3>1 DEF Elems
  <2> QED BY <2>2, <2>3
<1>7. {s[1]} \cup Elems(t) \subseteq Elems(s)
  BY <1>1, <1>2, <1>4, <1>5 DEF Elems
<1> QED BY <1>1, <1>6, <1>7 DEF t

LEMMA ElemsEmpty == Elems(<< >>) = {}
BY DEF Elems

-----------------------------------------------------------------------------
(* The inductive invariant, one lemma per action.                          *)

LEMMA InitInv == Init => Inv
<1> SUFFICES ASSUME Init PROVE Inv
  OBVIOUS
<1> USE DEF Init
<1>1. TypeOK
  BY ChainAssumption DEF TypeOK
<1>2. OneMap /\ ListsIndexOrphans /\ SweepPending
  BY ChainAssumption, ElemsEmpty DEF OneMap, ListsIndexOrphans, SweepPending
<1>3. Rooted
  BY ChainAssumption DEF Rooted, Known, Connected, ClosedIn
<1> QED BY <1>1, <1>2, <1>3 DEF Inv

LEMMA AddOrphanInv ==
  ASSUME Inv, NEW b \in Block, AddOrphan(b)
  PROVE  Inv'
<1> USE DEF AddOrphan, IsKnown, Waiting
<1> DEFINE p == Parent[b]
<1>0. /\ TypeOK /\ OneMap /\ ListsIndexOrphans /\ SweepPending /\ Rooted
      /\ p \in Hash
      /\ orphan_on[p] \in Seq(Block)
      /\ DOMAIN orphan_on = Hash
  BY ChainAssumption DEF Inv, TypeOK
<1>1. TypeOK'
  BY <1>0, ChainAssumption DEF TypeOK
<1>2. OneMap'
  BY <1>0 DEF OneMap
<1>3. ListsIndexOrphans'
  <2>1. Elems(orphan_on'[p]) = Elems(orphan_on[p]) \cup {b}
    BY <1>0, ElemsAppend
  <2>2. \A h \in Hash : Elems(orphan_on'[h]) = {o \in orphans' : Parent[o] = h}
    BY <1>0, <2>1 DEF ListsIndexOrphans
  <2>3. \A i, j \in DOMAIN orphan_on'[p] :
           orphan_on'[p][i] = orphan_on'[p][j] => i = j
    <3>1. b \notin Elems(orphan_on[p])
      BY <1>0 DEF ListsIndexOrphans
    <3>2. \A i, j \in DOMAIN orphan_on[p] :
             orphan_on[p][i] = orphan_on[p][j] => i = j
      BY <1>0 DEF ListsIndexOrphans
    <3>3. orphan_on'[p] = Append(orphan_on[p], b)
      BY <1>0
    <3> QED BY <1>0, <3>1, <3>2, <3>3 DEF Elems
  <2>4. \A h \in Hash : h # p => orphan_on'[h] = orphan_on[h]
    BY <1>0
  <2> QED BY <1>0, <2>2, <2>3, <2>4 DEF ListsIndexOrphans
<1>4. SweepPending'
  BY <1>0 DEF SweepPending
<1>5. Rooted'
  BY <1>0, ConnectedGrows DEF Rooted, Known
<1> QED BY <1>1, <1>2, <1>3, <1>4, <1>5 DEF Inv

LEMMA AddAttachedInv ==
  ASSUME Inv, NEW b \in Block, AddAttached(b)
  PROVE  Inv'
<1> USE DEF AddAttached, IsKnown
<1>0. TypeOK /\ OneMap /\ ListsIndexOrphans /\ SweepPending /\ Rooted
  BY DEF Inv
<1>1. TypeOK'
  BY <1>0, ChainAssumption DEF TypeOK
<1>2. OneMap' /\ ListsIndexOrphans'
  BY <1>0 DEF OneMap, ListsIndexOrphans
<1>3. SweepPending'
  <2>1. Elems(<<b>>) = {b} /\ Elems(q) = {}
    BY ElemsEmpty DEF Elems
  <2> QED BY <1>0, <2>1 DEF SweepPending
<1>4. Rooted'
  <2>1. Known' = Known \cup {b} /\ b \notin Known
    BY DEF Known
  <2>2. attached \subseteq Connected(Known')
    BY <1>0, <2>1, ConnectedGrows DEF Rooted
  <2>3. b \in Connected(Known')
    BY <2>1, <2>2, ChildConnected
  <2> QED BY <1>0, <2>2, <2>3 DEF Rooted
<1> QED BY <1>1, <1>2, <1>3, <1>4 DEF Inv

LEMMA SweepInv ==
  ASSUME Inv, Sweep
  PROVE  Inv'
<1> DEFINE u == Head(q)
           w == orphan_on[u]
<1>0. /\ TypeOK /\ OneMap /\ ListsIndexOrphans /\ SweepPending /\ Rooted
      /\ DOMAIN orphan_on = Hash
      /\ u \in Block /\ u \in Hash
      /\ Tail(q) \in Seq(Block)
      /\ w \in Seq(Block)
      /\ Elems(q) = {u} \cup Elems(Tail(q))
      /\ Elems(w) = {o \in orphans : Parent[o] = u}
  BY ChainAssumption, ElemsHeadTail DEF Inv, TypeOK, Sweep, ListsIndexOrphans
<1>1. /\ orphan_on' = [orphan_on EXCEPT ![u] = << >>]
      /\ orphans'   = orphans \ Elems(w)
      /\ attached'  = attached \cup Elems(w)
      /\ q'         = Tail(q) \o w
      /\ Elems(q')  = Elems(Tail(q)) \cup Elems(w)
  <2>1. Elems(Tail(q) \o w) = Elems(Tail(q)) \cup Elems(w)
    <3> DEFINE t == Tail(q)
    <3>1. t \in Seq(Block) /\ w \in Seq(Block)
      BY <1>0
    <3> HIDE DEF t, w
    <3>2. Elems(t \o w) = Elems(t) \cup Elems(w)
      BY <3>1, ElemsConcat
    <3> QED BY <3>2 DEF t
  <2> QED BY <2>1 DEF Sweep, Requeue
<1> HIDE DEF u, w
<1>2. TypeOK'
  <2>1. q' \in Seq(Block)
    BY <1>0, <1>1, ConcatProperties
  <2>2. orphan_on' \in [Hash -> Seq(Block)]
    BY <1>0, <1>1 DEF TypeOK
  <2> QED BY <1>0, <1>1, <2>1, <2>2, ChainAssumption DEF TypeOK
<1>3. OneMap'
  BY <1>0, <1>1 DEF OneMap
<1>4. ListsIndexOrphans'
  <2>1. ASSUME NEW h \in Hash
        PROVE  /\ Elems(orphan_on'[h]) = {o \in orphans' : Parent[o] = h}
               /\ \A i, j \in DOMAIN orphan_on'[h] :
                    orphan_on'[h][i] = orphan_on'[h][j] => i = j
    <3>1. CASE h = u
      BY <1>0, <1>1, <3>1, ElemsEmpty
    <3>2. CASE h # u
      BY <1>0, <1>1, <3>2 DEF ListsIndexOrphans
    <3> QED BY <3>1, <3>2
  <2> QED BY <2>1 DEF ListsIndexOrphans
<1>5. SweepPending'
  <2>1. Elems(q') \subseteq attached'
    BY <1>0, <1>1 DEF SweepPending
  <2>2. ASSUME NEW o \in orphans', Parent[o] \in attached'
        PROVE  Parent[o] \in Elems(q')
    BY <1>0, <1>1, <2>2 DEF SweepPending
  <2> QED BY <2>1, <2>2 DEF SweepPending
<1>6. Rooted'
  <2>1. Known' = Known
    BY <1>0, <1>1 DEF Known
  <2>2. u \in attached
    BY <1>0 DEF SweepPending
  <2>3. ASSUME NEW o \in Elems(w) PROVE o \in Connected(Known)
    <3>1. o \in Known \cap Block /\ Parent[o] = u
      BY <1>0 DEF Known, TypeOK
    <3> QED BY <1>0, <2>2, <3>1, ChildConnected DEF Rooted
  <2>4. \A c \in attached' \cap Block : Parent[c] \in attached'
    BY <1>0, <1>1, <2>2 DEF Rooted
  <2> QED BY <1>0, <1>1, <2>1, <2>3, <2>4 DEF Rooted
<1> QED BY <1>2, <1>3, <1>4, <1>5, <1>6 DEF Inv

(* Dropping the orphans disconnects nothing: no attached block hangs from  *)
(* an orphan.                                                              *)
LEMMA AttachedAloneConnected ==
  ASSUME Inv
  PROVE  attached \subseteq Connected(attached)
<1>0. OneMap /\ Rooted
  BY DEF Inv
<1> SUFFICES ASSUME NEW S \in SUBSET attached, ClosedIn(attached, S)
             PROVE  attached \subseteq S
  BY DEF Connected
<1>1. ClosedIn(Known, S \cup orphans)
  BY <1>0 DEF ClosedIn, Known, OneMap, Rooted
<1>2. attached \subseteq S \cup orphans
  BY <1>0, <1>1, ClosedContains DEF Rooted
<1> QED BY <1>0, <1>2 DEF OneMap

LEMMA RemoveOrphansInv ==
  ASSUME Inv, RemoveOrphans
  PROVE  Inv'
<1> USE DEF RemoveOrphans
<1>0. TypeOK /\ OneMap /\ ListsIndexOrphans /\ SweepPending /\ Rooted
  BY DEF Inv
<1>1. TypeOK'
  BY <1>0 DEF TypeOK
<1>2. OneMap' /\ ListsIndexOrphans' /\ SweepPending'
  BY <1>0, ElemsEmpty DEF OneMap, ListsIndexOrphans, SweepPending
<1>3. Rooted'
  BY <1>0, AttachedAloneConnected DEF Rooted, Known
<1> QED BY <1>1, <1>2, <1>3 DEF Inv

LEMMA NextInv == Inv /\ [Next]_vars => Inv'
<1> SUFFICES ASSUME Inv, [Next]_vars PROVE Inv'
  OBVIOUS
<1>1. ASSUME UNCHANGED vars PROVE Inv'
  BY <1>1 DEF vars, Inv, TypeOK, OneMap, ListsIndexOrphans, SweepPending,
              Rooted, Known
<1>2. ASSUME NEW b \in Block, AddKnown(b) PROVE Inv'
  BY <1>1, <1>2 DEF AddKnown
<1>3. ASSUME NEW b \in Block, AddOrphan(b) PROVE Inv'
  BY <1>3, AddOrphanInv
<1>4. ASSUME NEW b \in Block, AddAttached(b) PROVE Inv'
  BY <1>4, AddAttachedInv
<1>5. CASE Sweep
  BY <1>5, SweepInv
<1>6. CASE RemoveOrphans
  BY <1>6, RemoveOrphansInv
<1> QED BY <1>1, <1>2, <1>3, <1>4, <1>5, <1>6 DEF Next

(* The three maps of chain.rs and the queue of its sweep stay consistent   *)
(* in every reachable state, between two iterations of the sweep included. *)
THEOREM ChainInvariant == Spec => []Inv
BY InitInv, NextInv, PTL DEF Spec

(* `self.orphans.remove(&orphan).unwrap()` (chain.rs:79) never panics.     *)
THEOREM UnwrapSafe == Spec => []UnwrapNeverFails
<1>1. Inv => UnwrapNeverFails
  <2> SUFFICES ASSUME Inv, q # << >> PROVE UnwrapNeverFails
    BY DEF UnwrapNeverFails
  <2>1. Head(q) \in Hash
    BY ChainAssumption, ElemsHeadTail DEF Inv, TypeOK
  <2> QED BY <2>1 DEF Inv, ListsIndexOrphans, UnwrapNeverFails
<1> QED BY <1>1, ChainInvariant, PTL

(* The three maps of Chain and the queue of the sweep hold blocks only,    *)
(* whatever order they arrive in (chain.rs:15-89).                         *)
THEOREM ChainTypes == Spec => []TypeOK
<1>1. Inv => TypeOK
  BY DEF Inv
<1> QED BY <1>1, ChainInvariant, PTL

(* Outside add_block the attached blocks are exactly the connected ones.   *)
LEMMA InvExact == Inv => AttachedExact
<1> SUFFICES ASSUME Inv, q = << >> PROVE attached = Connected(Known)
  BY DEF AttachedExact
<1>1. ClosedIn(Known, attached)
  BY ElemsEmpty DEF Inv, OneMap, SweepPending, ClosedIn, Known
<1>2. Connected(Known) \subseteq attached
  BY <1>1, ClosedContains
<1> QED BY <1>2 DEF Inv, Rooted

(* is_attached (chain.rs:91) tells, whenever it can be called, exactly     *)
(* whether the block is transitively attached to the base.                 *)
THEOREM IsAttachedExact == Spec => []AttachedExact
BY ChainInvariant, InvExact, PTL

(* add_block with its sweep, and remove_orphans, are the atomic operations *)
(* of ChainAbs.                                                            *)
THEOREM ChainImplementsAbs == Spec => ImplementsAbs
<1>1. Init => Abs!Init
  <2> SUFFICES ASSUME Init PROVE Abs!Init
    OBVIOUS
  <2>1. Known = {Base} /\ Connected({Base}) = {Base}
    BY DEF Init, Known, Connected, ClosedIn
  <2> QED BY <2>1 DEF Abs!Init
<1>2. Inv /\ Inv' /\ [Next]_vars
        => [Abs!Next]_<<Connected(Known), Known \ Connected(Known)>>
  <2> SUFFICES ASSUME Inv, Inv', [Next]_vars
               PROVE  [Abs!Next]_<<Connected(Known), Known \ Connected(Known)>>
    OBVIOUS
  <2>0. Connected(Known) \cup (Known \ Connected(Known)) = Known
    BY ConnectedSubset
  <2>1. ASSUME Known' = Known
        PROVE  UNCHANGED <<Connected(Known), Known \ Connected(Known)>>
    BY <2>1
  <2>2. ASSUME NEW b \in Block, Known' = Known \cup {b} PROVE Abs!AddBlock(b)
    BY <2>0, <2>2 DEF Abs!AddBlock, Abs!Connected, Abs!ClosedIn, Connected, ClosedIn
  <2>3. ASSUME NEW b \in Block, AddKnown(b) \/ AddOrphan(b) \/ AddAttached(b)
        PROVE  Known' = Known \/ Known' = Known \cup {b}
    BY <2>3 DEF AddKnown, AddOrphan, AddAttached, Known, vars
  <2>4. CASE Sweep
    <3>1. Head(q) \in Hash
      BY <2>4, ChainAssumption, ElemsHeadTail DEF Sweep, Inv, TypeOK
    <3>2. Known' = Known
      BY <2>4, <3>1 DEF Sweep, Known, Inv, ListsIndexOrphans
    <3> QED BY <2>1, <3>2
  <2>5. CASE RemoveOrphans
    <3>1. Connected(Known) = attached
      BY <2>5, InvExact DEF RemoveOrphans, AttachedExact
    <3>2. Known' = attached /\ Connected(Known)' = attached
      BY <2>5, AttachedAloneConnected, ConnectedSubset DEF RemoveOrphans, Known
    <3>3. Abs!RemoveOrphans
      BY <3>1, <3>2 DEF Abs!RemoveOrphans
    <3> QED BY <3>3 DEF Abs!Next
  <2>6. CASE UNCHANGED vars
    BY <2>1, <2>6 DEF vars, Known
  <2> QED BY <2>1, <2>2, <2>3, <2>4, <2>5, <2>6 DEF Next, Abs!Next
<1> QED BY <1>1, <1>2, ChainInvariant, PTL DEF Spec, ImplementsAbs, Abs!Spec
=============================================================================
