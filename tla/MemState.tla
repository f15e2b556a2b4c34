------------------------------ MODULE MemState ------------------------------
(***************************************************************************)
(* The in-memory world state of state.rs.  A world state object            *)
(* (MemStateAuto) points at the newest of a chain of revisions, each one a *)
(* delta over its parent and the oldest one a delta over an external       *)
(* source; revisions are shared between objects by reference (Arc).  A     *)
(* write through an object whose newest revision is shared (`Const`) first *)
(* puts an empty revision of its own on top (`Mutable`); a snapshot        *)
(* freezes the newest revision and shares it.                              *)
(*                                                                         *)
(* The heap of revisions is modelled as it is, so that sharing is not      *)
(* assumed away: a write changes a revision in place, for everyone who     *)
(* reads through it.  Revisions are numbered as they are allocated.        *)
(***************************************************************************)
EXTENDS Naturals, SequencesExt, AnySeq

CONSTANTS
  Addr,      \* account addresses
  Scalar,    \* the Option fields of AccountStateDelta: balance, nonce, code
  Key,       \* storage keys
  Val,       \* values of a field
  Zero,      \* the zero value: no balance, nonce 0, empty code, zero word
  Handle,    \* the names of the MemStateAuto objects a client may hold
  Initial,   \* the object the client starts with
  Origin,    \* the accounts the external source holds
  OriginVal, \* their fields
  NoChange,  \* `None` in a delta, and a key the delta's map does not have
  Dropped,   \* a handle that is not in use
  MaxRev,    \* bound on the number of revisions allocated
  MaxOps,    \* bound on the number of operations
  Deletes    \* the accounts that may be deleted, or re-created over storage

Field == Scalar \cup Key

ASSUME MemAssumption ==
  /\ "balance" \in Scalar
  /\ Scalar \cap Key = {}
  /\ Zero \in Val
  /\ NoChange \notin Val /\ NoChange # TRUE
  /\ OriginVal \in [Field -> Val]
  /\ Origin \subseteq Addr
  /\ Deletes \subseteq Addr
  /\ Initial \in Handle
  /\ MaxRev \in Nat /\ MaxOps \in Nat
  /\ Dropped \notin [rev : Nat, mutable : BOOLEAN]

VARIABLES
  heap,   \* the revisions, oldest allocation first
  handle, \* what each MemStateAuto holds: its newest revision, and whether it
          \* is `Mutable` (owned) or `Const` (shared)
  ops     \* how many operations have been done

vars == <<heap, handle, ops>>

Held(h) == handle[h] # Dropped

NoFields == [f \in Field |-> NoChange]

(* A revision without changes over parent p; 0 is the external source. *)
EmptyRev(p) ==
  [parent  |-> p,
   entries |-> {},                          \* keys of delta.accounts
   fields  |-> [a \in Addr |-> NoFields],   \* their AccountStateDelta
   deleted |-> {},                          \* delta.deleted_accounts
   logs    |-> << >>]

Init ==
  /\ heap   = <<EmptyRev(0)>>
  /\ handle = [h \in Handle |->
                 IF h = Initial THEN [rev |-> 1, mutable |-> FALSE] ELSE Dropped]
  /\ ops    = 0

-----------------------------------------------------------------------------
(* Reads.  H is the heap the read is done in.                              *)

(* The revisions a look-up from revision r visits: the least set that      *)
(* holds r and the parent of each member.  A parent is older than its      *)
(* child, so newest first is largest number first.                         *)
ClosedUp(H, S) == \A i \in S : H[i].parent \in S \cup {0}
Ancestry(H, r) ==
  {i \in DOMAIN H : \A S \in SUBSET DOMAIN H : r \in S /\ ClosedUp(H, S) => i \in S}

(* rev_walk! along the chain c: the newest revision that answers, and what *)
(* it answers; the external source answers if none does.                   *)
RevWalk(c, Answer(_), ext) ==
  LET answering == {i \in c : Answer(i) # NoChange}
  IN  IF answering = {} THEN ext ELSE Answer(Max(answering))

(* get_state, get_balance, get_code and get_nonce through the chain c in   *)
(* heap H.  Only the newest revision is asked whether the account is       *)
(* deleted.                                                                *)
Get(H, c, a, f) ==
  IF a \in H[Max(c)].deleted
  THEN Zero
  ELSE RevWalk(c, LAMBDA i : H[i].fields[a][f],
               IF a \in Origin THEN OriginVal[f] ELSE Zero)

Exist(H, c, a) ==
  /\ a \notin H[Max(c)].deleted
  /\ RevWalk(c, LAMBDA i : IF a \in H[i].entries THEN TRUE ELSE NoChange, a \in Origin)

(* All log records since the external source, oldest first: get_log of the *)
(* chain once it is consolidated.  Joined are those of revisions up to n.  *)
Joined(H, c, n) ==
  LET joined[i \in 0 .. n] ==
        IF i = 0 THEN << >>
        ELSE IF i \in c THEN joined[i - 1] \o H[i].logs ELSE joined[i - 1]
  IN  joined[n]
Logs(H, c) == Joined(H, c, Len(H))

-----------------------------------------------------------------------------
(* Writes.                                                                 *)

(* convert_mut: the heap and the revision that a write through h works on. *)
MutHeap(h) ==
  IF handle[h].mutable THEN heap ELSE Append(heap, EmptyRev(handle[h].rev))
MutRevInPlace(h) == handle[h].rev              \* mutant: no revision of its own
MutRev(h) ==
  IF handle[h].mutable THEN handle[h].rev ELSE Len(heap) + 1

Count == ops < MaxOps /\ ops' = ops + 1

(* Replace the revision h writes to by `new`. *)
Write(h, new) ==
  /\ Held(h)
  /\ handle[h].mutable \/ Len(heap) < MaxRev
  /\ heap'   = [MutHeap(h) EXCEPT ![MutRev(h)] = new]
  /\ handle' = [handle EXCEPT ![h] = [rev |-> MutRev(h), mutable |-> TRUE]]
  /\ Count

(* set_state, set_balance, set_code, set_nonce: get_account makes the entry. *)
SetField(h, a, f, v) ==
  /\ Held(h)
  /\ LET rev == MutHeap(h)[MutRev(h)] IN
       Write(h, [rev EXCEPT !.entries = @ \cup {a}, !.fields[a][f] = v])

(* No storage of a in any revision of the chain: what a client that deploys code *)
(* to an unused address may assume (exec.rs:930 refuses used ones).        *)
NeverStored(H, c, a) ==
  \A k \in Key : /\ \A i \in c : H[i].fields[a][k] \in {NoChange, Zero}
                 /\ a \in Origin => OriginVal[k] = Zero

(* create_account: the entry is replaced by one with every scalar set; the *)
(* balance is the one read after convert_mut.  Storage keys of older       *)
(* revisions are not hidden.                                               *)
CreateAccount(h, a) ==
  /\ Held(h)
  /\ LET H   == MutHeap(h)
         r   == MutRev(h)
         c   == Ancestry(H, r)
         new == [f \in Field |-> CASE f = "balance" -> Get(H, c, a, "balance")
                                   [] f \in Scalar \ {"balance"} -> Zero
                                   [] OTHER -> NoChange]
     IN  /\ a \in Deletes \/ NeverStored(H, c, a)
         /\ Write(h, [H[r] EXCEPT !.entries   = @ \cup {a},
                                  !.fields[a] = new,
                                  !.deleted   = @ \ {a}])

DeleteAccount(h, a) ==
  /\ Held(h)
  /\ a \in Deletes
  /\ LET rev == MutHeap(h)[MutRev(h)] IN
       Write(h, [rev EXCEPT !.entries   = @ \ {a},
                            !.fields[a] = NoFields,
                            !.deleted   = @ \cup {a}])

(* add_log, of data that is a hash: 32 bytes. *)
AddLog(h, a) ==
  /\ Held(h)
  /\ LET rev == MutHeap(h)[MutRev(h)] IN
       Write(h, [rev EXCEPT !.logs = Append(@, a)])

(* Of any other data, Hash::from_slice panics: convert_mut is done, and    *)
(* nothing is pushed.                                                      *)
AddLogPanics(h) == Held(h) /\ Write(h, MutHeap(h)[MutRev(h)])

-----------------------------------------------------------------------------
(* Snapshots, rollback, consolidation.                                     *)

(* to_shared: the newest revision of h is frozen and g shares it. *)
ShareLive(h, g, r) ==                          \* mutant: h stays Mutable
  handle' = [handle EXCEPT ![g] = [rev |-> r, mutable |-> FALSE]]
Share(h, g, r) ==
  handle' = [handle EXCEPT ![h].mutable = FALSE,
                           ![g] = [rev |-> r, mutable |-> FALSE]]

Snapshot(h, g) ==
  /\ Held(h) /\ ~Held(g)
  /\ Share(h, g, handle[h].rev)
  /\ UNCHANGED heap
  /\ Count

(* rollback: h takes over what the snapshot g held, g is gone. *)
Rollback(h, g) ==
  /\ Held(h) /\ Held(g) /\ g # h
  /\ handle' = [handle EXCEPT ![h] = handle[g], ![g] = Dropped]
  /\ UNCHANGED heap
  /\ Count

Drop(g) ==
  /\ Held(g)
  /\ handle' = [handle EXCEPT ![g] = Dropped]
  /\ UNCHANGED heap
  /\ Count

(* One revision applied over the deltas merged so far. *)
Overlay(d, rev) ==
  LET deleted == (d.deleted \ rev.entries) \cup rev.deleted
      merged(a) == [f \in Field |-> IF rev.fields[a][f] # NoChange
                                    THEN rev.fields[a][f] ELSE d.fields[a][f]]
  IN  [parent  |-> d.parent,
       entries |-> (d.entries \cup rev.entries) \ deleted,
       fields  |-> [a \in Addr |-> IF a \in deleted THEN NoFields ELSE merged(a)],
       deleted |-> deleted,
       logs    |-> d.logs \o rev.logs]

(* MemStateRev::consolidate: r and at most `steps` of its ancestors, the  *)
(* newest ones, merged into one revision.                                  *)
Segment(r, steps) ==
  {i \in Ancestry(heap, r) :
     Cardinality({j \in Ancestry(heap, r) : j > i}) <= steps}
MergedOldestWins(seg, n) ==     \* mutant: the order is reversed
  LET merged[i \in 0 .. n] ==
        IF i = 0 THEN EmptyRev(0)
        ELSE IF n + 1 - i \in seg THEN Overlay(merged[i - 1], heap[n + 1 - i])
             ELSE merged[i - 1]
  IN  merged[n]
Merged(seg, n) ==               \* those of seg up to revision n, oldest first
  LET merged[i \in 0 .. n] ==
        IF i = 0 THEN EmptyRev(0)
        ELSE IF i \in seg THEN Overlay(merged[i - 1], heap[i]) ELSE merged[i - 1]
  IN  merged[n]
Merge(seg) == Merged(seg, Len(heap))
Onto(p, d) ==
  [parent |-> p, entries |-> d.entries, fields |-> d.fields,
   deleted |-> d.deleted, logs |-> d.logs]
ConsolidatedOntoItself(r, steps) ==     \* mutant: linked to the new head
  Onto(Len(heap) + 1, Merge(Segment(r, steps)))
Consolidated(r, steps) ==
  Onto(heap[Min(Segment(r, steps))].parent, Merge(Segment(r, steps)))

(* A shared copy of h, consolidated (MemStateShared::consolidate does      *)
(* nothing when the chain already ends here), becomes the object g.        *)
(* `steps` = MaxRev stands for `None`.                                     *)
Consolidate(h, g, steps) ==
  /\ Held(h) /\ ~Held(g)
  /\ IF heap[handle[h].rev].parent = 0
     THEN UNCHANGED heap /\ Share(h, g, handle[h].rev)
     ELSE /\ Len(heap) < MaxRev
          /\ heap' = Append(heap, Consolidated(handle[h].rev, steps))
          /\ Share(h, g, Len(heap) + 1)
  /\ Count

Next ==
  \E h \in Handle :
    \/ \E a \in Addr : \/ \E f \in Field, v \in Val : SetField(h, a, f, v)
                       \/ CreateAccount(h, a)
                       \/ DeleteAccount(h, a)
                       \/ AddLog(h, a)
    \/ AddLogPanics(h)
    \/ \E g \in Handle : \/ Snapshot(h, g)
                         \/ Rollback(h, g)
                         \/ \E steps \in 0 .. MaxRev : Consolidate(h, g, steps)
    \/ Drop(h)

Spec == Init /\ [][Next]_vars

-----------------------------------------------------------------------------
(* Properties.                                                             *)

Rev ==
  [parent  : Nat,
   entries : SUBSET Addr,
   fields  : [Addr -> [Field -> Val \cup {NoChange}]],
   deleted : SUBSET Addr,
   logs    : Seq(Addr)]

(* The heap is a forest that grows from the external source: a revision is *)
(* younger than its parent, so every look-up ends, and every object in use *)
(* points at a revision.                                                   *)
Forest ==
  /\ IsSeq(heap)
  /\ \A r \in DOMAIN heap :
       "parent" \in DOMAIN heap[r] /\ heap[r].parent \in 0 .. r - 1
  /\ handle \in [Handle -> [rev : Nat, mutable : BOOLEAN] \cup {Dropped}]
  /\ \A h \in Handle : Held(h) => handle[h].rev \in DOMAIN heap

(* ... and the deltas are maps of the right types. *)
TypeOK == Forest /\ heap \in Seq(Rev) /\ ops \in 0 .. MaxOps

(* The revision an object may write in place is its own: no other object   *)
(* holds it and no revision is built upon it (what the unsafe code of      *)
(* MemStateAuto relies on, state.rs:492-524).                              *)
OwnedRevision ==
  \A h \in Handle : Held(h) /\ handle[h].mutable =>
    /\ \A g \in Handle \ {h} : Held(g) => handle[g].rev # handle[h].rev
    /\ \A r \in DOMAIN heap : heap[r].parent # handle[h].rev

(* A revision that is not some object's own never changes again: snapshots *)
(* and the chains below them are immutable (state.rs:339 "read-only").     *)
Frozen(r) == \A h \in Handle : Held(h) /\ handle[h].mutable => handle[h].rev # r
FrozenForever ==
  [][\A r \in DOMAIN heap :
        Frozen(r) => r \in DOMAIN heap' /\ heap'[r] = heap[r]]_vars

(* What a client reads through h. *)
View(h) ==
  LET c == Ancestry(heap, handle[h].rev) IN
    [exist |-> {a \in Addr : Exist(heap, c, a)},
     val   |-> [a \in Addr |-> [f \in Field |-> Get(heap, c, a, f)]],
     logs  |-> Logs(heap, c)]

(* Two objects are independent however much they share: no operation       *)
(* changes what is read through two of them.                               *)
Isolation ==
  [][\A h, g \in {x \in Handle : Held(x) /\ Held(x)' /\ View(x)' # View(x)} : h = g]_vars

(* "Create a quick clone of the existing state" (core/mod.rs:82): a write  *)
(* to one account of the clone leaves what is read of the others.          *)
WritesAreLocal ==
  [][\A h \in Handle, a \in Addr, f \in Field, v \in Val :
       SetField(h, a, f, v) =>
         \A b \in Addr \ {a} : View(h).val[b]' = View(h).val[b]]_vars
=============================================================================
