---------------------------- MODULE ResTreeCounts ---------------------------
(***************************************************************************)
(* The le_mem reference counts of the resource tree are exact between     *)
(* calls: a proof of RefCountExact for the model ResTree, for every pool,  *)
(* set of names and path depth.                                            *)
(*                                                                         *)
(* RefCountExact speaks of idle states only; inside a call the counts are  *)
(* off by the release in progress.  CountInv says by how much, statement  *)
(* by statement:                                                           *)
(*  - every entry but the one le_mem_Release is releasing has its exact    *)
(*    count;                                                               *)
(*  - the entry being released owes one count: either the child that held  *)
(*    it has just been unlinked by EntryDestructor, or RecordNodeDeletion  *)
(*    added one, or it is a childless entry on its last count (the flush   *)
(*    of a zombie, GetResource dropping the entry it created, the cleanup  *)
(*    of CreateEntry);                                                     *)
(*  - GetResource's createdEntry is a fresh leaf until it is released;     *)
(*  - the entries CreateEntry made from firstNewEntry on form a chain,     *)
(*    each the only child of the one before, ending at currentEntry, which *)
(*    has no children.  This is why its cleanup, walking up parentPtr from *)
(*    currentEntry, always releases a leaf on its last count and stops at  *)
(*    firstNewEntry with the tree as it was.                               *)
(***************************************************************************)
EXTENDS ResTreeLinks

(* The count entry e has between calls: one per child and one for its      *)
(* allocation (or the zombie record), none once it is back in the pool.    *)
Exact(e) == ref[e] = IF e \in live THEN Len(children[e]) + 1 ELSE 0

(* The count of the entry r being released, one above what it will be.     *)
Owes(r) == \/ ref[r] = Len(children[r]) + 2
           \/ ref[r] = 1 /\ children[r] = << >> /\ type[r] = "NAMESPACE"

(* w[1..k] is a chain of entries CreateEntry made, from f (its            *)
(* firstNewEntry) down to e: each is an allocated namespace and the only   *)
(* child of the one before.                                                *)
Chain(w, k, f, e) ==
    /\ w \in [1..k -> Entries]
    /\ w[1] = f /\ w[k] = e
    /\ \A j \in 1..k : w[j] \in live /\ type[w[j]] = "NAMESPACE"
    /\ \A j \in 2..k : children[w[j - 1]] = << w[j] >>

(* e is a leaf ending a chain of length k from f.                          *)
ChainTo(f, e, k) == children[e] = << >> /\ \E w \in [1..k -> Entries] : Chain(w, k, f, e)

(* The counts inside a call, statement by statement.                       *)
CountsExact == \A e \in Entries : (pc = "release" /\ e = call.rel) \/ Exact(e)
ReleaseOwes == pc = "release" => Owes(call.rel)
CreatedLeaf == pc \in {"obsNs", "promote"} /\ call.created =>
                   /\ call.cur \in live \ {Root} /\ children[call.cur] = << >>
                   /\ type[call.cur] = "NAMESPACE"
WalkChain == pc = "create" /\ call.firstNew # None =>
                 \E k \in 1..(call.idx - 1) : ChainTo(call.firstNew, call.cur, k)
RollbackChain == pc = "rollback" => \E k \in 1..MaxDepth : ChainTo(call.firstNew, call.cur, k)
CleanupChain ==
    pc = "release" /\ call.after = "rollback" =>
        \/ /\ call.rel = call.cur
           /\ ref[call.rel] = 2
           /\ \E k \in 1..MaxDepth : ChainTo(call.firstNew, call.cur, k)
        \/ /\ ref[call.rel] = 1
           /\ children[call.rel] = << >>
           /\ \E k \in 2..MaxDepth : \E w \in [1..k -> Entries] :
                 Chain(w, k, call.firstNew, call.rel) /\ w[k - 1] = call.cur

CountInv ==
    CountsExact /\ ReleaseOwes /\ CreatedLeaf /\ WalkChain /\ RollbackChain /\ CleanupChain

-----------------------------------------------------------------------------
(* Facts about chains.                                                     *)

(* A leaf has no child of any name.                                        *)
LEMMA ChildExEmpty ==
    ASSUME NEW c, NEW nm, children[c] = << >>
    PROVE  ChildEx(c, nm) = None
BY DEF ChildEx

(* The leaf that ends a chain occurs in it only at the end, and so does    *)
(* the entry before it.                                                    *)
LEMMA ChainDistinct ==
    ASSUME NEW w, NEW k \in Nat, NEW f, NEW e, Chain(w, k, f, e), children[e] = << >>
    PROVE  /\ \A j \in 1..(k - 1) : w[j] # e
           /\ \A j \in 1..(k - 2) : w[j] # w[k - 1]
<1>1. \A j \in 1..(k - 1) : w[j] # e
  <2> SUFFICES ASSUME NEW j \in 1..(k - 1), w[j] = e PROVE FALSE
    OBVIOUS
  <2>1. j + 1 \in 2..k /\ (j + 1) - 1 = j
    OBVIOUS
  <2>2. children[w[j]] = << w[j + 1] >>
    BY <2>1 DEF Chain
  <2>3. children[e] = << w[j + 1] >>
    BY <2>2
  <2>4. Len(children[e]) = 1
    BY <2>3
  <2>. QED
    BY <2>4
<1>2. \A j \in 1..(k - 2) : w[j] # w[k - 1]
  <2> SUFFICES ASSUME NEW j \in 1..(k - 2), w[j] = w[k - 1] PROVE FALSE
    OBVIOUS
  <2>1. j + 1 \in 2..k /\ (j + 1) - 1 = j /\ k \in 2..k /\ j + 1 \in 1..(k - 1)
    OBVIOUS
  <2>2. children[w[j]] = << w[j + 1] >> /\ children[w[k - 1]] = << w[k] >>
    BY <2>1 DEF Chain
  <2>3. w[j + 1] = w[k] /\ w[k] = e
    BY <2>2 DEF Chain
  <2>. QED
    BY <1>1, <2>1, <2>3
<1>. QED
  BY <1>1, <1>2

(* A new leaf that is allocated starts a chain of its own.                 *)
LEMMA ChainSingle ==
    ASSUME NEW e \in Entries, e \in live', children'[e] = << >>, type'[e] = "NAMESPACE"
    PROVE  ChainTo(e, e, 1)'
<1> DEFINE v == [j \in 1..1 |-> e]
<1>1. Chain(v, 1, e, e)'
  BY DEF Chain
<1>. QED
  BY <1>1 DEF ChainTo

(* AddChild of a free block n under the leaf c ending a chain makes n the   *)
(* leaf of the chain one longer.                                           *)
LEMMA ChainExtend ==
    ASSUME TypeOK, NEW k \in Nat \ {0}, NEW f, NEW c \in Entries, NEW nm,
           NEW n \in Entries \ live, ChainTo(f, c, k), AddChild(c, nm, n)
    PROVE  ChainTo(f, n, k + 1)'
<1>1. PICK w \in [1..k -> Entries] : Chain(w, k, f, c)
  BY DEF ChainTo
<1>2. children[c] = << >> /\ c \in live /\ c # n
  BY <1>1 DEF ChainTo, Chain
<1>3. \A j \in 1..(k - 1) : w[j] # c
  BY <1>1, <1>2, ChainDistinct
<1>4. children'[c] = << n >> /\ children'[n] = << >> /\ live' = live \cup {n}
  BY <1>2 DEF AddChild, TypeOK
<1> DEFINE v == [j \in 1..(k + 1) |-> IF j <= k THEN w[j] ELSE n]
<1>5. v \in [1..(k + 1) -> Entries] /\ v[1] = f /\ v[k + 1] = n
  BY <1>1 DEF Chain
<1>6. \A j \in 1..(k + 1) : v[j] \in live' /\ type'[v[j]] = "NAMESPACE"
  BY <1>1, <1>4 DEF Chain, AddChild, TypeOK
<1>7. \A j \in 2..(k + 1) : children'[v[j - 1]] = << v[j] >>
  <2> SUFFICES ASSUME NEW j \in 2..(k + 1) PROVE children'[v[j - 1]] = << v[j] >>
    OBVIOUS
  <2>1. CASE j <= k
    <3>1. v[j - 1] = w[j - 1] /\ v[j] = w[j] /\ j - 1 \in 1..(k - 1)
      BY <2>1
    <3>2. w[j - 1] # c /\ w[j - 1] # n /\ w[j - 1] \in Entries
      BY <1>1, <1>3, <3>1 DEF Chain
    <3>3. children'[w[j - 1]] = children[w[j - 1]]
      BY <3>2 DEF AddChild, TypeOK
    <3>4. j \in 2..k
      BY <2>1
    <3>5. children[w[j - 1]] = << w[j] >>
      BY <1>1, <3>4 DEF Chain
    <3>. QED
      BY <3>1, <3>3, <3>5
  <2>2. CASE j = k + 1
    BY <1>1, <1>4, <2>2 DEF Chain
  <2>3. j <= k \/ j = k + 1
    OBVIOUS
  <2>. QED
    BY <2>1, <2>2, <2>3
<1>. QED
  BY <1>4, <1>5, <1>6, <1>7 DEF ChainTo, Chain

(* EntryDestructor of the leaf r ending a chain of length k >= 2 unlinks    *)
(* it from the entry before it, which is its parent and is left a leaf     *)
(* ending the chain one shorter.                                           *)
LEMMA ChainShrink ==
    ASSUME TypeOK, LinkInv, NEW k \in Nat, k >= 2, NEW w \in [1..k -> Entries],
           NEW f, NEW r, Chain(w, k, f, r), children[r] = << >>, Destroy(r)
    PROVE  /\ parent[r] = w[k - 1]
           /\ ChainTo(f, w[k - 1], k - 1)'
<1> DEFINE p == w[k - 1]
<1>1. children[p] = << r >> /\ p \in Entries /\ r \in live
  BY DEF Chain
<1>2. parent[r] = p
  BY <1>1 DEF LinkInv, ChildrenLinked
<1>3. Remove(<< r >>, r) = << >>
  <2>1. NoRepeats(<< r >>) /\ InList(<< r >>, r) /\ << r >> \in Seq({r})
    BY DEF NoRepeats, InList
  <2>2. IndexOf(<< r >>, r) = 1
    BY DEF IndexOf
  <2>. QED
    BY <2>1, <2>2 DEF Remove, InList
<1>4. children'[p] = << >> /\ \A x \in Entries \ {p} : children'[x] = children[x]
  BY <1>1, <1>2, <1>3 DEF Destroy, TypeOK
<1>5. live' = live \ {r}
  BY DEF Destroy
<1>6. /\ \A j \in 1..(k - 1) : w[j] # r
      /\ \A j \in 1..(k - 2) : w[j] # p
  BY ChainDistinct
<1> DEFINE v == [j \in 1..(k - 1) |-> w[j]]
<1>7. v \in [1..(k - 1) -> Entries] /\ v[1] = f /\ v[k - 1] = p
  BY DEF Chain
<1>8. \A j \in 1..(k - 1) : v[j] \in live' /\ type'[v[j]] = "NAMESPACE"
  BY <1>5, <1>6 DEF Chain, Destroy, TypeOK
<1>9. \A j \in 2..(k - 1) : children'[v[j - 1]] = << v[j] >>
  <2> SUFFICES ASSUME NEW j \in 2..(k - 1) PROVE children'[v[j - 1]] = << v[j] >>
    OBVIOUS
  <2>1. j - 1 \in 1..(k - 2) /\ v[j - 1] = w[j - 1] /\ v[j] = w[j] /\ j \in 2..k
    OBVIOUS
  <2>2. children'[w[j - 1]] = children[w[j - 1]]
    BY <1>4, <1>6, <2>1
  <2>. QED
    BY <2>1, <2>2 DEF Chain
<1>. QED
  BY <1>2, <1>4, <1>7, <1>8, <1>9 DEF ChainTo, Chain

(* Chains are made of allocated entries, their types and child lists only. *)
LEMMA ChainFrame ==
    ASSUME UNCHANGED <<live, children, type>>
    PROVE  /\ \A w, k, f, e : Chain(w, k, f, e)' <=> Chain(w, k, f, e)
           /\ \A f, e, k : ChainTo(f, e, k)' <=> ChainTo(f, e, k)
<1>1. \A w, k, f, e : Chain(w, k, f, e)' <=> Chain(w, k, f, e)
  BY DEF Chain
<1>. QED
  BY <1>1 DEF ChainTo

(* The chain fact for the frame's firstNewEntry and currentEntry after a   *)
(* step, from the one for the entries they are set to.                     *)
LEMMA ChainToFrame ==
    ASSUME NEW f, NEW e, NEW k, ChainTo(f, e, k)', call'.firstNew = f, call'.cur = e
    PROVE  ChainTo(call.firstNew, call.cur, k)'
BY DEF ChainTo, Chain

-----------------------------------------------------------------------------
(* CountInv in the states of a call that start or end it.                 *)

LEMMA InitCounts == Init => CountInv
<1> SUFFICES ASSUME Init PROVE CountInv
  OBVIOUS
<1>1. \A e \in Entries : Exact(e)
  BY DEF Init, Exact
<1>. QED
  BY <1>1 DEF Init, CountInv, CountsExact, ReleaseOwes, CreatedLeaf, WalkChain,
              RollbackChain, CleanupChain

(* Outside a release every entry has its exact count.                      *)
LEMMA AllExact ==
    ASSUME CountInv, pc # "release"
    PROVE  \A e \in Entries : Exact(e)
BY DEF CountInv, CountsExact

(* A step that leaves the counts, the tree's shape and the call alone.     *)
LEMMA FrameCounts ==
    ASSUME CountInv, UNCHANGED <<live, children, type, ref, pc, call>>
    PROVE  CountInv'
<1>1. \A w, k, f, e : Chain(w, k, f, e)' <=> Chain(w, k, f, e)
  BY ChainFrame
<1>2. \A f, e, k : ChainTo(f, e, k)' <=> ChainTo(f, e, k)
  BY ChainFrame
<1>3. CountsExact' /\ ReleaseOwes' /\ CreatedLeaf'
  BY DEF CountInv, CountsExact, Exact, ReleaseOwes, Owes, CreatedLeaf
<1>4. WalkChain' /\ RollbackChain'
  BY <1>2 DEF CountInv, WalkChain, RollbackChain
<1>5. CleanupChain'
  BY <1>1, <1>2 DEF CountInv, CleanupChain
<1>. QED
  BY <1>3, <1>4, <1>5 DEF CountInv

(* A call returns with every count exact.                                  *)
LEMMA ReturnCounts ==
    ASSUME \A e \in Entries : Exact(e)', pc' = "idle", call' = IdleFrame
    PROVE  CountInv'
BY DEF CountInv, CountsExact, ReleaseOwes, CreatedLeaf, WalkChain, RollbackChain,
       CleanupChain

(* An API call starts on an idle tree without touching it: no entry is     *)
(* created or new yet.                                                     *)
LEMMA StartCounts ==
    ASSUME CountInv, pc = "idle", UNCHANGED <<live, children, ref>>,
           pc' \in {"create", "obsNs", "convert"}, call'.firstNew = None,
           call'.created = FALSE
    PROVE  CountInv'
<1>1. \A e \in Entries : Exact(e)'
  BY AllExact DEF Exact
<1>. QED
  BY <1>1 DEF CountInv, CountsExact, ReleaseOwes, CreatedLeaf, WalkChain,
              RollbackChain, CleanupChain

(* An API call starts le_mem_Release(r), with r owing one count and every  *)
(* other entry exact.                                                      *)
LEMMA StartReleaseCounts ==
    ASSUME CountInv, pc # "release", NEW r \in Entries, UNCHANGED <<live, children>>,
           \A e \in Entries \ {r} : ref'[e] = ref[e],
           pc' = "release", call'.rel = r, call'.after = "idle", Owes(r)'
    PROVE  CountInv'
<1>1. \A e \in Entries : (pc' = "release" /\ e = call'.rel) \/ Exact(e)'
  BY AllExact DEF Exact
<1>. QED
  BY <1>1 DEF CountInv, CountsExact, ReleaseOwes, CreatedLeaf, WalkChain,
              RollbackChain, CleanupChain

-----------------------------------------------------------------------------
(* CountInv, action by action.                                             *)

(* resTree_DeleteIO: the tombstone count RecordNodeDeletion adds is the    *)
(* one the release then takes back.                                        *)
LEMMA DeleteIOCounts ==
    ASSUME TypeOK, CountInv, NEW e \in Entries, DeleteIO(e)
    PROVE  CountInv'
<1>1. pc = "idle" /\ e \in live
  BY DEF DeleteIO, Idle
<1>2. CASE UNCHANGED <<live, parent, name, children, flags, res, ref, pc, call>>
  BY <1>1, <1>2, AllExact DEF CountInv, CountsExact, Exact, ReleaseOwes, CreatedLeaf,
                              WalkChain, RollbackChain, CleanupChain
<1>3. CASE /\ ref' = [ref EXCEPT ![e] = @ + TombstoneRef({})]
           /\ call' = [IdleFrame EXCEPT !.op = "DeleteIO", !.rel = e]
           /\ pc' = "release"
           /\ UNCHANGED <<live, parent, name, children>>
  <2>1. ref' = [ref EXCEPT ![e] = @ + 1]
    BY <1>3 DEF TombstoneRef
  <2>2. Owes(e)'
    BY <1>1, <1>3, <2>1, AllExact DEF Exact, Owes, TypeOK
  <2>3. call'.rel = e /\ call'.after = "idle"
    BY <1>3, ReleaseFrameType DEF Ops
  <2>. QED
    BY <1>1, <1>3, <2>1, <2>2, <2>3, StartReleaseCounts DEF TypeOK
<1>. QED
  BY <1>2, <1>3 DEF DeleteIO

(* resTree_DeleteObservation, the same way.                                *)
LEMMA DeleteObservationCounts ==
    ASSUME TypeOK, CountInv, NEW e \in Entries, DeleteObservation(e)
    PROVE  CountInv'
<1>1. pc = "idle" /\ e \in live
  BY DEF DeleteObservation, Idle
<1>2. ref' = [ref EXCEPT ![e] = @ + 1]
  BY DEF DeleteObservation, TombstoneRef
<1>3. Owes(e)'
  BY <1>1, <1>2, AllExact DEF Exact, Owes, TypeOK, DeleteObservation
<1>4. call'.rel = e /\ call'.after = "idle" /\ pc' = "release"
  BY ReleaseFrameType DEF Ops, DeleteObservation
<1>. QED
  BY <1>1, <1>2, <1>3, <1>4, StartReleaseCounts DEF TypeOK, DeleteObservation

(* The flush of a zombie releases a childless entry on its last count.     *)
LEMMA FlushDeletionCounts ==
    ASSUME TypeOK, CountInv, NEW e \in Entries, FlushDeletion(e)
    PROVE  CountInv'
<1>1. pc = "idle" /\ e \in live /\ children[e] = << >>
  BY DEF FlushDeletion, Idle
<1>2. Owes(e)'
  BY <1>1, AllExact DEF Exact, Owes, FlushDeletion, IsDeleted, tree
<1>3. call'.rel = e /\ call'.after = "idle" /\ pc' = "release"
  BY ReleaseFrameType DEF Ops, FlushDeletion
<1>. QED
  BY <1>1, <1>2, <1>3, StartReleaseCounts DEF FlushDeletion, tree

(* resTree_GetEntry and resTree_GetResource start on an idle tree.         *)
LEMMA GetEntryCounts ==
    ASSUME TypeOK, CountInv, NEW p \in Paths, GetEntry(p)
    PROVE  CountInv'
BY StartCounts DEF GetEntry, Idle, IdleFrame, tree

LEMMA GetResourceCounts ==
    ASSUME TypeOK, CountInv, NEW op, NEW p, GetResource(op, p)
    PROVE  CountInv'
<1>1. pc = "idle" /\ UNCHANGED <<live, children, ref>>
  BY DEF GetResource, Idle, tree
<1>2. pc' \in {"create", "obsNs", "convert"} /\ call'.firstNew = None
      /\ call'.created = FALSE
  BY DEF GetResource, IdleFrame
<1>. QED
  BY <1>1, <1>2, StartCounts

(* AddChild keeps every count exact: the parent gains a child and a count, *)
(* the new block has its allocation's count and no children.               *)
LEMMA AddChildExact ==
    ASSUME TypeOK, NEW c \in live, NEW nm, NEW n \in Entries \ live, AddChild(c, nm, n),
           \A e \in Entries : Exact(e)
    PROVE  \A e \in Entries : Exact(e)'
<1> SUFFICES ASSUME NEW e \in Entries PROVE Exact(e)'
  OBVIOUS
<1>1. c \in Entries /\ c # n /\ children[c] \in Seq(Entries)
  BY DEF TypeOK
<1>2. CASE e = c
  <2>1. ref'[c] = ref[c] + 1 /\ children'[c] = Append(children[c], n) /\ c \in live'
    BY <1>1 DEF AddChild, TypeOK
  <2>2. Len(children'[c]) = Len(children[c]) + 1
    BY <1>1, <2>1
  <2>. QED
    BY <1>2, <2>1, <2>2 DEF Exact
<1>3. CASE e = n
  BY <1>1, <1>3 DEF AddChild, TypeOK, Exact
<1>4. CASE e \notin {c, n}
  BY <1>4 DEF AddChild, TypeOK, Exact
<1>. QED
  BY <1>2, <1>3, <1>4

(* The caller of a resTree_Create*/GetObservation works on the entry.      *)
LEMMA ConvertStepCounts ==
    ASSUME TypeOK, CountInv, ConvertStep
    PROVE  CountInv'
<1>1. pc = "convert" /\ UNCHANGED <<live, children, ref>>
  BY DEF ConvertStep
<1>2. CASE UNCHANGED <<type, pc, call>>
  BY <1>1, <1>2, FrameCounts
<1>3. CASE pc' = "idle" /\ call' = IdleFrame
  BY <1>1, <1>3, AllExact, ReturnCounts DEF Exact
<1>. QED
  BY <1>2, <1>3 DEF ConvertStep, Return

(* The placeholder is attached, or GetResource drops the entry it created, *)
(* a childless entry on its last count.                                    *)
LEMMA PromoteStepCounts ==
    ASSUME TypeOK, CountInv, PromoteStep
    PROVE  CountInv'
<1>0. PICK e \in Entries : e = call.cur
  BY DEF PromoteStep
<1>1. pc = "promote" /\ UNCHANGED <<live, children, ref>> /\ e \in Entries
  BY DEF PromoteStep, tree
<1>2. \A x \in Entries : Exact(x)'
  BY <1>1, AllExact DEF Exact
<1>3. CASE pc' = "idle" /\ call' = IdleFrame
  BY <1>2, <1>3, ReturnCounts
<1>4. CASE pc' = "convert" /\ UNCHANGED call
  BY <1>2, <1>4 DEF CountInv, CountsExact, ReleaseOwes, CreatedLeaf, WalkChain,
                    RollbackChain, CleanupChain
<1>5. CASE call.created /\ StartRelease(e, "idle")
  <2>1. e \in live /\ children[e] = << >> /\ type[e] = "NAMESPACE"
    BY <1>0, <1>1, <1>5 DEF CountInv, CreatedLeaf
  <2>2. Exact(e)
    BY <1>1, AllExact
  <2>3. ref[e] = 1
    BY <2>1, <2>2 DEF Exact
  <2>0. UNCHANGED type
    BY <1>0, <1>5 DEF PromoteStep, StartRelease, Return, tree
  <2>4. Owes(e)'
    BY <1>1, <2>0, <2>1, <2>3 DEF Owes
  <2>5. call'.rel = e /\ call'.after = "idle" /\ pc' = "release"
    BY <1>0, <1>5 DEF StartRelease, TypeOK, Frames
  <2>. QED
    BY <1>1, <2>4, <2>5, StartReleaseCounts
<1>. QED
  BY <1>0, <1>3, <1>4, <1>5 DEF PromoteStep, Return

(* resTree_GetObsNamespace, perhaps creating "obs" under the root.         *)
LEMMA ObsNamespaceStepCounts ==
    ASSUME TypeOK, LinkInv, CountInv, ObsNamespaceStep
    PROVE  CountInv'
<1>1. pc = "obsNs" /\ call.cur \in Entries
  BY DEF ObsNamespaceStep, TypeOK
<1>2. CASE UNCHANGED <<tree, pc, call>>
  BY <1>2, FrameCounts DEF tree
<1>3. CASE UNCHANGED <<tree, call>> /\ pc' = "promote"
  BY <1>1, <1>3, AllExact DEF tree, CountInv, CountsExact, Exact, ReleaseOwes,
                               CreatedLeaf, WalkChain, RollbackChain, CleanupChain
<1>4. CASE /\ \E n \in Free : AddChild(Root, ObsName, n)
           /\ pc' = "promote" /\ UNCHANGED call
  <2>1. PICK n \in Free : AddChild(Root, ObsName, n)
    BY <1>4
  <2>2. \A x \in Entries : Exact(x)'
    BY <1>1, <2>1, AllExact, AddChildExact DEF Free, TypeOK
  <2>3. CreatedLeaf'
    <3> SUFFICES ASSUME call.created
                 PROVE  /\ call.cur \in live' \ {Root} /\ children'[call.cur] = << >>
                        /\ type'[call.cur] = "NAMESPACE"
      BY <1>4 DEF CreatedLeaf
    <3>1. /\ call.cur \in live \ {Root} /\ children[call.cur] = << >>
          /\ type[call.cur] = "NAMESPACE"
      BY <1>1 DEF CountInv, CreatedLeaf
    <3>. QED
      BY <2>1, <3>1 DEF AddChild, Free, TypeOK
  <2>. QED
    BY <1>4, <2>2, <2>3 DEF CountInv, CountsExact, ReleaseOwes, WalkChain,
                            RollbackChain, CleanupChain
<1>. QED
  BY <1>2, <1>3, <1>4 DEF ObsNamespaceStep

(* One iteration of CreateEntry's cleanup releases the leaf ending the     *)
(* chain, on its last count, and steps currentEntry up to its parent,      *)
(* the entry before it in the chain.                                       *)
LEMMA CreateEntryCleanupCounts ==
    ASSUME TypeOK, LinkInv, CountInv, CreateEntryCleanup
    PROVE  CountInv'
<1>0. PICK tmp \in Entries : tmp = call.cur
  BY DEF CreateEntryCleanup
<1>1. /\ pc = "rollback" /\ UNCHANGED <<live, children, type, ref>> /\ pc' = "release"
      /\ call'.rel = tmp /\ call'.cur = parent[tmp] /\ call'.firstNew = call.firstNew
      /\ call'.after = RollbackNext(tmp, call.firstNew)
  BY <1>0 DEF CreateEntryCleanup, tree, TypeOK, Frames
<1>2. PICK k \in 1..MaxDepth : ChainTo(call.firstNew, tmp, k)
  BY <1>0, <1>1 DEF CountInv, RollbackChain
<1>3. PICK w \in [1..k -> Entries] : Chain(w, k, call.firstNew, tmp)
  BY <1>2 DEF ChainTo
<1>4. tmp \in live /\ children[tmp] = << >> /\ ref[tmp] = 1 /\ type[tmp] = "NAMESPACE"
  <2>1. tmp \in live /\ children[tmp] = << >> /\ type[tmp] = "NAMESPACE"
    BY <1>2, <1>3 DEF Chain, ChainTo
  <2>2. Exact(tmp)
    BY <1>1, AllExact
  <2>. QED
    BY <2>1, <2>2 DEF Exact
<1>5. CountsExact' /\ ReleaseOwes'
  BY <1>1, <1>4, AllExact DEF CountsExact, Exact, ReleaseOwes, Owes
<1>6. CleanupChain'
  <2>1. CASE tmp = call.firstNew
    BY <1>1, <2>1 DEF CleanupChain, RollbackNext
  <2>2. CASE tmp # call.firstNew
    <3>1. k \in 2..MaxDepth
      BY <1>3, <2>2 DEF Chain
    <3>2. children[w[k - 1]] = << tmp >> /\ w[k - 1] \in Entries
      BY <1>3, <3>1 DEF Chain
    <3>3. parent[tmp] = w[k - 1]
      BY <3>2 DEF LinkInv, ChildrenLinked
    <3>4. (Chain(w, k, call.firstNew, call.rel) /\ w[k - 1] = call.cur)'
      BY <1>1, <1>3, <3>3 DEF Chain
    <3>5. (ref[call.rel] = 1 /\ children[call.rel] = << >>)'
      BY <1>1, <1>4
    <3>. QED
      BY <3>1, <3>4, <3>5 DEF CleanupChain
  <2>. QED
    BY <2>1, <2>2
<1>. QED
  BY <1>1, <1>5, <1>6 DEF CountInv, CreatedLeaf, WalkChain, RollbackChain

(* One le_mem_Release: a count above 1 is decremented, which settles what  *)
(* the entry owed; the last count runs EntryDestructor, which unlinks a   *)
(* leaf and passes the debt on to its parent.                              *)
LEMMA ReleaseStepCounts ==
    ASSUME TypeOK, LinkInv, CountInv, ReleaseStep
    PROVE  CountInv'
<1>0. PICK r \in Entries : r = call.rel
  BY DEF ReleaseStep
<1>1. /\ pc = "release"
      /\ Owes(r)
      /\ \A e \in Entries \ {r} : Exact(e)
  BY <1>0 DEF ReleaseStep, CountInv, ReleaseOwes, CountsExact
<1>2. ref[r] # 0 => r \in live
  BY DEF LinkInv, FreeBlocks
<1>3. CASE fatal' = TRUE /\ UNCHANGED <<live, children, type, ref, pc, call>>
  BY <1>3, FrameCounts
<1>4. CASE /\ ref[r] \notin {0, 1}
           /\ ref' = [ref EXCEPT ![r] = @ - 1]
           /\ pc' = call.after
           /\ call' = IF call.after = "idle" THEN IdleFrame ELSE call
           /\ UNCHANGED <<live, children, type>>
  <2>1. ref[r] = Len(children[r]) + 2 /\ r \in live
    BY <1>1, <1>2, <1>4 DEF Owes
  <2>2. \A e \in Entries : Exact(e)'
    BY <1>1, <1>4, <2>1 DEF Exact, TypeOK
  <2>3. CASE call.after = "idle"
    BY <1>4, <2>2, <2>3, ReturnCounts
  <2>4. CASE call.after = "rollback"
    <3>1. pc' = "rollback" /\ call' = call
      BY <1>4, <2>4
    <3>2. \E k \in 1..MaxDepth : ChainTo(call.firstNew, call.cur, k)
      BY <1>0, <1>1, <2>1, <2>4 DEF CountInv, CleanupChain
    <3>3. RollbackChain'
      BY <1>4, <3>1, <3>2, ChainFrame DEF RollbackChain
    <3>. QED
      BY <2>2, <3>1, <3>3 DEF CountInv, CountsExact, ReleaseOwes, CreatedLeaf,
                              WalkChain, CleanupChain
  <2>. QED
    BY <2>3, <2>4 DEF TypeOK, Frames
<1>5. CASE /\ ref[r] = 1 /\ parent[r] # None /\ children[r] = << >>
           /\ Destroy(r)
           /\ call' = [call EXCEPT !.rel = parent[r]]
           /\ pc' = pc
  <2> DEFINE p == parent[r]
  <2>1. r \in live \ {Root} /\ p \in live /\ InList(children[p], r) /\ p # r
    BY <1>2, <1>5 DEF LinkInv, ParentsList, TypeOK, InList
  <2>2. p \in Entries /\ children[p] \in Seq(Entries) /\ NoRepeats(children[p])
    BY <2>1 DEF TypeOK, LinkInv, ListsNoRepeats
  <2>3. children'[p] = Remove(children[p], r)
    BY <1>5, <2>2 DEF Destroy, TypeOK
  <2>4. Len(children'[p]) = Len(children[p]) - 1
    BY <2>1, <2>2, <2>3, RemoveFacts
  <2>5. ref'[p] = Len(children[p]) + 1
    BY <1>1, <1>5, <2>1, <2>2 DEF Exact, Destroy, TypeOK
  <2>6. call'.rel = p /\ call'.cur = call.cur /\ call'.firstNew = call.firstNew
        /\ call'.after = call.after /\ pc' = "release"
    BY <1>1, <1>5 DEF TypeOK, Frames
  <2>7. ReleaseOwes'
    BY <2>4, <2>5, <2>6 DEF ReleaseOwes, Owes
  <2>8. CountsExact'
    <3> SUFFICES ASSUME NEW e \in Entries, e # p PROVE Exact(e)'
      BY <2>6 DEF CountsExact
    <3>1. CASE e = r
      BY <1>5, <3>1 DEF Destroy, Exact, TypeOK
    <3>2. CASE e # r
      BY <1>1, <1>5, <2>2, <3>2 DEF Destroy, Exact, TypeOK
    <3>. QED
      BY <3>1, <3>2
  <2>9. CleanupChain'
    <3> SUFFICES ASSUME call.after = "rollback"
                 PROVE  /\ p = call.cur
                        /\ ref'[p] = 2
                        /\ \E k \in 1..MaxDepth : ChainTo(call.firstNew, call.cur, k)'
      BY <2>6 DEF CleanupChain
    <3>1. PICK k \in 2..MaxDepth : \E w \in [1..k -> Entries] :
                 Chain(w, k, call.firstNew, r) /\ w[k - 1] = call.cur
      BY <1>0, <1>1, <1>5, <2>6 DEF CountInv, CleanupChain
    <3>2. PICK w \in [1..k -> Entries] : Chain(w, k, call.firstNew, r) /\ w[k - 1] = call.cur
      BY <3>1
    <3>3. p = w[k - 1] /\ ChainTo(call.firstNew, w[k - 1], k - 1)'
      BY <1>5, <3>1, <3>2, ChainShrink
    <3>4. k \in 2..k /\ k - 1 \in 1..MaxDepth
      BY <3>1, DepthAssumption
    <3>5. children[p] = << r >>
      BY <3>2, <3>3, <3>4 DEF Chain
    <3>6. ref'[p] = 2
      BY <2>5, <3>5
    <3>. QED
      BY <2>6, <3>2, <3>3, <3>4, <3>6
  <2>. QED
    BY <2>6, <2>7, <2>8, <2>9 DEF CountInv, CreatedLeaf, WalkChain, RollbackChain
<1>. QED
  BY <1>0, <1>3, <1>4, <1>5 DEF ReleaseStep, tree

(* One iteration of CreateEntry's loop.  Once it has made an entry, the    *)
(* walk stays on the leaf it made, so every later segment makes one more:  *)
(* the chain grows by one per segment and currentEntry is always its leaf. *)
LEMMA CreateEntryStepCounts ==
    ASSUME TypeOK, LinkInv, CountInv, CreateEntryStep
    PROVE  CountInv'
<1>a. /\ pc = "create" /\ call.path \in Paths /\ call.cur \in Entries
      /\ call.idx \in 1..Len(call.path.segs)
  BY DEF CreateEntryStep, TypeOK
<1>b. call.path.segs \in Seq(Names) /\ Len(call.path.segs) \in 1..MaxDepth
  BY <1>a, SegSeqsFacts DEF Paths
<1>c. /\ call.idx \in 1..MaxDepth /\ call.path.segs[call.idx] \in Names
      /\ call.firstNew \in Entries \cup {None}
      /\ ChildEx(call.cur, call.path.segs[call.idx]) \in Entries \cup {None}
  BY <1>a, <1>b, DepthAssumption, ChildExType DEF TypeOK, Frames
<1>0. PICK c \in Entries, i \in 1..MaxDepth, f \in Entries \cup {None}, nm \in Names,
           z \in Entries \cup {None} :
          /\ c = call.cur /\ i = call.idx /\ f = call.firstNew
          /\ nm = call.path.segs[i] /\ z = ChildEx(c, nm)
          /\ i \in 1..Len(call.path.segs)
  BY <1>a, <1>c
<1> DEFINE last == IsLastSegment(i, call.path.segs)
<1>1. pc = "create" /\ c \in live /\ \A e \in Entries : Exact(e)
  BY <1>0, AllExact DEF CreateEntryStep, LinkInv, WalkLive
<1>2. i <= MaxDepth
  BY <1>0
<1>3. call.firstNew # None => children[c] = << >> /\ z = None
  <2> SUFFICES ASSUME call.firstNew # None PROVE children[c] = << >> /\ z = None
    OBVIOUS
  <2>1. children[c] = << >>
    BY <1>0, <1>1 DEF CountInv, WalkChain, ChainTo
  <2>. QED
    BY <1>0, <2>1, ChildExEmpty
<1>4. z # None => z \in live
  BY <1>0, <1>1, ChildExInList DEF LinkInv, ChildrenLinked, InList, TypeOK
<1>5. CASE z # None /\ (last \/ (IsDeleted(z) /\ children[z] # << >>))
  <2>1. UNCHANGED <<tree, pc, call>>
    BY <1>0, <1>5 DEF CreateEntryStep
  <2>. QED
    BY <2>1, FrameCounts DEF tree
<1>6. CASE z # None /\ ~last /\ ~IsDeleted(z)
  <2>1. UNCHANGED <<tree, pc>> /\ call' = [call EXCEPT !.idx = i + 1, !.cur = z]
    BY <1>0, <1>6 DEF CreateEntryStep
  <2>2. call.firstNew = None /\ call'.firstNew = None
    BY <1>3, <1>6, <2>1 DEF TypeOK, Frames
  <2>. QED
    BY <1>1, <2>1, <2>2 DEF tree, CountInv, CountsExact, Exact, ReleaseOwes, CreatedLeaf,
                            WalkChain, RollbackChain, CleanupChain
<1>7. CASE z # None /\ ~last /\ IsDeleted(z) /\ children[z] = << >>
  <2>1. /\ UNCHANGED <<live, children, type, ref, pc>>
        /\ call' = [call EXCEPT !.idx = i + 1, !.cur = z,
                                !.firstNew = IF call.firstNew = None THEN z ELSE call.firstNew]
    BY <1>0, <1>7 DEF CreateEntryStep
  <2>2. call.firstNew = None
    BY <1>3, <1>7
  <2>3. call'.firstNew = z /\ call'.cur = z /\ call'.idx = i + 1
    BY <2>1, <2>2 DEF TypeOK, Frames
  <2>4. ChainTo(z, z, 1)'
    BY <1>4, <1>7, <2>1, ChainSingle DEF TypeOK, IsDeleted
  <2>5. WalkChain'
    BY <1>0, <2>1, <2>3, <2>4, ChainToFrame DEF WalkChain
  <2>. QED
    BY <1>1, <2>1, <2>5 DEF CountInv, CountsExact, Exact, ReleaseOwes, CreatedLeaf,
                            RollbackChain, CleanupChain
<1>8. CASE z = None /\ Free = {}
  <2>1. /\ UNCHANGED <<live, children, type, ref>>
        /\ IF call.firstNew = None
             THEN Return
             ELSE pc' = "rollback" /\ call' = [call EXCEPT !.path = NoPath, !.idx = 0]
    BY <1>0, <1>8 DEF CreateEntryStep, tree
  <2>2. CASE call.firstNew = None
    BY <1>1, <2>1, <2>2, ReturnCounts DEF Return, Exact
  <2>3. CASE call.firstNew # None
    <3>1. pc' = "rollback" /\ call'.firstNew = f /\ call'.cur = c
      BY <1>0, <2>1, <2>3 DEF TypeOK, Frames
    <3>2. PICK k \in 1..(i - 1) : ChainTo(f, c, k)
      BY <1>0, <1>1, <2>3 DEF CountInv, WalkChain
    <3>3. k \in 1..MaxDepth /\ ChainTo(f, c, k)'
      <4>1. UNCHANGED <<live, children, type>>
        BY <2>1
      <4>. QED
        BY <1>2, <3>2, <4>1, ChainFrame, DepthAssumption
    <3>. QED
      BY <1>1, <2>1, <3>1, <3>3 DEF CountInv, CountsExact, Exact, ReleaseOwes,
                                    CreatedLeaf, WalkChain, RollbackChain, CleanupChain
  <2>. QED
    BY <2>2, <2>3
<1>9. CASE z = None /\ Free # {}
  <2>1. PICK n \in Free :
          /\ AddChild(c, nm, n)
          /\ IF last
               THEN /\ pc' = AfterCreate(call.op)
                    /\ call' = IF call.op = "GetEntry" THEN IdleFrame
                               ELSE [call EXCEPT !.cur = n, !.created = TRUE,
                                         !.firstNew = IF call.firstNew = None
                                                        THEN n ELSE call.firstNew,
                                         !.path = NoPath, !.idx = 0]
               ELSE /\ call' = [call EXCEPT !.idx = i + 1, !.cur = n,
                                   !.firstNew = IF call.firstNew = None
                                                  THEN n ELSE call.firstNew]
                    /\ UNCHANGED pc
    BY <1>0, <1>9 DEF CreateEntryStep
  <2>2. n \in Entries \ live /\ n # Root /\ \A e \in Entries : Exact(e)'
    BY <1>1, <2>1, AddChildExact DEF Free, TypeOK
  <2>3. n \in live' /\ children'[n] = << >> /\ type'[n] = "NAMESPACE"
    BY <2>1, <2>2 DEF AddChild, TypeOK
  <2>4. CASE last /\ call.op = "GetEntry"
    BY <2>1, <2>2, <2>4, ReturnCounts DEF AfterCreate
  <2>5. CASE last /\ call.op # "GetEntry"
    <3>1. pc' = "obsNs" /\ call'.cur = n
      BY <2>1, <2>5 DEF AfterCreate, TypeOK, Frames
    <3>. QED
      BY <2>2, <2>3, <3>1 DEF CountInv, CountsExact, ReleaseOwes, CreatedLeaf,
                              WalkChain, RollbackChain, CleanupChain
  <2>6. CASE ~last
    <3>1. pc' = "create" /\ call'.cur = n /\ call'.idx = i + 1
      BY <1>1, <2>1, <2>6 DEF TypeOK, Frames
    <3>2. WalkChain'
      <4>1. CASE call.firstNew = None
        <5>1. call'.firstNew = n
          BY <2>1, <2>6, <4>1 DEF TypeOK, Frames
        <5>2. ChainTo(n, n, 1)'
          BY <2>2, <2>3, ChainSingle
        <5>. QED
          BY <1>0, <3>1, <5>1, <5>2, ChainToFrame DEF WalkChain
      <4>2. CASE call.firstNew # None
        <5>1. call'.firstNew = f
          BY <1>0, <2>1, <2>6, <4>2 DEF TypeOK, Frames
        <5>2. PICK k \in 1..(i - 1) : ChainTo(f, c, k)
          BY <1>0, <1>1, <4>2 DEF CountInv, WalkChain
        <5>3. ChainTo(f, n, k + 1)'
          BY <1>0, <2>1, <2>2, <5>2, ChainExtend
        <5>. QED
          BY <1>0, <3>1, <5>1, <5>2, <5>3, ChainToFrame DEF WalkChain
      <4>. QED
        BY <4>1, <4>2
    <3>. QED
      BY <2>2, <3>1, <3>2 DEF CountInv, CountsExact, ReleaseOwes, CreatedLeaf,
                              RollbackChain, CleanupChain
  <2>. QED
    BY <2>4, <2>5, <2>6
<1>10. \/ z # None /\ (last \/ (IsDeleted(z) /\ children[z] # << >>))
       \/ z # None /\ ~last /\ ~IsDeleted(z)
       \/ z # None /\ ~last /\ IsDeleted(z) /\ children[z] = << >>
       \/ z = None /\ Free = {}
       \/ z = None /\ Free # {}
  OBVIOUS
<1>. QED
  BY <1>5, <1>6, <1>7, <1>8, <1>9, <1>10

LEMMA NextCounts ==
    ASSUME TypeOK, LinkInv, CountInv, [Next]_vars
    PROVE  CountInv'
<1>1. CASE \/ \E e \in Entries, b \in BOOLEAN : SetRelevance(e, b)
           \/ \E e \in Entries : SetClearNewnessFlag(e)
           \/ \E e \in Entries : ClearNewness(e)
  BY <1>1, FrameCounts DEF SetRelevance, SetClearNewnessFlag, ClearNewness
<1>2. CASE Halted \/ UNCHANGED vars
  <2>1. UNCHANGED vars
    BY <1>2 DEF Halted
  <2>. QED
    BY <2>1, FrameCounts DEF vars
<1>3. CASE \E p \in Paths : GetEntry(p)
  BY <1>3, GetEntryCounts
<1>4. CASE \E op \in {"GetResource", "CreateInput", "CreateOutput", "GetObservation"},
              p \in Paths : GetResource(op, p)
  BY <1>4, GetResourceCounts
<1>5. CASE \E e \in Entries : DeleteIO(e)
  BY <1>5, DeleteIOCounts
<1>6. CASE \E e \in Entries : DeleteObservation(e)
  BY <1>6, DeleteObservationCounts
<1>7. CASE \E e \in Entries : FlushDeletion(e)
  BY <1>7, FlushDeletionCounts
<1>8. CASE CreateEntryStep
  BY <1>8, CreateEntryStepCounts
<1>9. CASE CreateEntryCleanup
  BY <1>9, CreateEntryCleanupCounts
<1>10. CASE ObsNamespaceStep
  BY <1>10, ObsNamespaceStepCounts
<1>11. CASE PromoteStep
  BY <1>11, PromoteStepCounts
<1>12. CASE ConvertStep
  BY <1>12, ConvertStepCounts
<1>13. CASE ReleaseStep
  BY <1>13, ReleaseStepCounts
<1>. QED
  BY <1>1, <1>2, <1>3, <1>4, <1>5, <1>6, <1>7, <1>8, <1>9, <1>10, <1>11, <1>12, <1>13
  DEF Next

(* Between calls every count is exact: no path through CreateEntry and its *)
(* cleanup, GetResource's release of the entry it created, DeleteIO,       *)
(* DeleteObservation and the snapshot flush with RecordNodeDeletion, and   *)
(* the EntryDestructor cascade, loses a count or leaves one behind.        *)
THEOREM CountsExactBetweenCalls == Spec => []RefCountExact
<1>1. Init => TypeOK /\ LinkInv /\ CountInv
  BY InitTypeOK, InitLinks, InitCounts
<1>2. TypeOK /\ LinkInv /\ CountInv /\ [Next]_vars => (TypeOK /\ LinkInv /\ CountInv)'
  BY NextTypeOK, NextLinks, NextCounts
<1>3. CountInv => RefCountExact
  BY DEF CountInv, CountsExact, Exact, RefCountExact
<1>. QED
  BY <1>1, <1>2, <1>3, PTL DEF Spec

=============================================================================
