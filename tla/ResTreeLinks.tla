---------------------------- MODULE ResTreeLinks ----------------------------
(***************************************************************************)
(* The parentPtr links and the childList of every entry agree, in every    *)
(* state of every call: a proof of TreeLinked for the resource tree model  *)
(* ResTree, for every pool, set of names and path depth.                   *)
(*                                                                         *)
(* TreeLinked is not inductive by itself.  AddChild links a block the pool *)
(* hands out, so the free blocks must be in no list and have no children;  *)
(* EntryDestructor runs on a block whose count reached zero, so the free   *)
(* blocks must be exactly those with count 0; AddChild links under         *)
(* currentEntry, so the walk of CreateEntry must stay on allocated         *)
(* entries.  LinkInv adds these facts.                                     *)
(***************************************************************************)
EXTENDS ResTreeProofs

-----------------------------------------------------------------------------
(* Lists.                                                                  *)

(* x is an element of the list s.                                          *)
InList(s, x) == \E j \in DOMAIN s : s[j] = x

(* No element occurs twice in s.                                           *)
NoRepeats(s) == \A i, j \in DOMAIN s : s[i] = s[j] => i = j

(* le_dls_Remove on a list without repeats removes exactly x: the list    *)
(* keeps its other elements and no repeats, and is one shorter when x was *)
(* in it.                                                                  *)
LEMMA RemoveFacts ==
    ASSUME NEW S, NEW s \in Seq(S), NEW x, NoRepeats(s)
    PROVE  /\ Remove(s, x) \in Seq(S)
           /\ \A y : InList(Remove(s, x), y) <=> InList(s, y) /\ y # x
           /\ NoRepeats(Remove(s, x))
           /\ InList(s, x) => Len(Remove(s, x)) = Len(s) - 1
<1>1. Remove(s, x) \in Seq(S)
  BY RemoveType
<1>2. CASE InList(s, x)
  <2> DEFINE i == IndexOf(s, x)
             t == [k \in 1..(Len(s) - 1) |-> IF k < i THEN s[k] ELSE s[k + 1]]
  <2>1. i \in 1..Len(s) /\ s[i] = x
    BY <1>2 DEF IndexOf, InList
  <2>2. Remove(s, x) = t
    BY <1>2 DEF Remove, InList
  <2>3. \A y : InList(t, y) <=> InList(s, y) /\ y # x
    <3> SUFFICES ASSUME NEW y PROVE InList(t, y) <=> InList(s, y) /\ y # x
      OBVIOUS
    <3>1. InList(t, y) => InList(s, y) /\ y # x
      BY <2>1 DEF InList, NoRepeats
    <3>2. InList(s, y) /\ y # x => InList(t, y)
      <4> SUFFICES ASSUME NEW j \in DOMAIN s, s[j] = y, y # x PROVE InList(t, y)
        BY DEF InList
      <4>1. CASE j < i
        BY <2>1, <4>1 DEF InList
      <4>2. CASE j > i
        <5>1. j - 1 \in 1..(Len(s) - 1) /\ ~(j - 1 < i)
          BY <2>1, <4>2
        <5>. QED
          BY <5>1 DEF InList
      <4>. QED
        BY <2>1, <4>1, <4>2
    <3>. QED
      BY <3>1, <3>2
  <2>4. NoRepeats(t)
    BY <2>1 DEF NoRepeats
  <2>5. Len(t) = Len(s) - 1
    BY <2>1
  <2>. QED
    BY <1>1, <2>2, <2>3, <2>4, <2>5
<1>3. CASE ~InList(s, x)
  <2>1. Remove(s, x) = s
    BY <1>3 DEF Remove, InList
  <2>. QED
    BY <1>1, <1>3, <2>1 DEF InList
<1>. QED
  BY <1>2, <1>3

(* Appending an element the list does not hold keeps it free of repeats.   *)
LEMMA AppendFacts ==
    ASSUME NEW S, NEW s \in Seq(S), NEW n \in S, NoRepeats(s), ~InList(s, n)
    PROVE  /\ Append(s, n) \in Seq(S)
           /\ \A y : InList(Append(s, n), y) <=> InList(s, y) \/ y = n
           /\ NoRepeats(Append(s, n))
<1>1. \A y : InList(Append(s, n), y) <=> InList(s, y) \/ y = n
  <2> SUFFICES ASSUME NEW y PROVE InList(Append(s, n), y) <=> InList(s, y) \/ y = n
    OBVIOUS
  <2>1. InList(Append(s, n), y) => InList(s, y) \/ y = n
    <3> SUFFICES ASSUME NEW k \in 1..(Len(s) + 1), Append(s, n)[k] = y
                 PROVE  InList(s, y) \/ y = n
      BY DEF InList
    <3>1. CASE k = Len(s) + 1
      BY <3>1
    <3>2. CASE k \in 1..Len(s)
      BY <3>2 DEF InList
    <3>. QED
      BY <3>1, <3>2
  <2>2. InList(s, y) => InList(Append(s, n), y)
    BY DEF InList
  <2>3. y = n => InList(Append(s, n), y)
    <3>1. Len(s) + 1 \in DOMAIN Append(s, n) /\ Append(s, n)[Len(s) + 1] = n
      OBVIOUS
    <3>. QED
      BY <3>1 DEF InList
  <2>. QED
    BY <2>1, <2>2, <2>3
<1>2. NoRepeats(Append(s, n))
  <2> SUFFICES ASSUME NEW i \in 1..(Len(s) + 1), NEW j \in 1..(Len(s) + 1),
                      Append(s, n)[i] = Append(s, n)[j]
               PROVE  i = j
    BY DEF NoRepeats
  <2>1. \A k \in 1..Len(s) : Append(s, n)[k] = s[k] /\ s[k] # n
    BY DEF InList
  <2>2. Append(s, n)[Len(s) + 1] = n
    OBVIOUS
  <2>3. CASE i \in 1..Len(s) /\ j \in 1..Len(s)
    BY <2>1, <2>3 DEF NoRepeats
  <2>. QED
    BY <2>1, <2>2, <2>3
<1>. QED
  BY <1>1, <1>2

-----------------------------------------------------------------------------
(* The inductive invariant.                                                *)

(* A block the pool holds has count 0 and no children.                    *)
FreeBlocks == \A e \in Entries \ live : ref[e] = 0 /\ children[e] = << >>

(* Every child in a list is allocated and has the list's owner as parent.  *)
ChildrenLinked ==
    \A e \in Entries : \A j \in DOMAIN children[e] :
        children[e][j] \in live /\ parent[children[e][j]] = e

(* No entry is linked twice into a list.                                   *)
ListsNoRepeats == \A e \in Entries : NoRepeats(children[e])

(* Every allocated entry but the root has an allocated parent whose list   *)
(* holds it.                                                               *)
ParentsList ==
    \A e \in live \ {Root} : parent[e] \in live /\ InList(children[parent[e]], e)

(* CreateEntry's currentEntry is allocated.                                *)
WalkLive == pc = "create" => call.cur \in live

LinkInv == FreeBlocks /\ ChildrenLinked /\ ListsNoRepeats /\ ParentsList /\ WalkLive

(* resTree_FindChildEx returns an element of the child list.               *)
LEMMA ChildExInList ==
    ASSUME NEW c, NEW nm, ChildEx(c, nm) # None
    PROVE  InList(children[c], ChildEx(c, nm))
<1> DEFINE ch == children[c]
           IsFirst(j) == name[ch[j]] = nm /\ \A k \in 1..(j - 1) : name[ch[k]] # nm
<1>1. \E j \in DOMAIN ch : IsFirst(j)
  BY DEF ChildEx
<1>2. (CHOOSE j \in DOMAIN ch : IsFirst(j)) \in DOMAIN ch
  BY <1>1
<1>. QED
  BY <1>1, <1>2 DEF ChildEx, InList

LEMMA InitLinks == Init => LinkInv
BY EntriesAssumption DEF Init, LinkInv, FreeBlocks, ChildrenLinked, ListsNoRepeats,
                         NoRepeats, ParentsList, WalkLive

(* A step that leaves the links and the allocation alone, and the counts   *)
(* of free blocks, keeps LinkInv if the walk stays on allocated entries.   *)
LEMMA FrameLinks ==
    ASSUME LinkInv, UNCHANGED <<live, parent, children>>,
           \A e \in Entries \ live : ref'[e] = ref[e],
           pc' = "create" => call'.cur \in live
    PROVE  LinkInv'
BY DEF LinkInv, FreeBlocks, ChildrenLinked, ListsNoRepeats, ParentsList, WalkLive

(* AddChild links a free block under an allocated entry.                   *)
LEMMA AddChildLinks ==
    ASSUME TypeOK, LinkInv, NEW c \in live, NEW nm, NEW n \in Entries \ live,
           AddChild(c, nm, n)
    PROVE  FreeBlocks' /\ ChildrenLinked' /\ ListsNoRepeats' /\ ParentsList'
<1>1. /\ c # n /\ c \in Entries
      /\ children[n] = << >> /\ ~InList(children[c], n)
      /\ children[c] \in Seq(Entries) /\ NoRepeats(children[c])
  BY DEF LinkInv, FreeBlocks, ChildrenLinked, ListsNoRepeats, InList, TypeOK
<1>2. /\ Append(children[c], n) \in Seq(Entries)
      /\ \A y : InList(Append(children[c], n), y) <=> InList(children[c], y) \/ y = n
      /\ NoRepeats(Append(children[c], n))
  BY <1>1, AppendFacts
<1>3. /\ children' = [children EXCEPT ![c] = Append(children[c], n), ![n] = << >>]
      /\ live' = live \cup {n}
      /\ parent' = [parent EXCEPT ![n] = c]
      /\ ref' = [ref EXCEPT ![c] = ref[c] + 1, ![n] = 1]
  BY DEF AddChild
<1>4. FreeBlocks'
  BY <1>1, <1>3 DEF LinkInv, FreeBlocks, TypeOK
<1>5. ChildrenLinked'
  <2> SUFFICES ASSUME NEW e \in Entries, NEW j \in DOMAIN children'[e]
               PROVE  children'[e][j] \in live' /\ parent'[children'[e][j]] = e
    BY DEF ChildrenLinked
  <2>1. CASE e = c
    <3>1. InList(children[c], children'[e][j]) \/ children'[e][j] = n
      BY <1>1, <1>2, <1>3, <2>1 DEF InList, TypeOK
    <3>2. \A y : InList(children[c], y) => y \in live /\ parent[y] = c
      BY <1>1 DEF LinkInv, ChildrenLinked, InList
    <3>. QED
      BY <1>1, <1>3, <2>1, <3>1, <3>2 DEF TypeOK
  <2>2. CASE e = n
    BY <1>1, <1>3, <2>2 DEF TypeOK
  <2>3. CASE e \notin {c, n}
    BY <1>1, <1>3, <2>3 DEF LinkInv, ChildrenLinked, TypeOK
  <2>. QED
    BY <2>1, <2>2, <2>3
<1>6. ListsNoRepeats'
  <2> SUFFICES ASSUME NEW e \in Entries PROVE NoRepeats(children'[e])
    BY DEF ListsNoRepeats
  <2>1. CASE e = c
    BY <1>1, <1>2, <1>3, <2>1 DEF TypeOK
  <2>2. CASE e = n
    BY <1>1, <1>3, <2>2 DEF TypeOK, NoRepeats
  <2>3. CASE e \notin {c, n}
    BY <1>1, <1>3, <2>3 DEF LinkInv, ListsNoRepeats, TypeOK
  <2>. QED
    BY <2>1, <2>2, <2>3
<1>7. ParentsList'
  <2> SUFFICES ASSUME NEW e \in live' \ {Root}
               PROVE  parent'[e] \in live' /\ InList(children'[parent'[e]], e)
    BY DEF ParentsList
  <2>1. CASE e = n
    BY <1>1, <1>2, <1>3, <2>1 DEF TypeOK
  <2>2. CASE e # n
    <3>1. e \in live \ {Root} /\ parent'[e] = parent[e]
      BY <1>3, <2>2 DEF TypeOK
    <3>2. parent[e] \in live /\ InList(children[parent[e]], e)
      BY <3>1 DEF LinkInv, ParentsList
    <3>3. parent[e] # n
      BY <3>2
    <3>. QED
      BY <1>1, <1>2, <1>3, <3>1, <3>2, <3>3 DEF TypeOK
  <2>. QED
    BY <2>1, <2>2
<1>. QED
  BY <1>4, <1>5, <1>6, <1>7

(* EntryDestructor unlinks an allocated childless entry that has a parent  *)
(* and the block returns to the pool with count 0.                         *)
LEMMA DestroyLinks ==
    ASSUME TypeOK, LinkInv, NEW r \in live, parent[r] # None, children[r] = << >>,
           Destroy(r)
    PROVE  FreeBlocks' /\ ChildrenLinked' /\ ListsNoRepeats' /\ ParentsList'
<1> DEFINE p == parent[r]
<1>1. r # Root /\ r \in Entries
  BY DEF TypeOK
<1>2. p \in live /\ InList(children[p], r) /\ p # r /\ p \in Entries
  BY <1>1 DEF LinkInv, ParentsList, InList, TypeOK
<1>3. children[p] \in Seq(Entries) /\ NoRepeats(children[p])
  BY <1>2 DEF LinkInv, ListsNoRepeats, TypeOK
<1>4. /\ Remove(children[p], r) \in Seq(Entries)
      /\ \A y : InList(Remove(children[p], r), y) <=> InList(children[p], y) /\ y # r
      /\ NoRepeats(Remove(children[p], r))
  BY <1>3, RemoveFacts
<1>5. /\ children' = [children EXCEPT ![p] = Remove(children[p], r)]
      /\ live' = live \ {r}
      /\ parent' = [parent EXCEPT ![r] = None]
      /\ ref' = [ref EXCEPT ![r] = 0]
  BY DEF Destroy
(* r is in no other list, and no entry has r as its parent.                *)
<1>6. \A e \in Entries : InList(children[e], r) => e = p
  BY DEF LinkInv, ChildrenLinked, InList
<1>7. \A e \in live \ {Root} : parent[e] # r
  BY DEF LinkInv, ParentsList, InList
<1>8. FreeBlocks'
  BY <1>2, <1>5 DEF LinkInv, FreeBlocks, TypeOK
<1>9. ChildrenLinked'
  <2> SUFFICES ASSUME NEW e \in Entries, NEW j \in DOMAIN children'[e]
               PROVE  children'[e][j] \in live' /\ parent'[children'[e][j]] = e
    BY DEF ChildrenLinked
  <2>1. CASE e = p
    <3> DEFINE y == children'[e][j]
    <3>1. InList(children[p], y) /\ y # r
      BY <1>4, <1>5, <2>1 DEF InList, TypeOK
    <3>2. y \in live /\ parent[y] = p
      BY <1>2, <3>1 DEF LinkInv, ChildrenLinked, InList
    <3>. QED
      BY <1>5, <2>1, <3>1, <3>2 DEF TypeOK
  <2>2. CASE e # p
    <3> DEFINE y == children[e][j]
    <3>1. children'[e] = children[e] /\ j \in DOMAIN children[e]
      BY <1>5, <2>2 DEF TypeOK
    <3>2. y \in live /\ parent[y] = e /\ y # r
      BY <1>6, <2>2, <3>1 DEF LinkInv, ChildrenLinked, InList
    <3>. QED
      BY <1>5, <3>1, <3>2 DEF TypeOK
  <2>. QED
    BY <2>1, <2>2
<1>10. ListsNoRepeats'
  <2> SUFFICES ASSUME NEW e \in Entries PROVE NoRepeats(children'[e])
    BY DEF ListsNoRepeats
  <2>1. CASE e = p
    BY <1>4, <1>5, <2>1 DEF TypeOK
  <2>2. CASE e # p
    BY <1>5, <2>2 DEF LinkInv, ListsNoRepeats, TypeOK
  <2>. QED
    BY <2>1, <2>2
<1>11. ParentsList'
  <2> SUFFICES ASSUME NEW e \in live' \ {Root}
               PROVE  parent'[e] \in live' /\ InList(children'[parent'[e]], e)
    BY DEF ParentsList
  <2>1. e \in live \ {Root} /\ e # r /\ parent'[e] = parent[e]
    BY <1>5 DEF TypeOK
  <2>2. parent[e] \in live /\ InList(children[parent[e]], e) /\ parent[e] # r
    BY <1>7, <2>1 DEF LinkInv, ParentsList
  <2>3. parent[e] \in Entries
    BY <2>2 DEF TypeOK
  <2>4. CASE parent[e] = p
    BY <1>4, <1>5, <2>1, <2>2, <2>4 DEF TypeOK
  <2>5. CASE parent[e] # p
    BY <1>5, <2>1, <2>2, <2>3, <2>5 DEF TypeOK
  <2>. QED
    BY <2>4, <2>5
<1>. QED
  BY <1>8, <1>9, <1>10, <1>11

-----------------------------------------------------------------------------
(* LinkInv, action by action.                                              *)

LEMMA CreateEntryStepLinks ==
    ASSUME TypeOK, LinkInv, CreateEntryStep
    PROVE  LinkInv'
<1> DEFINE c == call.cur
           i == call.idx
           nm == call.path.segs[i]
           z == ChildEx(c, nm)
<1>1. c \in live
  BY DEF CreateEntryStep, LinkInv, WalkLive
<1>2. z # None => z \in live
  BY <1>1, ChildExInList DEF LinkInv, ChildrenLinked, InList, TypeOK
<1>3. CASE z = None /\ \E n \in Free : AddChild(c, nm, n)
  <2>1. PICK n \in Free : AddChild(c, nm, n) /\ (pc' = "create" => call'.cur = n)
    BY <1>3 DEF CreateEntryStep, AddChild, Free, AfterCreate, TypeOK, Frames, IdleFrame
  <2>2. FreeBlocks' /\ ChildrenLinked' /\ ListsNoRepeats' /\ ParentsList'
    BY <1>1, <2>1, AddChildLinks DEF Free
  <2>3. WalkLive'
    BY <2>1 DEF AddChild, WalkLive
  <2>. QED
    BY <2>2, <2>3 DEF LinkInv
<1>4. CASE ~(z = None /\ \E n \in Free : AddChild(c, nm, n))
  <2>1. UNCHANGED <<live, parent, children, ref>>
    BY <1>4 DEF CreateEntryStep, Resurrect, Return, tree
  <2>2. pc' = "create" => call'.cur \in {c, z} \ {None}
    <3>1. CASE z # None
      <4>1. call' = call \/ call'.cur = z
        BY <3>1 DEF CreateEntryStep, Resurrect, TypeOK, Frames
      <4>2. c # None
        BY <1>1, EntriesAssumption DEF TypeOK
      <4>3. CASE call' = call
        BY <4>2, <4>3
      <4>4. CASE call'.cur = z
        BY <3>1, <4>4
      <4>. QED
        BY <4>1, <4>3, <4>4
    <3>2. CASE z = None
      <4>1. pc' \in {"rollback", "idle"}
        BY <1>4, <3>2 DEF CreateEntryStep, Return
      <4>. QED
        BY <4>1
    <3>. QED
      BY <3>1, <3>2
  <2>. QED
    BY <1>1, <1>2, <2>1, <2>2, FrameLinks
<1>. QED
  BY <1>3, <1>4

LEMMA ObsNamespaceStepLinks ==
    ASSUME TypeOK, LinkInv, ObsNamespaceStep
    PROVE  LinkInv'
<1>1. pc' # "create"
  BY DEF ObsNamespaceStep
<1>2. CASE \E n \in Free : AddChild(Root, ObsName, n)
  <2>1. PICK n \in Free : AddChild(Root, ObsName, n)
    BY <1>2
  <2>. QED
    BY <1>1, <2>1, AddChildLinks DEF Free, TypeOK, LinkInv, WalkLive
<1>3. CASE ~\E n \in Free : AddChild(Root, ObsName, n)
  BY <1>1, <1>3, FrameLinks DEF ObsNamespaceStep, tree
<1>. QED
  BY <1>2, <1>3

LEMMA ReleaseStepLinks ==
    ASSUME TypeOK, LinkInv, ReleaseStep
    PROVE  LinkInv'
<1> DEFINE r == call.rel
<1>1. r \in Entries /\ pc' # "create"
  BY DEF ReleaseStep, TypeOK, Frames
<1>2. CASE ref[r] = 1 /\ ~(parent[r] = None \/ children[r] # << >>)
  <2>1. r \in live
    BY <1>1, <1>2 DEF LinkInv, FreeBlocks
  <2>2. Destroy(r)
    BY <1>2 DEF ReleaseStep
  <2>. QED
    BY <1>1, <1>2, <2>1, <2>2, DestroyLinks DEF LinkInv, WalkLive
<1>3. CASE ~(ref[r] = 1 /\ ~(parent[r] = None \/ children[r] # << >>))
  <2>1. UNCHANGED <<live, parent, children>>
    BY <1>3 DEF ReleaseStep, tree
  <2>2. \A e \in Entries \ live : ref'[e] = ref[e]
    BY <1>1, <1>3 DEF ReleaseStep, tree, LinkInv, FreeBlocks, TypeOK
  <2>. QED
    BY <1>1, <2>1, <2>2, FrameLinks
<1>. QED
  BY <1>2, <1>3

LEMMA NextLinks ==
    ASSUME TypeOK, LinkInv, [Next]_vars
    PROVE  LinkInv'
<1>1. CASE \/ \E e \in Entries, b \in BOOLEAN : SetRelevance(e, b)
           \/ \E e \in Entries : SetClearNewnessFlag(e)
           \/ \E e \in Entries : ClearNewness(e)
  BY <1>1, FrameLinks DEF SetRelevance, SetClearNewnessFlag, ClearNewness, Idle
<1>9. CASE \E e \in Entries : FlushDeletion(e)
  BY <1>9, FrameLinks DEF FlushDeletion, tree
<1>10. CASE CreateEntryCleanup
  BY <1>10, FrameLinks DEF CreateEntryCleanup, tree
<1>11. CASE ConvertStep
  <2>1. pc' \in {"idle", "convert"}
    BY <1>11 DEF ConvertStep, Return
  <2>. QED
    BY <1>11, <2>1, FrameLinks DEF ConvertStep
<1>12. CASE Halted \/ UNCHANGED vars
  <2>1. UNCHANGED vars
    BY <1>12 DEF Halted
  <2>. QED
    BY <2>1, FrameLinks DEF vars, LinkInv, WalkLive
<1>2. CASE \E p \in Paths : GetEntry(p)
  BY <1>2, FrameLinks DEF GetEntry, tree, IdleFrame, TypeOK
<1>3. CASE \E op \in {"GetResource", "CreateInput", "CreateOutput", "GetObservation"},
              p \in Paths : GetResource(op, p)
  BY <1>3, FrameLinks DEF GetResource, tree, IdleFrame, TypeOK
<1>4. CASE \E e \in Entries : DeleteIO(e) \/ DeleteObservation(e)
  <2>1. PICK e \in Entries : DeleteIO(e) \/ DeleteObservation(e)
    BY <1>4
  <2>2. UNCHANGED <<live, parent, children>> /\ e \in live /\ pc' # "create"
    BY <2>1 DEF DeleteIO, DeleteObservation, Idle
  <2>3. \A x \in Entries \ live : ref'[x] = ref[x]
    BY <2>1, <2>2 DEF DeleteIO, DeleteObservation, TypeOK
  <2>. QED
    BY <2>2, <2>3, FrameLinks
<1>5. CASE PromoteStep
  BY <1>5, FrameLinks DEF PromoteStep, Return, StartRelease, tree
<1>6. CASE CreateEntryStep
  BY <1>6, CreateEntryStepLinks
<1>7. CASE ObsNamespaceStep
  BY <1>7, ObsNamespaceStepLinks
<1>8. CASE ReleaseStep
  BY <1>8, ReleaseStepLinks
<1>. QED
  BY <1>1, <1>2, <1>3, <1>4, <1>5, <1>6, <1>7, <1>8, <1>9, <1>10, <1>11, <1>12 DEF Next

LEMMA LinksTreeLinked ==
    ASSUME TypeOK, LinkInv
    PROVE  TreeLinked
<1>1. parent[Root] = None
  BY DEF TypeOK
<1>2. \A e \in live : \A j \in DOMAIN children[e] :
          children[e][j] \in live /\ parent[children[e][j]] = e
  BY DEF TypeOK, LinkInv, ChildrenLinked
<1>3. \A e \in live \ {Root} :
          /\ parent[e] \in live
          /\ \E j \in DOMAIN children[parent[e]] :
                 /\ children[parent[e]][j] = e
                 /\ \A k \in DOMAIN children[parent[e]] :
                        children[parent[e]][k] = e => k = j
  <2> SUFFICES ASSUME NEW e \in live \ {Root}
               PROVE  /\ parent[e] \in live
                      /\ \E j \in DOMAIN children[parent[e]] :
                             /\ children[parent[e]][j] = e
                             /\ \A k \in DOMAIN children[parent[e]] :
                                    children[parent[e]][k] = e => k = j
    OBVIOUS
  <2>1. parent[e] \in live /\ parent[e] \in Entries
    BY DEF LinkInv, ParentsList, TypeOK
  <2>2. PICK j \in DOMAIN children[parent[e]] : children[parent[e]][j] = e
    BY DEF LinkInv, ParentsList, InList
  <2>3. NoRepeats(children[parent[e]])
    BY <2>1 DEF LinkInv, ListsNoRepeats
  <2>. QED
    BY <2>1, <2>2, <2>3 DEF NoRepeats
<1>. QED
  BY <1>1, <1>2, <1>3 DEF TreeLinked

(* The parentPtr links and child lists agree in every state of every       *)
(* call: AddChild, the CreateEntry walk and its cleanup, GetObsNamespace   *)
(* and the EntryDestructor cascade never leave a freed block in a          *)
(* childList, an entry outside its parent's list, or an entry twice in a   *)
(* list.                                                                   *)
THEOREM TreeStaysLinked == Spec => []TreeLinked
<1>1. Init => LinkInv
  BY InitLinks
<1>2. TypeOK /\ LinkInv /\ [Next]_vars => LinkInv'
  BY NextLinks
<1>3. TypeOK /\ LinkInv => TreeLinked
  BY LinksTreeLinked
<1>. QED
  BY <1>1, <1>2, <1>3, TypeCorrect, PTL DEF Spec

=============================================================================
