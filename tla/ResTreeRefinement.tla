-------------------------- MODULE ResTreeRefinement --------------------------
(***************************************************************************)
(* The resource tree model ResTree implements the entry life cycle of      *)
(* ResTreeEntries, for every pool, set of names and path depth: a proof of *)
(* ImplementsEntries, and of SiblingNamesUnique on which it rests.         *)
(*                                                                         *)
(* Each step of ResTree is a step of the life cycle or leaves it alone.    *)
(* AddChild is Create: CreateEntry and GetObsNamespace add a child only    *)
(* under a name resTree_FindChildEx did not find, and since no two         *)
(* siblings share a name (NamesInv), the first match it looks for is the   *)
(* only one, so no child of the parent has that name.  EntryDestructor is  *)
(* Delete: the entry is a leaf (LinkInv) and, being released on its last   *)
(* count, a namespace (CountInv).  The changes of type are Retype          *)
(* (PromoteNs gives the namespace GetResource promotes).                   *)
(***************************************************************************)
EXTENDS ResTreeCounts, ResTreeSafety

-----------------------------------------------------------------------------
(* No two siblings share a name.                                           *)

(* The entries of s have pairwise different names.                         *)
NamesDistinct(s) == \A j, k \in DOMAIN s : name[s[j]] = name[s[k]] => j = k

NamesInv == \A e \in Entries : NamesDistinct(children[e])

(* With distinct names among c's children, resTree_FindChildEx(c, nm)     *)
(* returns NULL only when no child of c is named nm.                       *)
LEMMA ChildExNoneNoName ==
    ASSUME NEW c, NEW nm, children[c] \in Seq(Entries), NamesDistinct(children[c]),
           ChildEx(c, nm) = None
    PROVE  \A j \in DOMAIN children[c] : name[children[c][j]] # nm
<1> DEFINE ch == children[c]
           IsFirst(j) == name[ch[j]] = nm /\ \A k \in 1..(j - 1) : name[ch[k]] # nm
<1> SUFFICES ASSUME NEW j \in DOMAIN ch, name[ch[j]] = nm PROVE FALSE
  OBVIOUS
<1>1. IsFirst(j)
  BY DEF NamesDistinct
<1>2. (CHOOSE i \in DOMAIN ch : IsFirst(i)) \in DOMAIN ch
  BY <1>1
<1>3. ChildEx(c, nm) \in Entries
  BY <1>1, <1>2 DEF ChildEx
<1>. QED
  BY <1>3, EntriesAssumption

(* le_dls_Remove keeps the names of a list distinct.                       *)
LEMMA RemoveNamesDistinct ==
    ASSUME NEW s \in Seq(Entries), NEW x, NamesDistinct(s)
    PROVE  NamesDistinct(Remove(s, x))
<1>1. CASE \E j \in DOMAIN s : s[j] = x
  <2> DEFINE i == IndexOf(s, x)
             m(k) == IF k < i THEN k ELSE k + 1
  <2>1. i \in 1..Len(s)
    BY <1>1 DEF IndexOf
  <2>2. Remove(s, x) = [k \in 1..(Len(s) - 1) |-> s[m(k)]]
    BY <1>1 DEF Remove
  <2>3. \A k \in 1..(Len(s) - 1) : m(k) \in DOMAIN s
    BY <2>1
  <2>4. \A j, k \in 1..(Len(s) - 1) : m(j) = m(k) => j = k
    BY <2>1
  <2>. QED
    BY <2>2, <2>3, <2>4 DEF NamesDistinct
<1>2. CASE ~\E j \in DOMAIN s : s[j] = x
  BY <1>2 DEF Remove
<1>. QED
  BY <1>1, <1>2

LEMMA InitNames == Init => NamesInv
BY DEF Init, NamesInv, NamesDistinct

(* A step that changes no name and no child list keeps NamesInv.           *)
LEMMA FrameNames ==
    ASSUME NamesInv, UNCHANGED <<name, children>>
    PROVE  NamesInv'
BY DEF NamesInv, NamesDistinct

(* AddChild under a name FindChildEx did not find among c's children.      *)
LEMMA AddChildNames ==
    ASSUME TypeOK, LinkInv, NamesInv, NEW c \in live, NEW nm, NEW n \in Entries \ live,
           ChildEx(c, nm) = None, AddChild(c, nm, n)
    PROVE  NamesInv'
<1>1. /\ c \in Entries /\ c # n /\ children[c] \in Seq(Entries)
      /\ \A e \in Entries : \A j \in DOMAIN children[e] : children[e][j] # n
  BY DEF TypeOK, LinkInv, ChildrenLinked
<1>2. \A j \in DOMAIN children[c] : name[children[c][j]] # nm
  BY <1>1, ChildExNoneNoName DEF NamesInv
<1>3. /\ children' = [children EXCEPT ![c] = Append(children[c], n), ![n] = << >>]
      /\ name' = [name EXCEPT ![n] = nm]
  BY DEF AddChild
<1> SUFFICES ASSUME NEW e \in Entries, NEW j \in DOMAIN children'[e],
                    NEW k \in DOMAIN children'[e],
                    name'[children'[e][j]] = name'[children'[e][k]]
             PROVE  j = k
  BY DEF NamesInv, NamesDistinct
<1>4. CASE e = c
  <2> DEFINE s == children[c]
  <2>0. children'[e] = Append(s, n)
    BY <1>1, <1>3, <1>4 DEF TypeOK
  <2>1. j \in 1..(Len(s) + 1) /\ k \in 1..(Len(s) + 1)
    BY <1>1, <2>0
  <2>2. \A i \in 1..Len(s) : children'[e][i] = s[i] /\ name'[s[i]] = name[s[i]]
    <3>1. \A i \in 1..Len(s) : children'[e][i] = s[i]
      BY <1>1, <2>0
    <3>2. \A i \in 1..Len(s) : s[i] \in Entries /\ s[i] # n
      BY <1>1
    <3>3. \A i \in 1..Len(s) : name'[s[i]] = name[s[i]]
      BY <1>3, <3>2 DEF TypeOK
    <3>. QED
      BY <3>1, <3>3
  <2>3. children'[e][Len(s) + 1] = n /\ name'[n] = nm
    BY <1>1, <1>3, <2>0 DEF TypeOK
  <2>4. CASE j \in 1..Len(s) /\ k \in 1..Len(s)
    BY <2>2, <2>4, <1>4 DEF NamesInv, NamesDistinct
  <2>5. CASE j = Len(s) + 1 /\ k \in 1..Len(s)
    BY <1>2, <2>2, <2>3, <2>5
  <2>6. CASE k = Len(s) + 1 /\ j \in 1..Len(s)
    BY <1>2, <2>2, <2>3, <2>6
  <2>. QED
    BY <2>1, <2>4, <2>5, <2>6
<1>5. CASE e = n
  BY <1>1, <1>3, <1>5 DEF TypeOK
<1>6. CASE e \notin {c, n}
  <2>1. children'[e] = children[e]
    BY <1>3, <1>6 DEF TypeOK
  <2>2. j \in DOMAIN children[e] /\ k \in DOMAIN children[e]
    BY <2>1
  <2>3. /\ children[e][j] \in Entries /\ children[e][j] # n
        /\ children[e][k] \in Entries /\ children[e][k] # n
    BY <1>1, <2>2 DEF TypeOK
  <2>4. name'[children[e][j]] = name[children[e][j]] /\ name'[children[e][k]] = name[children[e][k]]
    BY <1>3, <2>3 DEF TypeOK
  <2>. QED
    BY <2>1, <2>2, <2>4 DEF NamesInv, NamesDistinct
<1>. QED
  BY <1>4, <1>5, <1>6

(* EntryDestructor unlinks a leaf: its parent's list loses it and every    *)
(* other list stays as it was.                                             *)
LEMMA DestroyNames ==
    ASSUME TypeOK, LinkInv, NamesInv, NEW r \in live, parent[r] # None, Destroy(r)
    PROVE  NamesInv'
<1> DEFINE p == parent[r]
<1>1. r # Root /\ r \in Entries
  BY DEF TypeOK
<1>2. p \in Entries /\ children[p] \in Seq(Entries) /\ NoRepeats(children[p])
  BY <1>1 DEF LinkInv, ParentsList, ListsNoRepeats, TypeOK
<1>3. /\ children' = [children EXCEPT ![p] = Remove(children[p], r)]
      /\ name' = [name EXCEPT ![r] = RootName]
  BY DEF Destroy
<1>4. /\ Remove(children[p], r) \in Seq(Entries)
      /\ \A y : InList(Remove(children[p], r), y) <=> InList(children[p], y) /\ y # r
      /\ NamesDistinct(Remove(children[p], r))
  BY <1>2, RemoveFacts, RemoveNamesDistinct DEF NamesInv
<1>5. \A e \in Entries \ {p} : \A j \in DOMAIN children[e] : children[e][j] # r
  BY DEF LinkInv, ChildrenLinked
<1> SUFFICES ASSUME NEW e \in Entries PROVE NamesDistinct(children[e])'
  BY DEF NamesInv
<1>6. CASE e = p
  <2> DEFINE t == Remove(children[p], r)
  <2>1. children'[e] = t
    BY <1>2, <1>3, <1>6 DEF TypeOK
  <2>2. \A j \in DOMAIN t : t[j] \in Entries /\ t[j] # r
    BY <1>4 DEF InList
  <2>3. \A j \in DOMAIN t : name'[t[j]] = name[t[j]]
    BY <1>3, <2>2 DEF TypeOK
  <2>. QED
    BY <1>4, <2>1, <2>3 DEF NamesDistinct
<1>7. CASE e # p
  <2>1. children'[e] = children[e] /\ children[e] \in Seq(Entries)
    BY <1>3, <1>7 DEF TypeOK
  <2>2. \A j \in DOMAIN children[e] : name'[children[e][j]] = name[children[e][j]]
    BY <1>3, <1>5, <1>7, <2>1 DEF TypeOK
  <2>. QED
    BY <2>1, <2>2 DEF NamesInv, NamesDistinct
<1>. QED
  BY <1>6, <1>7

LEMMA NextNames ==
    ASSUME TypeOK, LinkInv, NamesInv, [Next]_vars
    PROVE  NamesInv'
<1>1. CASE CreateEntryStep
  <2> DEFINE c == call.cur
             nm == call.path.segs[call.idx]
  <2>1. CASE ChildEx(c, nm) = None /\ \E n \in Free : AddChild(c, nm, n)
    <3>1. c \in live
      BY <1>1 DEF CreateEntryStep, LinkInv, WalkLive
    <3>2. PICK n \in Free : AddChild(c, nm, n)
      BY <2>1
    <3>. QED
      BY <2>1, <3>1, <3>2, AddChildNames DEF Free
  <2>2. CASE ~(ChildEx(c, nm) = None /\ \E n \in Free : AddChild(c, nm, n))
    BY <1>1, <2>2, FrameNames DEF CreateEntryStep, Resurrect, Return, tree
  <2>. QED
    BY <2>1, <2>2
<1>2. CASE ObsNamespaceStep
  <2>1. CASE ChildEx(Root, ObsName) = None /\ \E n \in Free : AddChild(Root, ObsName, n)
    <3>1. PICK n \in Free : AddChild(Root, ObsName, n)
      BY <2>1
    <3>. QED
      BY <2>1, <3>1, AddChildNames DEF Free, TypeOK
  <2>2. CASE ~(ChildEx(Root, ObsName) = None /\ \E n \in Free : AddChild(Root, ObsName, n))
    BY <1>2, <2>2, FrameNames DEF ObsNamespaceStep, tree
  <2>. QED
    BY <2>1, <2>2
<1>3. CASE ReleaseStep
  <2> DEFINE r == call.rel
  <2>1. CASE ref[r] = 1 /\ ~(parent[r] = None \/ children[r] # << >>)
    <3>1. r \in live /\ Destroy(r)
      BY <1>3, <2>1 DEF ReleaseStep, LinkInv, FreeBlocks
    <3>. QED
      BY <2>1, <3>1, DestroyNames
  <2>2. CASE ~(ref[r] = 1 /\ ~(parent[r] = None \/ children[r] # << >>))
    BY <1>3, <2>2, FrameNames DEF ReleaseStep, tree
  <2>. QED
    BY <2>1, <2>2
<1>4. CASE ~(CreateEntryStep \/ ObsNamespaceStep \/ ReleaseStep)
  <2>1. UNCHANGED <<name, children>>
    BY <1>4 DEF Next, vars, Halted, GetEntry, GetResource, DeleteIO, DeleteObservation,
                SetRelevance, SetClearNewnessFlag, ClearNewness, FlushDeletion,
                CreateEntryCleanup, PromoteStep, ConvertStep, tree
  <2>. QED
    BY <2>1, FrameNames
<1>. QED
  BY <1>1, <1>2, <1>3, <1>4

(* resTree_FindChildEx, CreateEntry, GetObsNamespace and EntryDestructor   *)
(* keep the names of an entry's children, zombies included, distinct.      *)
THEOREM SiblingNamesStayUnique == Spec => []SiblingNamesUnique
<1>1. Init => TypeOK /\ LinkInv /\ NamesInv
  BY InitTypeOK, InitLinks, InitNames
<1>2. TypeOK /\ LinkInv /\ NamesInv /\ [Next]_vars => (TypeOK /\ LinkInv /\ NamesInv)'
  BY NextTypeOK, NextLinks, NextNames
<1>3. TypeOK /\ NamesInv => SiblingNamesUnique
  BY DEF TypeOK, NamesInv, NamesDistinct, SiblingNamesUnique
<1>. QED
  BY <1>1, <1>2, <1>3, PTL DEF Spec

-----------------------------------------------------------------------------
(* The refinement.                                                         *)

(* The life-cycle view of the pool: the refinement mapping of Life.        *)
entBar == [e \in Entries |-> EntryOf(e)]

(* An allocated entry's record is not NULL.                                *)
LEMMA LiveRecord ==
    ASSUME TypeOK, NEW e \in live
    PROVE  /\ e \in Entries
           /\ EntryOf(e) = [type |-> type[e], parent |-> parent[e], name |-> name[e]]
           /\ EntryOf(e) # None
<1>1. e \in Entries /\ type[e] \in EntryTypes /\ parent[e] \in Entries \cup {None}
      /\ name[e] \in Names \cup {RootName}
  BY DEF TypeOK
<1>. QED
  BY <1>1, NoneAssumption DEF EntryOf

(* The blocks Life sees as live are the allocated ones.                    *)
LEMMA LifeLive ==
    ASSUME TypeOK
    PROVE  Life!Live = live
<1>1. \A e \in Entries : EntryOf(e) # None <=> e \in live
  BY LiveRecord DEF EntryOf
<1>. QED
  BY <1>1 DEF Life!Live, TypeOK

(* A step that changes no allocation, link, name or type is a stutter.     *)
LEMMA StutterRef ==
    ASSUME UNCHANGED <<live, parent, name, type>>
    PROVE  UNCHANGED entBar
BY DEF entBar, EntryOf

(* A step that changes the type of at most the entry e, along an arrow if  *)
(* e is allocated, is a Retype or a stutter.                               *)
LEMMA RetypeRef ==
    ASSUME TypeOK, TypeOK', UNCHANGED <<live, parent, name>>, NEW e \in Entries,
           \A x \in Entries \ {e} : type'[x] = type[x], TypeArrowStep
    PROVE  [Life!Next]_entBar
<1>1. CASE e \in live /\ type'[e] # type[e]
  <2>1. <<type[e], type'[e]>> \in Life!Arrows
    BY <1>1 DEF TypeArrowStep, TypeArrows, Life!Arrows
  <2>2. e \in Life!Live /\ entBar[e].type = type[e]
    BY <1>1, LifeLive, LiveRecord DEF entBar
  <2>3. entBar' = [entBar EXCEPT ![e].type = type'[e]]
    BY <1>1 DEF entBar, EntryOf, TypeOK
  <2>4. type'[e] \in EntryTypes
    BY DEF TypeOK
  <2>. QED
    BY <2>1, <2>2, <2>3, <2>4 DEF Life!Next, Life!Retype, EntryTypes, Life!EntryTypes, entBar
<1>2. CASE ~(e \in live /\ type'[e] # type[e])
  <2>1. \A x \in Entries : EntryOf(x)' = EntryOf(x)
    BY <1>2 DEF EntryOf
  <2>. QED
    BY <2>1 DEF entBar
<1>. QED
  BY <1>1, <1>2

(* AddChild(c, nm, n), under a name FindChildEx did not find, is Create.   *)
LEMMA CreateRef ==
    ASSUME TypeOK, LinkInv, NamesInv, NEW c \in live, NEW nm \in Names,
           NEW n \in Entries \ live, ChildEx(c, nm) = None, AddChild(c, nm, n)
    PROVE  Life!Create(n, c, nm)
<1>1. entBar[n] = None
  BY DEF entBar, EntryOf
<1>2. c \in Life!Live
  BY LifeLive
<1>3. \A x \in Life!Live : entBar[x].parent = c => entBar[x].name # nm
  <2> SUFFICES ASSUME NEW x \in live, parent[x] = c PROVE name[x] # nm
    BY LifeLive, LiveRecord DEF entBar
  <2>1. x # Root
    BY EntriesAssumption DEF TypeOK
  <2>2. InList(children[c], x)
    BY <2>1 DEF LinkInv, ParentsList
  <2>3. children[c] \in Seq(Entries) /\ NamesDistinct(children[c])
    BY DEF TypeOK, NamesInv
  <2>. QED
    BY <2>2, <2>3, ChildExNoneNoName DEF InList
<1>4. entBar' = [entBar EXCEPT ![n] = [type |-> "NAMESPACE", parent |-> c, name |-> nm]]
  <2>1. /\ live' = live \cup {n}
        /\ parent' = [parent EXCEPT ![n] = c]
        /\ name' = [name EXCEPT ![n] = nm]
        /\ type' = [type EXCEPT ![n] = "NAMESPACE"]
    BY DEF AddChild
  <2>2. \A x \in Entries \ {n} : EntryOf(x)' = EntryOf(x)
    BY <2>1 DEF EntryOf, TypeOK
  <2>3. EntryOf(n)' = [type |-> "NAMESPACE", parent |-> c, name |-> nm]
    BY <2>1 DEF EntryOf, TypeOK
  <2>. QED
    BY <2>2, <2>3 DEF entBar
<1>. QED
  BY <1>1, <1>2, <1>3, <1>4 DEF Life!Create, entBar

(* EntryDestructor on a childless namespace other than the root is Delete. *)
LEMMA DeleteRef ==
    ASSUME TypeOK, LinkInv, NEW r \in live, parent[r] # None, children[r] = << >>,
           type[r] = "NAMESPACE", Destroy(r)
    PROVE  Life!Delete(r)
<1>1. r \in Life!Live /\ r # Root /\ entBar[r].type = "NAMESPACE"
  BY LifeLive, LiveRecord DEF entBar, TypeOK
<1>2. \A x \in Life!Live : entBar[x].parent # r
  <2> SUFFICES ASSUME NEW x \in live, parent[x] = r PROVE FALSE
    BY LifeLive, LiveRecord DEF entBar
  <2>1. x # Root
    BY EntriesAssumption DEF TypeOK
  <2>. QED
    BY <2>1 DEF LinkInv, ParentsList, InList
<1>3. entBar' = [entBar EXCEPT ![r] = None]
  <2>1. /\ live' = live \ {r}
        /\ parent' = [parent EXCEPT ![r] = None]
        /\ name' = [name EXCEPT ![r] = RootName]
        /\ type' = [type EXCEPT ![r] = "NAMESPACE"]
    BY DEF Destroy
  <2>. QED
    BY <2>1 DEF entBar, EntryOf, TypeOK
<1>. QED
  BY <1>1, <1>2, <1>3 DEF Life!Delete, entBar

(* Every step of the model is a step of the life cycle or a stutter.       *)
LEMMA NextRef ==
    ASSUME TypeOK, TypeOK', LinkInv, CountInv, NamesInv, PromoteNs, [Next]_vars
    PROVE  [Life!Next]_entBar
<1>0. TypeArrowStep
  BY NextPromoteNs
<1>1. CASE CreateEntryStep
  <2> DEFINE c == call.cur
             nm == call.path.segs[call.idx]
  <2>1. CASE ChildEx(c, nm) = None /\ \E n \in Free : AddChild(c, nm, n)
    <3>1. c \in live /\ call.path \in Paths /\ call.idx \in 1..Len(call.path.segs)
      BY <1>1 DEF CreateEntryStep, LinkInv, WalkLive, TypeOK
    <3>2. nm \in Names
      BY <3>1, SegSeqsFacts DEF Paths
    <3>3. PICK n \in Free : AddChild(c, nm, n)
      BY <2>1
    <3>4. Life!Create(n, c, nm) /\ n \in Entries /\ c \in Entries
      BY <2>1, <3>1, <3>2, <3>3, CreateRef DEF Free, TypeOK
    <3>. QED
      BY <3>2, <3>4 DEF Life!Next
  <2>2. CASE ~(ChildEx(c, nm) = None /\ \E n \in Free : AddChild(c, nm, n))
    BY <1>1, <2>2, StutterRef DEF CreateEntryStep, Resurrect, Return, tree
  <2>. QED
    BY <2>1, <2>2
<1>2. CASE ObsNamespaceStep
  <2>1. CASE ChildEx(Root, ObsName) = None /\ \E n \in Free : AddChild(Root, ObsName, n)
    <3>1. PICK n \in Free : AddChild(Root, ObsName, n)
      BY <2>1
    <3>2. Life!Create(n, Root, ObsName) /\ n \in Entries /\ Root \in Entries
      BY <2>1, <3>1, NamesAssumption, CreateRef DEF Free, TypeOK
    <3>. QED
      BY <3>2, NamesAssumption DEF Life!Next
  <2>2. CASE ~(ChildEx(Root, ObsName) = None /\ \E n \in Free : AddChild(Root, ObsName, n))
    BY <1>2, <2>2, StutterRef DEF ObsNamespaceStep, tree
  <2>. QED
    BY <2>1, <2>2
<1>3. CASE ReleaseStep
  <2> DEFINE r == call.rel
  <2>1. CASE ref[r] = 1 /\ ~(parent[r] = None \/ children[r] # << >>)
    <3>1. r \in live /\ r \in Entries /\ Destroy(r)
      BY <1>3, <2>1 DEF ReleaseStep, LinkInv, FreeBlocks
    <3>2. Owes(r)
      BY <1>3 DEF ReleaseStep, CountInv, ReleaseOwes
    <3>3. type[r] = "NAMESPACE"
      <4>1. Len(children[r]) \in Nat
        BY <3>1 DEF TypeOK
      <4>. QED
        BY <2>1, <3>2, <4>1 DEF Owes
    <3>4. Life!Delete(r)
      BY <2>1, <3>1, <3>3, DeleteRef
    <3>. QED
      BY <3>1, <3>4 DEF Life!Next
  <2>2. CASE ~(ref[r] = 1 /\ ~(parent[r] = None \/ children[r] # << >>))
    BY <1>3, <2>2, StutterRef DEF ReleaseStep, tree
  <2>. QED
    BY <2>1, <2>2
<1>4. CASE PromoteStep
  <2>1. call.cur \in Entries /\ UNCHANGED <<live, parent, name>>
        /\ \A x \in Entries \ {call.cur} : type'[x] = type[x]
    BY <1>4 DEF PromoteStep, Return, StartRelease, tree, TypeOK
  <2>. QED
    BY <1>0, <2>1, RetypeRef
<1>5. CASE ConvertStep
  <2>1. call.cur \in Entries /\ UNCHANGED <<live, parent, name>>
        /\ \A x \in Entries \ {call.cur} : type'[x] = type[x]
    BY <1>5 DEF ConvertStep, Return, TypeOK
  <2>. QED
    BY <1>0, <2>1, RetypeRef
<1>6. CASE \E e \in Entries : DeleteIO(e) \/ DeleteObservation(e)
  <2>1. PICK e \in Entries : DeleteIO(e) \/ DeleteObservation(e)
    BY <1>6
  <2>2. UNCHANGED <<live, parent, name>> /\ \A x \in Entries \ {e} : type'[x] = type[x]
    BY <2>1 DEF DeleteIO, DeleteObservation, TypeOK
  <2>. QED
    BY <1>0, <2>2, RetypeRef
<1>7. CASE ~(\/ CreateEntryStep \/ ObsNamespaceStep \/ ReleaseStep \/ PromoteStep
             \/ ConvertStep \/ \E e \in Entries : DeleteIO(e) \/ DeleteObservation(e))
  <2>1. UNCHANGED <<live, parent, name, type>>
    BY <1>7 DEF Next, vars, Halted, GetEntry, GetResource, SetRelevance,
                SetClearNewnessFlag, ClearNewness, FlushDeletion, CreateEntryCleanup, tree
  <2>. QED
    BY <2>1, StutterRef
<1>. QED
  BY <1>1, <1>2, <1>3, <1>4, <1>5, <1>6, <1>7

(* resTree_Init, AddChild in CreateEntry and GetObsNamespace, the type     *)
(* changes of GetResource, CreateInput/CreateOutput, GetObservation,       *)
(* DeleteIO and DeleteObservation, and EntryDestructor implement the entry *)
(* life cycle: entries are created as namespaces under a live parent with  *)
(* a name no sibling has, keep their parent and name, change type only     *)
(* along the arrows, and are freed only as childless non-root namespaces.  *)
THEOREM RefinesEntries == Spec => ImplementsEntries
<1> DEFINE RefInv == TypeOK /\ LinkInv /\ CountInv /\ NamesInv /\ PromoteNs
<1>1. Init => RefInv
  BY InitTypeOK, InitLinks, InitCounts, InitNames DEF Init, PromoteNs
<1>2. RefInv /\ [Next]_vars => RefInv'
  BY NextTypeOK, NextLinks, NextCounts, NextNames, NextPromoteNs
<1>3. Init => Life!Init
  BY EntriesAssumption DEF Init, Life!Init, EntryOf
<1>4. RefInv /\ RefInv' /\ [Next]_vars => [Life!Next]_entBar
  BY NextRef
<1>. QED
  BY <1>1, <1>2, <1>3, <1>4, PTL DEF Spec, ImplementsEntries, Life!Spec, entBar

=============================================================================
