--------------------------- MODULE ResTreeProofs ---------------------------
(***************************************************************************)
(* Proofs about the resource tree model ResTree, for every pool, set of    *)
(* names and path depth the constant assumptions allow.                    *)
(***************************************************************************)
EXTENDS ResTree, TLAPS

USE EntriesAssumption, NamesAssumption, DepthAssumption

-----------------------------------------------------------------------------
(* Lemmas about the operators the model reads the tree with.               *)

(* A path's segment sequence is a sequence of names of length 1 to         *)
(* MaxDepth.                                                               *)
LEMMA SegSeqsFacts ==
    ASSUME NEW s \in SegSeqs
    PROVE  s \in Seq(Names) /\ Len(s) \in 1..MaxDepth
<1>1. PICK n \in 1..MaxDepth : s \in [1..n -> Names]
  BY DEF SegSeqs
<1>2. s \in Seq(Names)
  BY <1>1
<1>3. Len(s) = n
  BY <1>1, <1>2
<1>. QED
  BY <1>1, <1>2, <1>3

(* resTree_FindChildEx returns a child of the list or NULL.                *)
LEMMA ChildExType ==
    ASSUME children \in [Entries -> Seq(Entries)], NEW c \in Entries, NEW nm
    PROVE  ChildEx(c, nm) \in Entries \cup {None}
<1> DEFINE ch == children[c]
           IsFirst(j) == name[ch[j]] = nm /\ \A k \in 1..(j - 1) : name[ch[k]] # nm
<1>1. ch \in Seq(Entries)
  OBVIOUS
<1>2. CASE \E j \in DOMAIN ch : IsFirst(j)
  <2>1. (CHOOSE j \in DOMAIN ch : IsFirst(j)) \in DOMAIN ch
    BY <1>2
  <2>. QED
    BY <1>1, <1>2, <2>1 DEF ChildEx
<1>3. CASE ~\E j \in DOMAIN ch : IsFirst(j)
  BY <1>3 DEF ChildEx
<1>. QED
  BY <1>2, <1>3

(* FindEntry returns an entry or NULL.                                     *)
LEMMA FindEntryType ==
    ASSUME NEW segs \in SegSeqs
    PROVE  FindEntry(segs) \in Entries \cup {None}
<1>1. Len(segs) \in 1..MaxDepth
  BY SegSeqsFacts
<1>. QED
  BY <1>1 DEF FindEntry

(* le_dls_Remove keeps a list of entries a list of entries.                *)
LEMMA RemoveType ==
    ASSUME NEW S, NEW s \in Seq(S), NEW x
    PROVE  Remove(s, x) \in Seq(S)
<1>1. CASE \E j \in DOMAIN s : s[j] = x
  <2>1. IndexOf(s, x) \in 1..Len(s) /\ Len(s) \in Nat \ {0}
    BY <1>1 DEF IndexOf
  <2>2. [k \in 1..(Len(s) - 1) |-> IF k < IndexOf(s, x) THEN s[k] ELSE s[k + 1]]
          \in [1..(Len(s) - 1) -> S]
    BY <2>1
  <2>. QED
    BY <1>1, <2>1, <2>2 DEF Remove
<1>2. CASE ~\E j \in DOMAIN s : s[j] = x
  BY <1>2 DEF Remove
<1>. QED
  BY <1>1, <1>2

(* A record with a value of the right set in each field is a frame.       *)
LEMMA FrameType ==
    ASSUME NEW o \in Ops \cup {"none"}, NEW pa \in Paths \cup {NoPath},
           NEW i \in 0..MaxDepth, NEW c \in Entries \cup {None}, NEW ob \in BOOLEAN,
           NEW f \in Entries \cup {None}, NEW cr \in BOOLEAN,
           NEW r \in Entries \cup {None}, NEW a \in {"idle", "rollback"}
    PROVE  [op |-> o, path |-> pa, idx |-> i, cur |-> c, obs |-> ob, firstNew |-> f,
            created |-> cr, rel |-> r, after |-> a] \in Frames
BY DEF Frames

(* The fields of a frame.                                                  *)
LEMMA FrameFields ==
    ASSUME NEW fr \in Frames
    PROVE  /\ fr = [op |-> fr.op, path |-> fr.path, idx |-> fr.idx, cur |-> fr.cur,
                    obs |-> fr.obs, firstNew |-> fr.firstNew, created |-> fr.created,
                    rel |-> fr.rel, after |-> fr.after]
           /\ fr.op \in Ops \cup {"none"} /\ fr.path \in Paths \cup {NoPath}
           /\ fr.idx \in 0..MaxDepth /\ fr.cur \in Entries \cup {None}
           /\ fr.obs \in BOOLEAN /\ fr.firstNew \in Entries \cup {None}
           /\ fr.created \in BOOLEAN /\ fr.rel \in Entries \cup {None}
           /\ fr.after \in {"idle", "rollback"}
BY DEF Frames

LEMMA IdleFrameType == IdleFrame \in Frames
BY DEF IdleFrame, Frames, NoPath, Ops

-----------------------------------------------------------------------------
(* Type correctness, one lemma per action.                                 *)

LEMMA InitTypeOK == Init => TypeOK
<1> SUFFICES ASSUME Init PROVE TypeOK
  OBVIOUS
<1>1. IdleFrame \in Frames
  BY DEF IdleFrame, Frames, NoPath, Ops
<1>2. children \in [Entries -> Seq(Entries)]
  BY DEF Init
<1>3. name \in [Entries -> Names \cup {RootName}] /\ type \in [Entries -> EntryTypes]
      /\ flags \in [Entries -> SUBSET Flags] /\ res \in [Entries -> ResClasses]
      /\ ref \in [Entries -> Nat] /\ parent \in [Entries -> Entries \cup {None}]
  BY DEF Init, EntryTypes, Flags, ResClasses
<1>4. live \subseteq Entries /\ Root \in live /\ parent[Root] = None
  BY DEF Init
<1>5. call \in Frames
  BY <1>1 DEF Init
<1>7. fatal \in BOOLEAN
  BY Zenon DEF Init
<1>8. pc \in PCs
  BY DEF Init, PCs
<1>6. pc = "idle"
  BY DEF Init
<1>. QED
  BY <1>2, <1>3, <1>4, <1>5, <1>6, <1>7, <1>8 DEF TypeOK

(* The parts of TypeOK about the tree and about the call in progress.     *)
TreeTypeOK ==
    /\ live \subseteq Entries /\ Root \in live
    /\ parent \in [Entries -> Entries \cup {None}]
    /\ name \in [Entries -> Names \cup {RootName}]
    /\ children \in [Entries -> Seq(Entries)]
    /\ type \in [Entries -> EntryTypes]
    /\ flags \in [Entries -> SUBSET Flags]
    /\ res \in [Entries -> ResClasses]
    /\ ref \in [Entries -> Nat]
    /\ parent[Root] = None
CallTypeOK ==
    /\ pc \in PCs
    /\ call \in Frames
    /\ pc = "create" => /\ call.path \in Paths /\ call.cur \in Entries
                        /\ call.idx \in 1..Len(call.path.segs)
    /\ pc = "rollback" => call.firstNew \in Entries
    /\ pc \in {"obsNs", "promote", "convert"} => call.cur \in Entries
    /\ pc = "release" => /\ call.rel \in Entries
                         /\ call.after = "rollback" => call.firstNew \in Entries

LEMMA TypeOKParts == TypeOK <=> TreeTypeOK /\ fatal \in BOOLEAN /\ CallTypeOK
BY DEF TypeOK, TreeTypeOK, CallTypeOK

(* AddChild of a free block under an entry keeps the tree typed; the      *)
(* block is not the root, which is allocated.                              *)
LEMMA AddChildTreeType ==
    ASSUME TreeTypeOK, NEW c \in Entries, NEW nm \in Names, NEW n \in Entries \ live,
           AddChild(c, nm, n)
    PROVE  TreeTypeOK'
<1>1. n # Root
  BY DEF TreeTypeOK
<1>2. live' \subseteq Entries /\ Root \in live'
  BY DEF AddChild, TreeTypeOK
<1>3. parent' \in [Entries -> Entries \cup {None}] /\ parent'[Root] = None
  BY <1>1 DEF AddChild, TreeTypeOK
<1>4. name' \in [Entries -> Names \cup {RootName}]
  BY DEF AddChild, TreeTypeOK
<1>5. Append(children[c], n) \in Seq(Entries)
  BY DEF TreeTypeOK
<1>6. children' \in [Entries -> Seq(Entries)]
  <2>1. children' = [e \in Entries |-> IF e = n THEN << >>
                                       ELSE IF e = c THEN Append(children[c], n)
                                       ELSE children[e]]
    BY DEF AddChild, TreeTypeOK
  <2>. QED
    BY <1>5, <2>1 DEF TreeTypeOK
<1>7. type' \in [Entries -> EntryTypes] /\ res' \in [Entries -> ResClasses]
  BY DEF AddChild, TreeTypeOK, EntryTypes, ResClasses
<1>8. flags' \in [Entries -> SUBSET Flags]
  BY DEF AddChild, TreeTypeOK, Flags
<1>9. ref' \in [Entries -> Nat]
  <2>1. ref' = [e \in Entries |-> IF e = n THEN 1 ELSE IF e = c THEN ref[c] + 1
                                  ELSE ref[e]]
    BY DEF AddChild, TreeTypeOK
  <2>. QED
    BY <2>1 DEF TreeTypeOK
<1>. QED
  BY <1>2, <1>3, <1>4, <1>6, <1>7, <1>8, <1>9 DEF TreeTypeOK

(* EntryDestructor on an entry with a parent keeps the tree typed: the     *)
(* entry is not the root, and the parent's list loses one element.         *)
LEMMA DestroyTreeType ==
    ASSUME TreeTypeOK, NEW r \in Entries, parent[r] # None, Destroy(r)
    PROVE  TreeTypeOK'
<1>1. r # Root /\ parent[r] \in Entries
  BY DEF TreeTypeOK
<1>2. Remove(children[parent[r]], r) \in Seq(Entries)
  BY <1>1, RemoveType DEF TreeTypeOK
<1>. QED
  BY <1>1, <1>2 DEF Destroy, TreeTypeOK, RootName, Flags, EntryTypes, ResClasses

LEMMA GetEntryTypeOK ==
    ASSUME TypeOK, NEW p \in Paths, GetEntry(p)
    PROVE  TypeOK'
<1>1. TreeTypeOK'
  BY TypeOKParts DEF GetEntry, tree, TreeTypeOK
<1>2. fatal' \in BOOLEAN
  BY TypeOKParts, Zenon DEF GetEntry
<1>3. Len(p.segs) \in 1..MaxDepth
  BY SegSeqsFacts DEF Paths
<1>4. call' = [op |-> "GetEntry", path |-> p, idx |-> 1, cur |-> Root, obs |-> FALSE,
                firstNew |-> None, created |-> FALSE, rel |-> None, after |-> "idle"]
  BY DEF GetEntry, IdleFrame
<1>5. call' \in Frames
  <2>1. /\ "GetEntry" \in Ops \cup {"none"} /\ p \in Paths \cup {NoPath}
        /\ 1 \in 0..MaxDepth /\ Root \in Entries \cup {None}
        /\ None \in Entries \cup {None} /\ "idle" \in {"idle", "rollback"}
    BY <1>3 DEF Ops
  <2>. QED
    BY <2>1, <1>4, FrameType, Zenon
<1>6. CallTypeOK'
  BY <1>3, <1>4, <1>5 DEF GetEntry, CallTypeOK, PCs
<1>. QED
  BY <1>1, <1>2, <1>6 DEF TypeOK, TreeTypeOK, CallTypeOK

LEMMA GetResourceTypeOK ==
    ASSUME TypeOK, NEW op \in {"GetResource", "CreateInput", "CreateOutput",
                               "GetObservation"},
           NEW p \in Paths, GetResource(op, p)
    PROVE  TypeOK'
<1>1. TreeTypeOK'
  BY TypeOKParts DEF GetResource, tree, TreeTypeOK
<1>2. fatal' \in BOOLEAN
  BY TypeOKParts, Zenon DEF GetResource
<1>3. Len(p.segs) \in 1..MaxDepth /\ FindEntry(p.segs) \in Entries \cup {None}
  BY SegSeqsFacts, FindEntryType DEF Paths
<1>4. ObsPrefixed(p) \in BOOLEAN /\ 1 \in 0..MaxDepth /\ op \in Ops \cup {"none"}
  BY DEF ObsPrefixed, Ops
<1> DEFINE e == FindEntry(p.segs)
<1>5. ASSUME e = None PROVE CallTypeOK'
  <2>1. /\ call' = [IdleFrame EXCEPT !.op = op, !.path = p, !.idx = 1, !.cur = Root,
                                     !.obs = ObsPrefixed(p)]
        /\ pc' = "create"
    BY <1>5 DEF GetResource
  <2>2. call' \in Frames
    BY <2>1, <1>3, <1>4, IdleFrameType DEF Frames
  <2>3. call'.path = p /\ call'.idx = 1 /\ call'.cur = Root
    BY <2>1 DEF IdleFrame
  <2>. QED
    BY <2>1, <2>2, <2>3, <1>3 DEF CallTypeOK, PCs
<1>6. ASSUME e # None /\ NeedsPlaceholder(e) PROVE CallTypeOK'
  <2>1. /\ call' = [IdleFrame EXCEPT !.op = op, !.cur = e, !.obs = ObsPrefixed(p)]
        /\ pc' = "obsNs"
    BY <1>6 DEF GetResource
  <2>2. call' \in Frames
    BY <2>1, <1>3, <1>4, IdleFrameType DEF Frames
  <2>3. call'.cur = e
    BY <2>1 DEF IdleFrame
  <2>. QED
    BY <2>1, <2>2, <2>3, <1>3, <1>6 DEF CallTypeOK, PCs
<1>7. ASSUME e # None /\ ~NeedsPlaceholder(e) PROVE CallTypeOK'
  <2>1. /\ call' = [IdleFrame EXCEPT !.op = op, !.cur = e]
        /\ pc' = "convert"
    BY <1>7 DEF GetResource
  <2>2. call' \in Frames
    BY <2>1, <1>3, <1>4, IdleFrameType DEF Frames
  <2>3. call'.cur = e
    BY <2>1 DEF IdleFrame
  <2>. QED
    BY <2>1, <2>2, <2>3, <1>3, <1>7 DEF CallTypeOK, PCs
<1>8. CallTypeOK'
  BY <1>5, <1>6, <1>7
<1>. QED
  BY <1>1, <1>2, <1>8 DEF TypeOK, TreeTypeOK, CallTypeOK

(* One iteration of the CreateEntry loop.                                 *)
LEMMA CreateEntryStepTypeOK ==
    ASSUME TypeOK, CreateEntryStep
    PROVE  TypeOK'
<1> DEFINE c == call.cur
           i == call.idx
           segs == call.path.segs
           nm == segs[i]
           last == IsLastSegment(i, segs)
           z == ChildEx(c, nm)
           first(n) == IF call.firstNew = None THEN n ELSE call.firstNew
<1>1. ~fatal /\ pc = "create"
  BY DEF CreateEntryStep
<1>2. /\ TreeTypeOK /\ call \in Frames /\ call.path \in Paths /\ c \in Entries
      /\ i \in 1..Len(segs)
  BY <1>1 DEF TypeOK, TreeTypeOK
<1>3. segs \in Seq(Names) /\ Len(segs) \in 1..MaxDepth
  BY <1>2, SegSeqsFacts DEF Paths
<1>4. nm \in Names /\ z \in Entries \cup {None}
  BY <1>2, <1>3, ChildExType DEF TreeTypeOK
<1>5. call.firstNew \in Entries \cup {None} /\ call.op \in Ops \cup {"none"}
  BY <1>2, FrameFields
<1>14. NoPath \in Paths \cup {NoPath} /\ 0 \in 0..MaxDepth
  OBVIOUS
<1>6. fatal' \in BOOLEAN
  <2>1. fatal' = TRUE \/ fatal' = fatal
    BY DEF CreateEntryStep
  <2>. QED
    BY <2>1, Zenon DEF TypeOK
<1>7. ASSUME z # None, last PROVE TreeTypeOK' /\ CallTypeOK'
  <2>1. UNCHANGED <<tree, pc, call>>
    BY <1>7 DEF CreateEntryStep
  <2>. QED
    BY <2>1, <1>1, <1>2 DEF tree, TreeTypeOK, CallTypeOK, TypeOK
<1>8. ASSUME z # None, ~last, ~IsDeleted(z) PROVE TreeTypeOK' /\ CallTypeOK'
  <2>1. /\ UNCHANGED <<tree, pc>>
        /\ call' = [call EXCEPT !.idx = i + 1, !.cur = z]
    BY <1>8 DEF CreateEntryStep
  <2>2. i + 1 \in 1..Len(segs) /\ i + 1 \in 0..MaxDepth
    BY <1>2, <1>3, <1>8 DEF IsLastSegment
  <2>3. call' \in Frames
    BY <2>1, <2>2, <1>2, <1>4, <1>8 DEF Frames
  <2>4. call'.path = call.path /\ call'.cur = z /\ call'.idx = i + 1
    BY <2>1, <1>2 DEF Frames
  <2>5. TreeTypeOK'
    BY <2>1, <1>2 DEF tree, TreeTypeOK
  <2>. QED
    BY <2>1, <2>2, <2>3, <2>4, <2>5, <1>1, <1>2, <1>4, <1>8 DEF CallTypeOK, PCs
<1>9. ASSUME z # None, ~last, IsDeleted(z), children[z] # << >>
      PROVE TreeTypeOK' /\ CallTypeOK'
  <2>1. UNCHANGED <<tree, pc, call>>
    BY <1>9 DEF CreateEntryStep
  <2>. QED
    BY <2>1, <1>1, <1>2 DEF tree, TreeTypeOK, CallTypeOK, TypeOK
<1>10. ASSUME z # None, ~last, IsDeleted(z), children[z] = << >>
       PROVE TreeTypeOK' /\ CallTypeOK'
  <2>1. /\ Resurrect(z)
        /\ UNCHANGED <<live, parent, name, children, type, res, ref, pc>>
        /\ call' = [call EXCEPT !.idx = i + 1, !.cur = z, !.firstNew = first(z)]
    BY <1>10 DEF CreateEntryStep
  <2>2. i + 1 \in 1..Len(segs) /\ i + 1 \in 0..MaxDepth /\ first(z) \in Entries
    BY <1>2, <1>3, <1>4, <1>5, <1>10 DEF IsLastSegment
  <2>3. call' \in Frames
    BY <2>1, <2>2, <1>2, <1>4, <1>10 DEF Frames
  <2>4. TreeTypeOK'
    BY <2>1, <1>2, <1>4, <1>10 DEF Resurrect, TreeTypeOK, Flags
  <2>5. call'.path = call.path /\ call'.cur = z /\ call'.idx = i + 1
    BY <2>1, <1>2 DEF Frames
  <2>. QED
    BY <2>1, <2>2, <2>3, <2>4, <2>5, <1>1, <1>2, <1>4, <1>10 DEF CallTypeOK, PCs
<1>11. ASSUME z = None, Free = {} PROVE TreeTypeOK' /\ CallTypeOK'
  <2>1. /\ UNCHANGED tree
        /\ IF call.firstNew = None
             THEN Return
             ELSE /\ pc' = "rollback"
                  /\ call' = [call EXCEPT !.path = NoPath, !.idx = 0]
    BY <1>11 DEF CreateEntryStep
  <2>2. TreeTypeOK'
    BY <2>1, <1>2 DEF tree, TreeTypeOK
  <2>3. CASE call.firstNew = None
    BY <2>1, <2>2, <2>3, IdleFrameType DEF Return, CallTypeOK, PCs
  <2>4. CASE call.firstNew # None
    <3>1. call' \in Frames
      BY <2>1, <2>4, <1>2, <1>14 DEF Frames
    <3>. QED
      BY <2>1, <2>2, <2>4, <3>1, <1>2, <1>5, FrameFields DEF CallTypeOK, PCs
  <2>. QED
    BY <2>3, <2>4
<1>12. ASSUME z = None, Free # {} PROVE TreeTypeOK' /\ CallTypeOK'
  <2>1. PICK n \in Free :
          /\ AddChild(c, nm, n)
          /\ IF last
               THEN /\ pc' = AfterCreate(call.op)
                    /\ call' = IF call.op = "GetEntry" THEN IdleFrame
                               ELSE [call EXCEPT !.cur = n, !.created = TRUE,
                                                 !.firstNew = first(n),
                                                 !.path = NoPath, !.idx = 0]
               ELSE /\ call' = [call EXCEPT !.idx = i + 1, !.cur = n,
                                            !.firstNew = first(n)]
                    /\ UNCHANGED pc
    BY <1>12 DEF CreateEntryStep
  <2>2. n \in Entries \ live /\ first(n) \in Entries
    BY <1>5 DEF Free
  <2>3. TreeTypeOK'
    BY <2>1, <2>2, <1>2, <1>4, AddChildTreeType
  <2>4. CASE last /\ call.op = "GetEntry"
    BY <2>1, <2>3, <2>4, IdleFrameType DEF AfterCreate, CallTypeOK, PCs
  <2>5. CASE last /\ call.op # "GetEntry"
    <3>1. call' = [call EXCEPT !.cur = n, !.created = TRUE, !.firstNew = first(n),
                               !.path = NoPath, !.idx = 0]
          /\ pc' = "obsNs"
      BY <2>1, <2>5 DEF AfterCreate
    <3>2. call' \in Frames
      BY <3>1, <2>2, <1>2, <1>14 DEF Frames
    <3>. QED
      BY <3>1, <3>2, <2>2, <2>3 DEF CallTypeOK, PCs
  <2>6. CASE ~last
    <3>1. call' = [call EXCEPT !.idx = i + 1, !.cur = n, !.firstNew = first(n)]
          /\ pc' = pc
      BY <2>1, <2>6
    <3>2. i + 1 \in 1..Len(segs) /\ i + 1 \in 0..MaxDepth
      BY <1>2, <1>3, <2>6 DEF IsLastSegment
    <3>3. call' \in Frames
      BY <3>1, <3>2, <2>2, <1>2 DEF Frames
    <3>. QED
      BY <3>1, <3>2, <3>3, <2>2, <2>3, <1>1, <1>2, FrameFields DEF CallTypeOK, PCs
  <2>. QED
    BY <2>4, <2>5, <2>6
<1>13. TreeTypeOK' /\ CallTypeOK'
  BY <1>7, <1>8, <1>9, <1>10, <1>11, <1>12
<1>. QED
  BY <1>6, <1>13 DEF TypeOK, TreeTypeOK, CallTypeOK

(* One iteration of CreateEntry's cleanup loop.                           *)
LEMMA CreateEntryCleanupTypeOK ==
    ASSUME TypeOK, CreateEntryCleanup
    PROVE  TypeOK'
<1> DEFINE tmp == call.cur
<1>1. /\ ~fatal /\ pc = "rollback" /\ tmp \in Entries /\ pc' = "release"
      /\ call' = [call EXCEPT !.cur = parent[tmp], !.rel = tmp,
                              !.after = RollbackNext(tmp, call.firstNew)]
      /\ UNCHANGED <<tree, fatal>>
  BY DEF CreateEntryCleanup
<1>2. call \in Frames /\ call.firstNew \in Entries /\ parent[tmp] \in Entries \cup {None}
  BY <1>1 DEF TypeOK
<1>3. RollbackNext(tmp, call.firstNew) \in {"idle", "rollback"}
  BY DEF RollbackNext
<1>4. call' \in Frames /\ call'.rel = tmp /\ call'.firstNew = call.firstNew
      /\ call'.after = RollbackNext(tmp, call.firstNew)
  BY <1>1, <1>2, <1>3 DEF Frames
<1>5. TreeTypeOK' /\ fatal' \in BOOLEAN
  BY <1>1, TypeOKParts DEF tree, TreeTypeOK
<1>. QED
  BY <1>1, <1>2, <1>4, <1>5 DEF TypeOK, TreeTypeOK, PCs

(* resTree_GetObsNamespace as the first half of the routing test.          *)
LEMMA ObsNamespaceStepTypeOK ==
    ASSUME TypeOK, ObsNamespaceStep
    PROVE  TypeOK'
<1> DEFINE z == ChildEx(Root, ObsName)
<1>1. ~fatal /\ pc = "obsNs" /\ call.cur \in Entries /\ TreeTypeOK /\ call \in Frames
  BY DEF ObsNamespaceStep, TypeOK, TreeTypeOK
<1>2. CASE FindEntry(<<ObsName>>) # None
  <2>1. pc' = "promote" /\ UNCHANGED <<tree, fatal, call>>
    BY <1>2 DEF ObsNamespaceStep
  <2>. QED
    BY <1>1, <2>1, TypeOKParts DEF tree, TypeOK, TreeTypeOK, PCs
<1>3. CASE FindEntry(<<ObsName>>) = None /\ (z # None \/ Free = {})
  <2>1. fatal' = TRUE /\ UNCHANGED <<tree, pc, call>>
    BY <1>3 DEF ObsNamespaceStep
  <2>. QED
    BY <1>1, <2>1, TypeOKParts DEF tree, TypeOK, TreeTypeOK
<1>4. CASE FindEntry(<<ObsName>>) = None /\ z = None /\ Free # {}
  <2>1. PICK n \in Free : AddChild(Root, ObsName, n)
    BY <1>4 DEF ObsNamespaceStep
  <2>2. pc' = "promote" /\ UNCHANGED <<fatal, call>>
    BY <1>4 DEF ObsNamespaceStep
  <2>3. TreeTypeOK'
    BY <1>1, <2>1, AddChildTreeType DEF Free
  <2>. QED
    BY <1>1, <2>2, <2>3, TypeOKParts DEF TypeOK, TreeTypeOK, PCs
<1>. QED
  BY <1>2, <1>3, <1>4

(* The placeholder is attached, or GetResource gives up.                   *)
LEMMA PromoteStepTypeOK ==
    ASSUME TypeOK, PromoteStep
    PROVE  TypeOK'
<1> DEFINE e == call.cur
           class == IF call.obs THEN "OBS" ELSE "IO"
<1>1. ~fatal /\ pc = "promote" /\ e \in Entries /\ TreeTypeOK /\ call \in Frames
  BY DEF PromoteStep, TypeOK, TreeTypeOK
<1>2. CASE /\ type' = [type EXCEPT ![e] = "PLACEHOLDER"]
           /\ res' = [res EXCEPT ![e] = class]
           /\ flags' = [flags EXCEPT ![e] = {"NEW"}]
           /\ IF call.op = "GetResource"
                THEN Return
                ELSE /\ pc' = "convert"
                     /\ UNCHANGED call
           /\ UNCHANGED <<live, parent, name, children, ref, fatal>>
  <2>1. TreeTypeOK'
    BY <1>1, <1>2 DEF TreeTypeOK, EntryTypes, ResClasses, Flags
  <2>. QED
    BY <1>1, <1>2, <2>1, IdleFrameType, TypeOKParts DEF Return, TypeOK, TreeTypeOK, PCs
<1>3. CASE /\ IF call.created
                THEN StartRelease(e, "idle")
                ELSE Return
           /\ UNCHANGED <<tree, fatal>>
  <2>1. TreeTypeOK' /\ fatal' \in BOOLEAN
    BY <1>1, <1>3, TypeOKParts DEF tree, TreeTypeOK
  <2>2. CASE call.created
    <3>1. call' = [call EXCEPT !.rel = e, !.after = "idle"] /\ pc' = "release"
      BY <1>3, <2>2 DEF StartRelease
    <3>2. call' \in Frames /\ call'.rel = e /\ call'.after = "idle"
      BY <1>1, <3>1 DEF Frames
    <3>. QED
      BY <2>1, <3>1, <3>2, <1>1 DEF TypeOK, TreeTypeOK, PCs
  <2>3. CASE ~call.created
    BY <1>3, <2>1, <2>3, IdleFrameType DEF Return, TypeOK, TreeTypeOK, PCs
  <2>. QED
    BY <2>2, <2>3
<1>. QED
  BY <1>2, <1>3 DEF PromoteStep

(* The tail of CreateInput, CreateOutput and GetObservation.               *)
LEMMA ConvertStepTypeOK ==
    ASSUME TypeOK, ConvertStep
    PROVE  TypeOK'
<1> DEFINE e == call.cur
<1>1. /\ ~fatal /\ pc = "convert" /\ e \in Entries /\ TreeTypeOK
      /\ UNCHANGED <<live, parent, name, children, flags, res, ref>>
  BY DEF ConvertStep, TypeOK, TreeTypeOK
<1>2. type' \in [Entries -> EntryTypes]
  BY <1>1 DEF ConvertStep, TreeTypeOK, EntryTypes
<1>3. TreeTypeOK'
  BY <1>1, <1>2 DEF TreeTypeOK
<1>4. (fatal' = TRUE /\ UNCHANGED <<pc, call>>) \/ (fatal' = fatal /\ Return)
  BY DEF ConvertStep
<1>5. fatal' \in BOOLEAN
  BY <1>4, Zenon DEF TypeOK
<1>6. CallTypeOK'
  BY <1>1, <1>4, IdleFrameType DEF Return, TypeOK, CallTypeOK, PCs
<1>. QED
  BY <1>3, <1>5, <1>6 DEF TypeOK, TreeTypeOK, CallTypeOK

(* The frame of a release started from idle, as DeleteIO,                 *)
(* DeleteObservation and the snapshot flush build it.                      *)
LEMMA ReleaseFrameType ==
    ASSUME NEW o \in Ops, NEW e \in Entries
    PROVE  /\ [IdleFrame EXCEPT !.op = o, !.rel = e] \in Frames
           /\ [IdleFrame EXCEPT !.op = o, !.rel = e].rel = e
           /\ [IdleFrame EXCEPT !.op = o, !.rel = e].after = "idle"
<1>1. [IdleFrame EXCEPT !.op = o, !.rel = e] \in Frames
  BY IdleFrameType DEF Frames
<1>. QED
  BY <1>1 DEF IdleFrame

(* resTree_DeleteIO: the entry becomes a placeholder, or a namespace      *)
(* whose release is started.                                               *)
LEMMA DeleteIOTypeOK ==
    ASSUME TypeOK, NEW e \in Entries, DeleteIO(e)
    PROVE  TypeOK'
<1>1. TreeTypeOK /\ CallTypeOK /\ fatal \in BOOLEAN /\ fatal' = fatal
  BY TypeOKParts DEF DeleteIO
<1>2. TombstoneFlags({}) \in SUBSET Flags /\ TombstoneRef({}) \in Nat
  BY DEF TombstoneFlags, TombstoneRef, Flags
<1>3. CASE /\ type' = [type EXCEPT ![e] = "PLACEHOLDER"]
           /\ UNCHANGED <<live, parent, name, children, flags, res, ref, pc, call>>
  <2>1. TreeTypeOK' /\ CallTypeOK'
    BY <1>1, <1>3 DEF TreeTypeOK, CallTypeOK, EntryTypes
  <2>. QED
    BY <1>1, <2>1 DEF TypeOK, TreeTypeOK, CallTypeOK
<1>4. CASE /\ type' = [type EXCEPT ![e] = "NAMESPACE"]
           /\ res' = [res EXCEPT ![e] = "NONE"]
           /\ flags' = [flags EXCEPT ![e] = TombstoneFlags({})]
           /\ ref' = [ref EXCEPT ![e] = @ + TombstoneRef({})]
           /\ call' = [IdleFrame EXCEPT !.op = "DeleteIO", !.rel = e]
           /\ pc' = "release"
           /\ UNCHANGED <<live, parent, name, children>>
  <2>1. TreeTypeOK'
    BY <1>1, <1>2, <1>4 DEF TreeTypeOK, EntryTypes, ResClasses
  <2>2. CallTypeOK'
    BY <1>4, ReleaseFrameType DEF CallTypeOK, PCs, Ops
  <2>. QED
    BY <1>1, <2>1, <2>2 DEF TypeOK, TreeTypeOK, CallTypeOK
<1>. QED
  BY <1>3, <1>4 DEF DeleteIO

(* resTree_DeleteObservation.                                              *)
LEMMA DeleteObservationTypeOK ==
    ASSUME TypeOK, NEW e \in Entries, DeleteObservation(e)
    PROVE  TypeOK'
<1>1. TreeTypeOK /\ fatal \in BOOLEAN /\ fatal' = fatal
  BY TypeOKParts DEF DeleteObservation
<1>2. TombstoneFlags({}) \in SUBSET Flags /\ TombstoneRef({}) \in Nat
  BY DEF TombstoneFlags, TombstoneRef, Flags
<1>3. TreeTypeOK'
  BY <1>1, <1>2 DEF DeleteObservation, TreeTypeOK, EntryTypes, ResClasses
<1>4. /\ call' = [IdleFrame EXCEPT !.op = "DeleteObservation", !.rel = e]
      /\ pc' = "release"
  BY DEF DeleteObservation
<1>5. CallTypeOK'
  BY <1>4, ReleaseFrameType DEF CallTypeOK, PCs, Ops
<1>. QED
  BY <1>1, <1>3, <1>5 DEF TypeOK, TreeTypeOK, CallTypeOK

(* The snapshot flag setters change one entry's flags and nothing else.    *)
LEMMA FlagStepTypeOK ==
    ASSUME TypeOK, NEW e \in Entries,
           \/ \E b \in BOOLEAN : SetRelevance(e, b)
           \/ SetClearNewnessFlag(e)
           \/ ClearNewness(e)
    PROVE  TypeOK'
<1>1. UNCHANGED <<live, parent, name, children, type, res, ref, fatal, pc, call>>
  BY DEF SetRelevance, SetClearNewnessFlag, ClearNewness
<1>2. flags' \in [Entries -> SUBSET Flags]
  <2>1. CASE \E b \in BOOLEAN : SetRelevance(e, b)
    BY <2>1 DEF SetRelevance, TypeOK, Flags
  <2>2. CASE SetClearNewnessFlag(e)
    BY <2>2 DEF SetClearNewnessFlag, TypeOK, Flags
  <2>3. CASE ClearNewness(e)
    BY <2>3 DEF ClearNewness, TypeOK, Flags
  <2>. QED
    BY <2>1, <2>2, <2>3
<1>. QED
  BY <1>1, <1>2 DEF TypeOK

(* The snapshot flush starts the release of a zombie.                      *)
LEMMA FlushDeletionTypeOK ==
    ASSUME TypeOK, NEW e \in Entries, FlushDeletion(e)
    PROVE  TypeOK'
<1>1. /\ call' = [IdleFrame EXCEPT !.op = "Flush", !.rel = e]
      /\ pc' = "release"
  BY DEF FlushDeletion
<1>2. CallTypeOK'
  BY <1>1, ReleaseFrameType DEF CallTypeOK, PCs, Ops
<1>3. TreeTypeOK' /\ fatal' \in BOOLEAN
  BY TypeOKParts DEF FlushDeletion, tree, TreeTypeOK
<1>. QED
  BY <1>2, <1>3 DEF TypeOK, TreeTypeOK, CallTypeOK

(* One le_mem_Release: a decrement, an abort, or the destructor.           *)
LEMMA ReleaseStepTypeOK ==
    ASSUME TypeOK, ReleaseStep
    PROVE  TypeOK'
<1> DEFINE r == call.rel
<1>1. ~fatal /\ pc = "release" /\ r \in Entries /\ TreeTypeOK /\ CallTypeOK
  BY TypeOKParts DEF ReleaseStep
<1>2. CASE ref[r] # 1 /\ ref[r] = 0
  <2>1. fatal' = TRUE /\ UNCHANGED <<tree, pc, call>>
    BY <1>2 DEF ReleaseStep, tree
  <2>2. TreeTypeOK' /\ CallTypeOK' /\ fatal' \in BOOLEAN
    BY <1>1, <2>1 DEF tree, TreeTypeOK, CallTypeOK
  <2>. QED
    BY <2>2 DEF TypeOK, TreeTypeOK, CallTypeOK
<1>3. CASE ref[r] # 1 /\ ref[r] # 0
  <2>1. /\ ref' = [ref EXCEPT ![r] = @ - 1]
        /\ pc' = call.after
        /\ call' = IF call.after = "idle" THEN IdleFrame ELSE call
        /\ UNCHANGED <<live, parent, name, children, type, flags, res, fatal>>
    BY <1>3 DEF ReleaseStep
  <2>2. ref[r] - 1 \in Nat
    BY <1>1, <1>3 DEF TreeTypeOK
  <2>3. TreeTypeOK'
    BY <1>1, <2>1, <2>2 DEF TreeTypeOK
  <2>4. call.after \in {"idle", "rollback"}
    BY <1>1 DEF CallTypeOK, Frames
  <2>5. CallTypeOK'
    BY <1>1, <2>1, <2>4, IdleFrameType DEF CallTypeOK, PCs
  <2>. QED
    BY <2>1, <2>3, <2>5, TypeOKParts DEF TypeOK, TreeTypeOK, CallTypeOK
<1>4. CASE ref[r] = 1 /\ (parent[r] = None \/ children[r] # << >>)
  <2>1. fatal' = TRUE /\ UNCHANGED <<tree, pc, call>>
    BY <1>4 DEF ReleaseStep
  <2>2. TreeTypeOK' /\ CallTypeOK' /\ fatal' \in BOOLEAN
    BY <1>1, <2>1 DEF tree, TreeTypeOK, CallTypeOK
  <2>. QED
    BY <2>2 DEF TypeOK, TreeTypeOK, CallTypeOK
<1>5. CASE ref[r] = 1 /\ ~(parent[r] = None \/ children[r] # << >>)
  <2>1. Destroy(r) /\ call' = [call EXCEPT !.rel = parent[r]] /\ UNCHANGED <<fatal, pc>>
    BY <1>5 DEF ReleaseStep
  <2>2. TreeTypeOK'
    BY <1>1, <1>5, <2>1, DestroyTreeType
  <2>3. parent[r] \in Entries
    BY <1>1, <1>5 DEF TreeTypeOK
  <2>4. call' \in Frames /\ call'.rel = parent[r] /\ call'.after = call.after
        /\ call'.firstNew = call.firstNew
    BY <1>1, <2>1, <2>3 DEF CallTypeOK, Frames
  <2>5. CallTypeOK'
    BY <1>1, <2>1, <2>3, <2>4 DEF CallTypeOK, PCs
  <2>. QED
    BY <2>1, <2>2, <2>5, TypeOKParts DEF TypeOK, TreeTypeOK, CallTypeOK
<1>. QED
  BY <1>2, <1>3, <1>4, <1>5

LEMMA NextTypeOK ==
    ASSUME TypeOK, [Next]_vars
    PROVE  TypeOK'
<1>1. CASE \E p \in Paths : GetEntry(p)
  BY <1>1, GetEntryTypeOK
<1>2. CASE \E op \in {"GetResource", "CreateInput", "CreateOutput", "GetObservation"},
              p \in Paths : GetResource(op, p)
  BY <1>2, GetResourceTypeOK
<1>3. CASE \E e \in Entries : DeleteIO(e)
  BY <1>3, DeleteIOTypeOK
<1>4. CASE \E e \in Entries : DeleteObservation(e)
  BY <1>4, DeleteObservationTypeOK
<1>5. CASE \/ \E e \in Entries, b \in BOOLEAN : SetRelevance(e, b)
           \/ \E e \in Entries : SetClearNewnessFlag(e)
           \/ \E e \in Entries : ClearNewness(e)
  BY <1>5, FlagStepTypeOK
<1>6. CASE \E e \in Entries : FlushDeletion(e)
  BY <1>6, FlushDeletionTypeOK
<1>7. CASE CreateEntryStep
  BY <1>7, CreateEntryStepTypeOK
<1>8. CASE CreateEntryCleanup
  BY <1>8, CreateEntryCleanupTypeOK
<1>9. CASE ObsNamespaceStep
  BY <1>9, ObsNamespaceStepTypeOK
<1>10. CASE PromoteStep
  BY <1>10, PromoteStepTypeOK
<1>11. CASE ConvertStep
  BY <1>11, ConvertStepTypeOK
<1>12. CASE ReleaseStep
  BY <1>12, ReleaseStepTypeOK
<1>13. CASE Halted \/ UNCHANGED vars
  BY <1>13 DEF Halted, vars, TypeOK
<1>. QED
  BY <1>1, <1>2, <1>3, <1>4, <1>5, <1>6, <1>7, <1>8, <1>9, <1>10, <1>11,
     <1>12, <1>13 DEF Next

(* Type correctness of the whole tree and call protocol, for any pool,     *)
(* any set of names and any depth bound: in particular the CreateEntry     *)
(* walk (resTree.c CreateEntry) never indexes a path segment past its end, *)
(* and every release and destructor step works on an allocated block.     *)
THEOREM TypeCorrect == Spec => []TypeOK
<1>1. Init => TypeOK
  BY InitTypeOK
<1>2. TypeOK /\ [Next]_vars => TypeOK'
  BY NextTypeOK
<1>. QED
  BY <1>1, <1>2, PTL DEF Spec

=============================================================================
