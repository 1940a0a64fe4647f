---------------------------- MODULE ResTreeSafety ----------------------------
(***************************************************************************)
(* Safety proofs about the resource tree model ResTree beyond its types:  *)
(* the zombie flag invariant of resTree_SetDeleted and the type state      *)
(* machine, for every pool, set of names and path depth the constant       *)
(* assumptions allow.                                                      *)
(***************************************************************************)
EXTENDS ResTreeProofs

-----------------------------------------------------------------------------
(* The zombie flags, action by action.  An action that leaves the type,   *)
(* flags and allocation of every entry but one alone only has to be        *)
(* checked on that entry.                                                  *)

(* A step that changes at most entry x's flags and type, and allocates at  *)
(* most x, keeps ZombieFlags when x ends up satisfying it.                 *)
LEMMA OneEntryZombie ==
    ASSUME TypeOK, ZombieFlags, NEW x \in Entries,
           live' \subseteq live \cup {x},
           \A e \in Entries \ {x} : flags'[e] = flags[e] /\ type'[e] = type[e],
           x \in live' => ("DELETED" \in flags'[x] =>
                             type'[x] = "NAMESPACE" /\ "NEW" \notin flags'[x])
    PROVE  ZombieFlags'
BY DEF ZombieFlags, TypeOK

(* Nothing about flags, types or allocation changes.                       *)
LEMMA FrameZombie ==
    ASSUME ZombieFlags, UNCHANGED <<live, flags, type>>
    PROVE  ZombieFlags'
BY DEF ZombieFlags

(* AddChild makes a fresh namespace whose flags are NEW.                   *)
LEMMA AddChildZombie ==
    ASSUME TypeOK, ZombieFlags, NEW c \in Entries, NEW nm, NEW n \in Entries,
           AddChild(c, nm, n)
    PROVE  ZombieFlags'
<1>1. flags'[n] = {"NEW"}
  BY DEF AddChild, TypeOK
<1>. QED
  BY <1>1, OneEntryZombie DEF AddChild, TypeOK

LEMMA CreateEntryStepZombie ==
    ASSUME TypeOK, ZombieFlags, CreateEntryStep
    PROVE  ZombieFlags'
<1> DEFINE c == call.cur
           i == call.idx
           nm == call.path.segs[i]
           z == ChildEx(c, nm)
<1>1. c \in Entries
  BY DEF CreateEntryStep, TypeOK
<1>2. z \in Entries \cup {None}
  BY <1>1, ChildExType DEF TypeOK
<1>3. CASE /\ z # None /\ IsDeleted(z) /\ children[z] = << >>
           /\ Resurrect(z)
           /\ UNCHANGED <<live, parent, name, children, type, res, ref, fatal, pc>>
  <2>1. z \in Entries /\ flags'[z] = {"NEW"}
    BY <1>2, <1>3 DEF Resurrect, TypeOK
  <2>. QED
    BY <1>3, <2>1, OneEntryZombie DEF Resurrect, TypeOK
<1>4. CASE z = None /\ \E n \in Free : AddChild(c, nm, n)
  BY <1>1, <1>4, AddChildZombie DEF Free
<1>5. CASE ~(z # None /\ IsDeleted(z) /\ children[z] = << >> /\ Resurrect(z)
             /\ UNCHANGED <<live, parent, name, children, type, res, ref, fatal, pc>>)
           /\ ~(z = None /\ \E n \in Free : AddChild(c, nm, n))
  BY <1>5, FrameZombie DEF CreateEntryStep, tree, Return
<1>. QED
  BY <1>3, <1>4, <1>5

LEMMA ObsNamespaceStepZombie ==
    ASSUME TypeOK, ZombieFlags, ObsNamespaceStep
    PROVE  ZombieFlags'
<1>1. CASE \E n \in Free : AddChild(Root, ObsName, n)
  BY <1>1, AddChildZombie DEF Free, TypeOK
<1>2. CASE ~\E n \in Free : AddChild(Root, ObsName, n)
  BY <1>2, FrameZombie DEF ObsNamespaceStep, tree
<1>. QED
  BY <1>1, <1>2

(* The placeholder gets fresh NEW flags.                                   *)
LEMMA PromoteStepZombie ==
    ASSUME TypeOK, ZombieFlags, PromoteStep
    PROVE  ZombieFlags'
<1> DEFINE e == call.cur
<1>1. e \in Entries
  BY DEF PromoteStep
<1>2. CASE flags' = [flags EXCEPT ![e] = {"NEW"}]
           /\ type' = [type EXCEPT ![e] = "PLACEHOLDER"] /\ live' = live
  BY <1>1, <1>2, OneEntryZombie DEF TypeOK
<1>3. CASE ~(flags' = [flags EXCEPT ![e] = {"NEW"}]
             /\ type' = [type EXCEPT ![e] = "PLACEHOLDER"] /\ live' = live)
  BY <1>3, FrameZombie DEF PromoteStep, tree, Return, StartRelease
<1>. QED
  BY <1>2, <1>3

(* Only a placeholder changes type, and a placeholder is no zombie.        *)
LEMMA ConvertStepZombie ==
    ASSUME TypeOK, ZombieFlags, ConvertStep
    PROVE  ZombieFlags'
<1> DEFINE e == call.cur
<1>1. e \in Entries /\ UNCHANGED <<live, flags>>
  BY DEF ConvertStep
<1>2. \A x \in Entries \ {e} : type'[x] = type[x]
  BY DEF ConvertStep, TypeOK
<1>3. type'[e] # type[e] => type[e] = "PLACEHOLDER"
  BY DEF ConvertStep, TypeOK
<1>. QED
  BY <1>1, <1>2, <1>3, OneEntryZombie DEF ZombieFlags

(* DeleteIO and DeleteObservation leave an Input or Output (no zombie) a   *)
(* placeholder, or make a namespace whose flags are the tombstone's.       *)
LEMMA DeleteZombie ==
    ASSUME TypeOK, ZombieFlags, NEW e \in Entries, DeleteIO(e) \/ DeleteObservation(e)
    PROVE  ZombieFlags'
<1>1. type[e] # "NAMESPACE" /\ live' = live /\ e \in live
  BY DEF DeleteIO, DeleteObservation
<1>2. \A x \in Entries \ {e} : flags'[x] = flags[x] /\ type'[x] = type[x]
  BY DEF DeleteIO, DeleteObservation, TypeOK
<1>3. TombstoneFlags({}) = {"DELETED"}
  BY DEF TombstoneFlags
<1>4. \/ flags' = flags /\ type' = [type EXCEPT ![e] = "PLACEHOLDER"]
      \/ flags' = [flags EXCEPT ![e] = {"DELETED"}]
         /\ type' = [type EXCEPT ![e] = "NAMESPACE"]
  BY <1>3 DEF DeleteIO, DeleteObservation
<1>5. "DELETED" \in flags'[e] => type'[e] = "NAMESPACE" /\ "NEW" \notin flags'[e]
  <2>1. CASE flags' = flags /\ type' = [type EXCEPT ![e] = "PLACEHOLDER"]
    <3>1. type[e] \in EntryTypes \ {"NAMESPACE"}
      BY <1>1 DEF TypeOK
    <3>. QED
      BY <2>1, <3>1, <1>1 DEF ZombieFlags, TypeOK
  <2>2. CASE flags' = [flags EXCEPT ![e] = {"DELETED"}]
             /\ type' = [type EXCEPT ![e] = "NAMESPACE"]
    BY <2>2 DEF TypeOK
  <2>. QED
    BY <1>4, <2>1, <2>2
<1>. QED
  BY <1>1, <1>2, <1>5, OneEntryZombie

(* The setters change RELEVANT and CLEAR_NEW, and ClearNewness removes     *)
(* NEW.                                                                    *)
LEMMA FlagStepZombie ==
    ASSUME TypeOK, ZombieFlags, NEW e \in Entries,
           \/ \E b \in BOOLEAN : SetRelevance(e, b)
           \/ SetClearNewnessFlag(e)
           \/ ClearNewness(e)
    PROVE  ZombieFlags'
<1>1. UNCHANGED <<live, type>>
  BY DEF SetRelevance, SetClearNewnessFlag, ClearNewness
<1>2. \A x \in Entries \ {e} : flags'[x] = flags[x]
  BY DEF SetRelevance, SetClearNewnessFlag, ClearNewness, TypeOK
<1>3. /\ "DELETED" \in flags'[e] => "DELETED" \in flags[e]
      /\ "NEW" \in flags'[e] => "NEW" \in flags[e]
  BY DEF SetRelevance, SetClearNewnessFlag, ClearNewness, TypeOK
<1>. QED
  BY <1>1, <1>2, <1>3, OneEntryZombie DEF ZombieFlags

(* The destructor frees the entry; nothing else changes flags or types.   *)
LEMMA ReleaseStepZombie ==
    ASSUME TypeOK, ZombieFlags, ReleaseStep
    PROVE  ZombieFlags'
<1> DEFINE r == call.rel
<1>1. r \in Entries
  BY DEF ReleaseStep
<1>2. CASE ref[r] = 1 /\ ~(parent[r] = None \/ children[r] # << >>)
  <2>1. Destroy(r)
    BY <1>2 DEF ReleaseStep
  <2>2. live' = live \ {r} /\ \A x \in Entries \ {r} : flags'[x] = flags[x] /\ type'[x] = type[x]
    BY <1>1, <2>1 DEF Destroy, TypeOK
  <2>. QED
    BY <1>1, <2>2, OneEntryZombie
<1>3. CASE ~(ref[r] = 1 /\ ~(parent[r] = None \/ children[r] # << >>))
  BY <1>3, FrameZombie DEF ReleaseStep, tree
<1>. QED
  BY <1>2, <1>3

LEMMA NextZombie ==
    ASSUME TypeOK, ZombieFlags, [Next]_vars
    PROVE  ZombieFlags'
<1>1. CASE \/ \E p \in Paths : GetEntry(p)
           \/ \E op \in {"GetResource", "CreateInput", "CreateOutput", "GetObservation"},
                 p \in Paths : GetResource(op, p)
           \/ \E e \in Entries : FlushDeletion(e)
           \/ CreateEntryCleanup
           \/ Halted \/ UNCHANGED vars
  BY <1>1, FrameZombie DEF GetEntry, GetResource, FlushDeletion, CreateEntryCleanup,
                           Halted, vars, tree
<1>2. CASE \E e \in Entries : DeleteIO(e) \/ DeleteObservation(e)
  BY <1>2, DeleteZombie
<1>3. CASE \/ \E e \in Entries, b \in BOOLEAN : SetRelevance(e, b)
           \/ \E e \in Entries : SetClearNewnessFlag(e)
           \/ \E e \in Entries : ClearNewness(e)
  BY <1>3, FlagStepZombie
<1>4. CASE CreateEntryStep
  BY <1>4, CreateEntryStepZombie
<1>5. CASE ObsNamespaceStep
  BY <1>5, ObsNamespaceStepZombie
<1>6. CASE PromoteStep
  BY <1>6, PromoteStepZombie
<1>7. CASE ConvertStep
  BY <1>7, ConvertStepZombie
<1>8. CASE ReleaseStep
  BY <1>8, ReleaseStepZombie
<1>. QED
  BY <1>1, <1>2, <1>3, <1>4, <1>5, <1>6, <1>7, <1>8 DEF Next

(* resTree_SetDeleted's assertions hold on every zombie for every pool and *)
(* path bound: AddChild's resurrection and GetResource's promotion never   *)
(* leave DELETED on a live entry that is not a namespace or that is NEW.   *)
THEOREM ZombiesFlagged == Spec => []ZombieFlags
<1>1. Init => ZombieFlags
  <2> SUFFICES ASSUME Init, NEW e \in live PROVE "DELETED" \notin flags[e]
    BY DEF ZombieFlags
  <2>1. flags[e] \in {{"NEW"}, {}}
    BY EntriesAssumption DEF Init
  <2>. QED
    BY <2>1
<1>2. TypeOK /\ ZombieFlags /\ [Next]_vars => ZombieFlags'
  BY NextZombie
<1>. QED
  BY <1>1, <1>2, TypeCorrect, PTL DEF Spec

-----------------------------------------------------------------------------
(* The type state machine.  The only step that changes a type without     *)
(* testing it is PromoteStep's placeholder; it relies on GetResource and  *)
(* CreateEntry handing CreatePlaceholderForNamespace a namespace, which    *)
(* GetObsNamespace does not change.                                        *)

(* Between GetResource's test and the placeholder, the entry is a          *)
(* namespace.                                                              *)
PromoteNs == pc \in {"obsNs", "promote"} => type[call.cur] = "NAMESPACE"

(* The step relation of TypeTransitions.                                  *)
TypeArrowStep ==
    \A e \in live \cap live' :
        type'[e] # type[e] => <<type[e], type'[e]>> \in TypeArrows

LEMMA CreateEntryStepPromoteNs ==
    ASSUME TypeOK, CreateEntryStep
    PROVE  PromoteNs' /\ TypeArrowStep
<1> DEFINE c == call.cur
           i == call.idx
           nm == call.path.segs[i]
           last == IsLastSegment(i, call.path.segs)
           z == ChildEx(c, nm)
<1>1. CASE z = None /\ \E n \in Free : AddChild(c, nm, n)
  <2>1. PICK n \in Free :
          /\ AddChild(c, nm, n)
          /\ IF last
               THEN /\ pc' = AfterCreate(call.op)
                    /\ call' = IF call.op = "GetEntry" THEN IdleFrame
                               ELSE [call EXCEPT !.cur = n, !.created = TRUE,
                                                 !.firstNew = IF call.firstNew = None
                                                              THEN n ELSE call.firstNew,
                                                 !.path = NoPath, !.idx = 0]
               ELSE /\ call' = [call EXCEPT !.idx = i + 1, !.cur = n,
                                            !.firstNew = IF call.firstNew = None
                                                         THEN n ELSE call.firstNew]
                    /\ UNCHANGED pc
    BY <1>1 DEF CreateEntryStep, AddChild, Free
  <2>2. type' = [type EXCEPT ![n] = "NAMESPACE"] /\ live' = live \cup {n} /\ n \notin live
    BY <2>1 DEF AddChild, Free
  <2>3. pc' \in {"obsNs", "promote"} => call'.cur = n
    BY <2>1 DEF CreateEntryStep, AfterCreate, TypeOK, Frames, IdleFrame
  <2>. QED
    BY <2>2, <2>3 DEF PromoteNs, TypeArrowStep, TypeOK, Free
<1>2. CASE ~(z = None /\ \E n \in Free : AddChild(c, nm, n))
  <2>1. type' = type /\ pc' \in {"create", "rollback", "idle"}
    BY <1>2 DEF CreateEntryStep, Resurrect, Return, tree
  <2>. QED
    BY <2>1 DEF PromoteNs, TypeArrowStep
<1>. QED
  BY <1>1, <1>2

LEMMA ObsNamespaceStepPromoteNs ==
    ASSUME TypeOK, PromoteNs, ObsNamespaceStep
    PROVE  PromoteNs' /\ TypeArrowStep
<1>1. call' = call /\ type[call.cur] = "NAMESPACE"
  BY DEF ObsNamespaceStep, PromoteNs
<1>2. CASE \E n \in Free : AddChild(Root, ObsName, n)
  <2>1. PICK n \in Free : AddChild(Root, ObsName, n)
    BY <1>2
  <2>. QED
    BY <1>1, <2>1 DEF AddChild, Free, PromoteNs, TypeArrowStep, TypeOK
<1>3. CASE ~\E n \in Free : AddChild(Root, ObsName, n)
  BY <1>1, <1>3 DEF ObsNamespaceStep, tree, PromoteNs, TypeArrowStep
<1>. QED
  BY <1>2, <1>3

LEMMA PromoteStepPromoteNs ==
    ASSUME TypeOK, PromoteNs, PromoteStep
    PROVE  PromoteNs' /\ TypeArrowStep
<1>1. type[call.cur] = "NAMESPACE" /\ call.cur \in Entries
  BY DEF PromoteStep, PromoteNs
<1>2. pc' \in {"idle", "convert", "release"}
  BY DEF PromoteStep, Return, StartRelease
<1>3. \A e \in Entries : type'[e] # type[e] => e = call.cur /\ type'[e] = "PLACEHOLDER"
  BY DEF PromoteStep, TypeOK, tree
<1>. QED
  BY <1>1, <1>2, <1>3 DEF PromoteNs, TypeArrowStep, TypeArrows, TypeOK

LEMMA ConvertStepPromoteNs ==
    ASSUME TypeOK, ConvertStep
    PROVE  PromoteNs' /\ TypeArrowStep
<1>1. pc' \in {"idle", "convert"}
  BY DEF ConvertStep, Return
<1>2. \A e \in Entries : type'[e] # type[e] =>
          type[e] = "PLACEHOLDER" /\ type'[e] \in {"INPUT", "OUTPUT", "OBSERVATION"}
  BY DEF ConvertStep, TypeOK
<1>. QED
  BY <1>1, <1>2 DEF PromoteNs, TypeArrowStep, TypeArrows, TypeOK

LEMMA DeletePromoteNs ==
    ASSUME TypeOK, NEW e \in Entries, DeleteIO(e) \/ DeleteObservation(e)
    PROVE  PromoteNs' /\ TypeArrowStep
<1>1. pc' \in {"idle", "release"}
  BY DEF DeleteIO, DeleteObservation, Idle
<1>2. \A x \in Entries : type'[x] # type[x] =>
          \/ type[x] \in {"INPUT", "OUTPUT"} /\ type'[x] \in {"PLACEHOLDER", "NAMESPACE"}
          \/ type[x] = "OBSERVATION" /\ type'[x] = "NAMESPACE"
  BY DEF DeleteIO, DeleteObservation, TypeOK
<1>. QED
  BY <1>1, <1>2 DEF PromoteNs, TypeArrowStep, TypeArrows, TypeOK

LEMMA ReleaseStepPromoteNs ==
    ASSUME TypeOK, ReleaseStep
    PROVE  PromoteNs' /\ TypeArrowStep
<1> DEFINE r == call.rel
<1>1. pc' \in {"release", "idle", "rollback"}
  BY DEF ReleaseStep, Frames, TypeOK
<1>2. CASE ref[r] = 1 /\ ~(parent[r] = None \/ children[r] # << >>)
  <2>1. Destroy(r) /\ r \in Entries
    BY <1>2 DEF ReleaseStep
  <2>2. live' = live \ {r} /\ \A x \in Entries \ {r} : type'[x] = type[x]
    BY <2>1 DEF Destroy, TypeOK
  <2>. QED
    BY <1>1, <2>2 DEF PromoteNs, TypeArrowStep, TypeOK
<1>3. CASE ~(ref[r] = 1 /\ ~(parent[r] = None \/ children[r] # << >>))
  BY <1>1, <1>3 DEF ReleaseStep, tree, PromoteNs, TypeArrowStep
<1>. QED
  BY <1>2, <1>3

LEMMA NextPromoteNs ==
    ASSUME TypeOK, PromoteNs, [Next]_vars
    PROVE  PromoteNs' /\ TypeArrowStep
<1>1. CASE \/ \E e \in Entries, b \in BOOLEAN : SetRelevance(e, b)
           \/ \E e \in Entries : SetClearNewnessFlag(e)
           \/ \E e \in Entries : ClearNewness(e)
           \/ \E e \in Entries : FlushDeletion(e)
           \/ \E p \in Paths : GetEntry(p)
           \/ CreateEntryCleanup
           \/ Halted \/ UNCHANGED vars
  BY <1>1 DEF SetRelevance, SetClearNewnessFlag, ClearNewness, FlushDeletion, GetEntry,
              CreateEntryCleanup, Halted, vars, tree, Idle, PromoteNs, TypeArrowStep
<1>2. CASE \E op \in {"GetResource", "CreateInput", "CreateOutput", "GetObservation"},
              p \in Paths : GetResource(op, p)
  <2>1. PICK op \in {"GetResource", "CreateInput", "CreateOutput", "GetObservation"},
             p \in Paths : GetResource(op, p)
    BY <1>2
  <2>2. type' = type /\ pc' \in {"create", "obsNs", "convert"}
    BY <2>1 DEF GetResource, tree
  <2>3. pc' = "obsNs" => type[call'.cur] = "NAMESPACE"
    BY <2>1 DEF GetResource, NeedsPlaceholder, IdleFrame
  <2>. QED
    BY <2>2, <2>3 DEF PromoteNs, TypeArrowStep
<1>3. CASE \E e \in Entries : DeleteIO(e) \/ DeleteObservation(e)
  BY <1>3, DeletePromoteNs
<1>4. CASE CreateEntryStep
  BY <1>4, CreateEntryStepPromoteNs
<1>5. CASE ObsNamespaceStep
  BY <1>5, ObsNamespaceStepPromoteNs
<1>6. CASE PromoteStep
  BY <1>6, PromoteStepPromoteNs
<1>7. CASE ConvertStep
  BY <1>7, ConvertStepPromoteNs
<1>8. CASE ReleaseStep
  BY <1>8, ReleaseStepPromoteNs
<1>. QED
  BY <1>1, <1>2, <1>3, <1>4, <1>5, <1>6, <1>7, <1>8 DEF Next

(* The entry type state machine of spec section 4.3 holds in every step   *)
(* of every call: resTree_GetResource, resTree_CreateInput/CreateOutput,   *)
(* resTree_GetObservation, resTree_DeleteIO and resTree_DeleteObservation  *)
(* change the type of an allocated entry only along its arrows.            *)
THEOREM TypesFollowArrows == Spec => TypeTransitions
<1>1. Init => PromoteNs
  BY DEF Init, PromoteNs
<1>2. TypeOK /\ PromoteNs /\ [Next]_vars => PromoteNs'
  BY NextPromoteNs
<1>3. TypeOK /\ PromoteNs /\ [Next]_vars => [TypeArrowStep]_vars
  BY NextPromoteNs
<1>4. Spec => [](TypeOK /\ PromoteNs)
  BY <1>1, <1>2, TypeCorrect, PTL DEF Spec
<1>. QED
  BY <1>3, <1>4, PTL DEF Spec, TypeTransitions, TypeArrowStep

=============================================================================
