------------------------------ MODULE ResTree ------------------------------
(***************************************************************************)
(* The Data Hub resource tree (src/components/dataHub/resTree.c).          *)
(*                                                                         *)
(* The tree is a pool of Entry_t blocks (EntryPool) linked by parentPtr    *)
(* and by each entry's childList.  Every entry is reference counted by     *)
(* le_mem: the block's allocation holds one count, each child holds one on *)
(* its parent (AddChild), and the snapshotter holds one on a deleted       *)
(* "zombie" entry until it flushes it.  A count reaching zero runs         *)
(* EntryDestructor, which unlinks the entry and releases its parent.       *)
(*                                                                         *)
(* All tree operations run on the Data Hub's single event loop, so an API  *)
(* call is never interleaved with another one.  The model still takes the  *)
(* code's loops (the path walk of CreateEntry, its rollback, the release   *)
(* cascade of le_mem_Release) one iteration per step, with the call's      *)
(* local variables in the frame `call` and the statement reached in `pc`;  *)
(* no other call starts until pc is "idle" again.                          *)
(*                                                                         *)
(* Paths are relative to the Root namespace, the way the spec's scenarios  *)
(* use them, and are well formed (a malformed path returns                 *)
(* LE_BAD_PARAMETER before touching the tree).                             *)
(***************************************************************************)
EXTENDS Naturals, Sequences, FiniteSets

CONSTANTS
    Entries,    \* the blocks of EntryPool (DEFAULT_RESOURCE_TREE_ENTRY_POOL_SIZE)
    Root,       \* the block resTree_Init allocates for the root namespace
    None,       \* NULL
    Names,      \* entry names that paths may use
    ObsName,    \* "obs", the name of the observations namespace
    MaxDepth    \* the longest path, in segments, that callers pass

RootName == ""    \* the root's name, AddChild(NULL, "", NULL)

ASSUME EntriesAssumption == Root \in Entries /\ None \notin Entries
ASSUME NamesAssumption == ObsName \in Names /\ RootName \notin Names
ASSUME DepthAssumption == MaxDepth \in Nat \ {0}

EntryTypes == {"NAMESPACE", "PLACEHOLDER", "INPUT", "OUTPUT", "OBSERVATION"}

(* NULL is not an entry: no record of an entry's type, parent and name is  *)
(* the NULL pointer.                                                       *)
ASSUME NoneAssumption ==
    None \notin [type : EntryTypes, parent : Entries \cup {None}, name : Names \cup {RootName}]
Flags == {"NEW", "RELEVANT", "CLEAR_NEW", "DELETED"}   \* RES_FLAG_*

(* The class of the res_Resource_t attached to an entry: none, one made by *)
(* res_CreateIoPlaceholder, or one made by res_CreateObsPlaceholder.       *)
ResClasses == {"NONE", "IO", "OBS"}

(* A path: whether it starts with '/', and its segment names.             *)
SegSeqs == UNION {[1..n -> Names] : n \in 1..MaxDepth}
Paths == [abs : BOOLEAN, segs : SegSeqs]
NoPath == [abs |-> FALSE, segs |-> << >>]

(* The API functions whose calls the model starts.                        *)
Ops == {"GetEntry", "GetResource", "CreateInput", "CreateOutput",
        "GetObservation", "DeleteIO", "DeleteObservation", "Flush"}
PCs == {"idle", "create", "rollback", "obsNs", "promote", "convert", "release"}

(* The frame of the call in progress: the path, the index of the path      *)
(* segment the CreateEntry loop is at (idx), currentEntry (cur), whether   *)
(* the path routes a new placeholder to the observations (obs),            *)
(* firstNewEntry (firstNew), GetResource's createdEntry (created), and     *)
(* the entry a le_mem_Release is releasing (rel) with where control goes   *)
(* once that release returns (after).                                      *)
Frames == [op : Ops \cup {"none"}, path : Paths \cup {NoPath},
           idx : 0..MaxDepth, cur : Entries \cup {None}, obs : BOOLEAN,
           firstNew : Entries \cup {None}, created : BOOLEAN,
           rel : Entries \cup {None}, after : {"idle", "rollback"}]
IdleFrame == [op |-> "none", path |-> NoPath, idx |-> 0, cur |-> None, obs |-> FALSE,
              firstNew |-> None, created |-> FALSE, rel |-> None,
              after |-> "idle"]

VARIABLES
    live,       \* the blocks of EntryPool that are allocated
    parent,     \* parentPtr
    name,       \* name
    children,   \* childList, in list order
    type,       \* type
    flags,      \* u.flags of a namespace; the mirrored res flags otherwise
    res,        \* the class of u.resourcePtr
    ref,        \* the le_mem reference count of the block
    fatal,      \* an LE_ASSERT or LE_FATAL has aborted the process
    pc,         \* the statement the call in progress has reached
    call        \* the frame of the call in progress

tree == <<live, parent, name, children, type, flags, res, ref>>
vars == <<live, parent, name, children, type, flags, res, ref, fatal, pc, call>>

-----------------------------------------------------------------------------
(* Reading the tree.                                                       *)

\* resTree_IsDeleted: only a namespace can carry the DELETED flag.
IsDeleted(e) == type[e] = "NAMESPACE" /\ "DELETED" \in flags[e]

\* resTree_IsResource.
IsResource(e) == type[e] # "NAMESPACE" /\ res[e] # "NONE"

\* Mutant: a lookup that skips zombies, as resTree_FindChild(c, nm) does.
ChildExLive(c, nm) ==
    LET ch == children[c]
        IsFirst(j) == /\ name[ch[j]] = nm /\ ~IsDeleted(ch[j])
                      /\ \A k \in 1..(j - 1) : ~(name[ch[k]] = nm /\ ~IsDeleted(ch[k]))
    IN  IF \E j \in DOMAIN ch : IsFirst(j)
          THEN ch[CHOOSE j \in DOMAIN ch : IsFirst(j)]
          ELSE None

(* resTree_FindChildEx(c, nm, true): the first entry of c's child list     *)
(* named nm, zombies included, or NULL.                                    *)
ChildEx(c, nm) ==
    LET ch == children[c]
        IsFirst(j) == name[ch[j]] = nm /\ \A k \in 1..(j - 1) : name[ch[k]] # nm
    IN  IF \E j \in DOMAIN ch : IsFirst(j)
          THEN ch[CHOOSE j \in DOMAIN ch : IsFirst(j)]
          ELSE None

\* Mutant: a walk that looks every segment up under the root.
FindEntryFromRoot(segs) ==
    LET n == Len(segs)
        Walks(w) == \A j \in 1..n : w[j] = ChildEx(Root, segs[j]) /\ ~IsDeleted(w[j])
    IN  IF \E w \in [1..n -> Entries] : Walks(w)
          THEN (CHOOSE w \in [1..n -> Entries] : Walks(w))[n]
          ELSE None

(* FindEntry(Root, path): each segment is looked up with zombies included *)
(* and the walk fails when the child found is a zombie.  w is the walk's  *)
(* sequence of entries, one per segment.                                  *)
FindEntry(segs) ==
    LET n == Len(segs)
        Up(w, j) == IF j = 1 THEN Root ELSE w[j - 1]
        Walks(w) == \A j \in 1..n : w[j] = ChildEx(Up(w, j), segs[j])
                                    /\ ~IsDeleted(w[j])
    IN  IF \E w \in [1..n -> Entries] : Walks(w)
          THEN (CHOOSE w \in [1..n -> Entries] : Walks(w))[n]
          ELSE None

Free == Entries \ live

(* The routing rule of CreatePlaceholderForNamespace: strncmp(path,        *)
(* "/obs/", 5) == 0.  The other half of the test, baseNamespace ==         *)
(* resTree_GetObsNamespace(), is false because the base is Root.           *)
ObsPrefixed(p) == p.abs /\ Len(p.segs) >= 2 /\ p.segs[1] = ObsName

(* The index of x in the sequence s.                                       *)
IndexOf(s, x) == CHOOSE j \in DOMAIN s : s[j] = x

(* le_dls_Remove: s without its element x.                                 *)
Remove(s, x) ==
    IF \E j \in DOMAIN s : s[j] = x
      THEN [k \in 1..(Len(s) - 1) |-> IF k < IndexOf(s, x) THEN s[k] ELSE s[k + 1]]
      ELSE s

-----------------------------------------------------------------------------
(* Entry life cycle.                                                       *)

\* Mutant: AddChild that forgets le_mem_AddRef(parentPtr).
AddChildNoParentRef(c, nm, n) ==
    /\ live' = live \cup {n}
    /\ parent' = [parent EXCEPT ![n] = c]
    /\ name' = [name EXCEPT ![n] = nm]
    /\ children' = [children EXCEPT ![c] = Append(@, n), ![n] = << >>]
    /\ type' = [type EXCEPT ![n] = "NAMESPACE"]
    /\ flags' = [flags EXCEPT ![n] = {"NEW"}]
    /\ res' = [res EXCEPT ![n] = "NONE"]
    /\ ref' = [ref EXCEPT ![n] = 1]

(* AddChild(c, nm, NULL) once hub_MemAlloc returned block n: a fresh       *)
(* namespace named nm with flags NEW, queued at the end of c's child list, *)
(* holding a count on c; the block's own count is 1.                       *)
AddChild(c, nm, n) ==
    /\ live' = live \cup {n}
    /\ parent' = [parent EXCEPT ![n] = c]
    /\ name' = [name EXCEPT ![n] = nm]
    /\ children' = [children EXCEPT ![c] = Append(@, n), ![n] = << >>]
    /\ type' = [type EXCEPT ![n] = "NAMESPACE"]
    /\ flags' = [flags EXCEPT ![n] = {"NEW"}]
    /\ res' = [res EXCEPT ![n] = "NONE"]
    /\ ref' = [ref EXCEPT ![c] = @ + 1, ![n] = 1]

\* Mutant: resurrection that ORs in NEW instead of assigning the flags.
ResurrectKeepFlags(z) == flags' = [flags EXCEPT ![z] = @ \cup {"NEW"}]

(* AddChild(c, nm, z) for a zombie z with no children: z is reused as is   *)
(* and only its flags are reset to NEW.                                    *)
Resurrect(z) == flags' = [flags EXCEPT ![z] = {"NEW"}]

\* Mutant: EntryDestructor that does not unlink the entry from its parent.
DestroyNoUnlink(r) ==
    /\ live' = live \ {r}
    /\ parent' = [parent EXCEPT ![r] = None]
    /\ name' = [name EXCEPT ![r] = RootName]
    /\ children' = children
    /\ type' = [type EXCEPT ![r] = "NAMESPACE"]
    /\ flags' = [flags EXCEPT ![r] = {}]
    /\ res' = [res EXCEPT ![r] = "NONE"]
    /\ ref' = [ref EXCEPT ![r] = 0]

(* The block r reaches count 0: EntryDestructor removes it from its        *)
(* parent's child list and the block returns to the pool (its fields are   *)
(* reset here only so that free blocks all look alike).                    *)
Destroy(r) ==
    /\ live' = live \ {r}
    /\ parent' = [parent EXCEPT ![r] = None]
    /\ name' = [name EXCEPT ![r] = RootName]
    /\ children' = [children EXCEPT ![parent[r]] = Remove(@, r)]
    /\ type' = [type EXCEPT ![r] = "NAMESPACE"]
    /\ flags' = [flags EXCEPT ![r] = {}]
    /\ res' = [res EXCEPT ![r] = "NONE"]
    /\ ref' = [ref EXCEPT ![r] = 0]

(* snapshot_RecordNodeDeletion on an entry whose flags are f: an entry a   *)
(* snapshot has seen (NEW clear) is kept as a zombie with DELETED set and  *)
(* one more count; one it has not seen is left to be freed.                *)
TombstoneFlags(f) == IF "NEW" \in f THEN f ELSE f \cup {"DELETED"}
TombstoneRef(f) == IF "NEW" \in f THEN 0 ELSE 1

(* Start le_mem_Release(r); control goes to `next` once it returns.        *)
StartRelease(r, next) ==
    /\ pc' = "release"
    /\ call' = [call EXCEPT !.rel = r, !.after = next]

Return ==
    /\ pc' = "idle"
    /\ call' = IdleFrame

(* No call is in progress: the event loop may run the next API call.       *)
Idle == ~fatal /\ pc = "idle"

-----------------------------------------------------------------------------
(* Starting a call.                                                        *)

\* Mutant: GetResource that attaches a placeholder whatever the entry is.
NeedsPlaceholderAny(e) == TRUE

(* GetResource replaces an entry by a Placeholder only if it is a          *)
(* Namespace.                                                              *)
NeedsPlaceholder(e) == type[e] = "NAMESPACE"

(* The callers of resTree_CreateInput/CreateOutput make sure no Input,     *)
(* Output or Observation is at the path.                                   *)
CallerMayCreateIo(e) == IF e = None THEN TRUE
                        ELSE type[e] \in {"NAMESPACE", "PLACEHOLDER"}

(* resTree_GetEntry(Root, p) on a path with no entry: CreateEntry starts.  *)
(* (When FindEntry finds the entry the call changes nothing.)              *)
GetEntry(p) ==
    /\ Idle
    /\ FindEntry(p.segs) = None
    /\ pc' = "create"
    /\ call' = [IdleFrame EXCEPT !.op = "GetEntry", !.path = p, !.idx = 1,
                                 !.cur = Root]
    /\ UNCHANGED <<tree, fatal>>

(* resTree_GetResource(Root, p), alone or as the first statement of        *)
(* resTree_CreateInput, resTree_CreateOutput and resTree_GetObservation:   *)
(* FindEntry, then CreateEntry if nothing is there, then a placeholder if  *)
(* the entry is a namespace.  (GetResource alone on an existing resource   *)
(* changes nothing.)                                                       *)
GetResource(op, p) ==
    LET e == FindEntry(p.segs) IN
    /\ Idle
    /\ op \in {"CreateInput", "CreateOutput"} => CallerMayCreateIo(e)
    /\ \/ /\ e = None
          /\ pc' = "create"
          /\ call' = [IdleFrame EXCEPT !.op = op, !.path = p, !.idx = 1,
                                       !.cur = Root, !.obs = ObsPrefixed(p)]
       \/ /\ e # None
          /\ NeedsPlaceholder(e)
          /\ pc' = "obsNs"
          /\ call' = [IdleFrame EXCEPT !.op = op, !.cur = e, !.obs = ObsPrefixed(p)]
       \/ /\ e # None
          /\ ~NeedsPlaceholder(e)
          /\ op # "GetResource"
          /\ pc' = "convert"
          /\ call' = [IdleFrame EXCEPT !.op = op, !.cur = e]
    /\ UNCHANGED <<tree, fatal>>

-----------------------------------------------------------------------------
(* CreateEntry: one iteration of its loop over the path segments.          *)

(* Where CreateEntry returns to once the last segment exists: the caller   *)
(* GetEntry is done; GetResource goes on with the placeholder.             *)
AfterCreate(op) == IF op = "GetEntry" THEN "idle" ELSE "obsNs"

\* Mutant: the walk takes the segment after the last one for the last.
IsLastSegmentPastEnd(i, segs) == i = Len(segs) + 1

(* The segment being walked is the last one: the name just copied ends at  *)
(* the end of the path string.                                             *)
IsLastSegment(i, segs) == i = Len(segs)

CreateEntryStep ==
    LET c == call.cur
        i == call.idx
        nm == call.path.segs[i]
        last == IsLastSegment(i, call.path.segs)
        z == ChildEx(c, nm)
        first(n) == IF call.firstNew = None THEN n ELSE call.firstNew
    IN
    /\ ~fatal /\ pc = "create"
    /\ \/ \* LE_FATAL_IF: the child found for the last segment (a zombie).
          /\ z # None /\ last
          /\ fatal' = TRUE
          /\ UNCHANGED <<tree, pc, call>>
       \/ \* A live child: it becomes currentEntry.
          /\ z # None /\ ~last /\ ~IsDeleted(z)
          /\ call' = [call EXCEPT !.idx = i + 1, !.cur = z]
          /\ UNCHANGED <<tree, fatal, pc>>
       \/ \* AddChild(c, nm, z) on a zombie that has children: LE_ASSERT.
          /\ z # None /\ ~last /\ IsDeleted(z) /\ children[z] # << >>
          /\ fatal' = TRUE
          /\ UNCHANGED <<tree, pc, call>>
       \/ \* AddChild(c, nm, z) resurrects a childless zombie.
          /\ z # None /\ ~last /\ IsDeleted(z) /\ children[z] = << >>
          /\ Resurrect(z)
          /\ call' = [call EXCEPT !.idx = i + 1, !.cur = z, !.firstNew = first(z)]
          /\ UNCHANGED <<live, parent, name, children, type, res, ref, fatal, pc>>
       \/ \* hub_MemAlloc fails: goto cleanup.
          /\ z = None /\ Free = {}
          /\ IF call.firstNew = None
               THEN Return
               ELSE /\ pc' = "rollback"
                    /\ call' = [call EXCEPT !.path = NoPath, !.idx = 0]
          /\ UNCHANGED <<tree, fatal>>
       \/ \* AddChild(c, nm, NULL) allocates block n.
          /\ z = None
          /\ \E n \in Free :
               /\ AddChild(c, nm, n)
               /\ IF last
                    THEN /\ pc' = AfterCreate(call.op)
                         /\ call' = IF call.op = "GetEntry" THEN IdleFrame
                                    ELSE [call EXCEPT !.cur = n, !.created = TRUE,
                                                      !.firstNew = first(n),
                                                      !.path = NoPath, !.idx = 0]
                    ELSE /\ call' = [call EXCEPT !.idx = i + 1, !.cur = n,
                                                 !.firstNew = first(n)]
                         /\ UNCHANGED pc
          /\ UNCHANGED fatal

\* Mutant: the cleanup loop never stops at firstNewEntry.
RollbackNextNoStop(tmp, first) == "rollback"

(* The do-while condition of the cleanup: stop once firstNewEntry has been *)
(* released.                                                               *)
RollbackNext(tmp, first) == IF tmp = first THEN "idle" ELSE "rollback"

(* One iteration of CreateEntry's cleanup: tmp = currentEntry;             *)
(* currentEntry = currentEntry->parentPtr; le_mem_Release(tmp).            *)
CreateEntryCleanup ==
    LET tmp == call.cur IN
    /\ ~fatal /\ pc = "rollback"
    /\ tmp \in Entries
    /\ pc' = "release"
    /\ call' = [call EXCEPT !.cur = parent[tmp], !.rel = tmp,
                            !.after = RollbackNext(tmp, call.firstNew)]
    /\ UNCHANGED <<tree, fatal>>

-----------------------------------------------------------------------------
(* CreatePlaceholderForNamespace and the rest of GetResource.              *)

(* resTree_GetObsNamespace(), called first by the routing test:            *)
(* resTree_GetEntry(Root, "obs") under LE_ASSERT.  A zombie "obs" makes    *)
(* CreateEntry abort; a full pool makes the LE_ASSERT abort.               *)
ObsNamespaceStep ==
    LET z == ChildEx(Root, ObsName) IN
    /\ ~fatal /\ pc = "obsNs"
    /\ \/ /\ FindEntry(<<ObsName>>) # None
          /\ pc' = "promote"
          /\ UNCHANGED <<tree, fatal, call>>
       \/ /\ FindEntry(<<ObsName>>) = None
          /\ z # None \/ Free = {}
          /\ fatal' = TRUE
          /\ UNCHANGED <<tree, pc, call>>
       \/ /\ FindEntry(<<ObsName>>) = None
          /\ z = None
          /\ \E n \in Free : AddChild(Root, ObsName, n)
          /\ pc' = "promote"
          /\ UNCHANGED <<fatal, call>>

(* The placeholder is attached (the res_* constructor may fail).  On       *)
(* failure GetResource releases the entry if this call created it.  The    *)
(* new resource's snapshot flags start as NEW.                             *)
PromoteStep ==
    LET e == call.cur
        class == IF call.obs THEN "OBS" ELSE "IO"
    IN
    /\ ~fatal /\ pc = "promote"
    /\ e \in Entries
    /\ \/ /\ type' = [type EXCEPT ![e] = "PLACEHOLDER"]
          /\ res' = [res EXCEPT ![e] = class]
          /\ flags' = [flags EXCEPT ![e] = {"NEW"}]
          /\ IF call.op = "GetResource"
               THEN Return
               ELSE /\ pc' = "convert"
                    /\ UNCHANGED call
          /\ UNCHANGED <<live, parent, name, children, ref, fatal>>
       \/ /\ IF call.created
               THEN StartRelease(e, "idle")
               ELSE Return
          /\ UNCHANGED <<tree, fatal>>

(* What resTree_CreateInput, resTree_CreateOutput and                      *)
(* resTree_GetObservation do with the entry GetResource returned.          *)
ConvertStep ==
    LET e == call.cur IN
    /\ ~fatal /\ pc = "convert"
    /\ e \in Entries
    /\ \/ /\ call.op \in {"CreateInput", "CreateOutput"}
          /\ IF type[e] = "PLACEHOLDER"
               THEN /\ type' = [type EXCEPT ![e] = IF call.op = "CreateInput"
                                                   THEN "INPUT" ELSE "OUTPUT"]
                    /\ Return
                    /\ UNCHANGED fatal
               ELSE /\ fatal' = TRUE     \* LE_ASSERT(type == PLACEHOLDER)
                    /\ UNCHANGED <<type, pc, call>>
       \/ /\ call.op = "GetObservation"
          /\ type' = [type EXCEPT ![e] = IF @ = "PLACEHOLDER" THEN "OBSERVATION"
                                         ELSE @]
          /\ Return
          /\ UNCHANGED fatal
    /\ UNCHANGED <<live, parent, name, children, flags, res, ref>>

-----------------------------------------------------------------------------
(* Deleting resources and the snapshot flag protocol.                      *)

(* resTree_DeleteIO on an Input or Output.  With admin settings left it    *)
(* becomes a Placeholder; otherwise it becomes a namespace with flags 0,   *)
(* the deletion is recorded and the entry is released.                     *)
DeleteIO(e) ==
    /\ Idle /\ e \in live
    /\ type[e] \in {"INPUT", "OUTPUT"}
    /\ \E hasAdminSettings \in BOOLEAN :
         \/ /\ hasAdminSettings
              /\ type' = [type EXCEPT ![e] = "PLACEHOLDER"]
              /\ UNCHANGED <<live, parent, name, children, flags, res, ref, pc, call>>
         \/ /\ ~hasAdminSettings
              /\ type' = [type EXCEPT ![e] = "NAMESPACE"]
              /\ res' = [res EXCEPT ![e] = "NONE"]
              /\ flags' = [flags EXCEPT ![e] = TombstoneFlags({})]
              /\ ref' = [ref EXCEPT ![e] = @ + TombstoneRef({})]
              /\ call' = [IdleFrame EXCEPT !.op = "DeleteIO", !.rel = e]
              /\ pc' = "release"
              /\ UNCHANGED <<live, parent, name, children>>
    /\ UNCHANGED fatal

(* resTree_DeleteObservation.                                              *)
DeleteObservation(e) ==
    /\ Idle /\ e \in live
    /\ type[e] = "OBSERVATION"
    /\ type' = [type EXCEPT ![e] = "NAMESPACE"]
    /\ res' = [res EXCEPT ![e] = "NONE"]
    /\ flags' = [flags EXCEPT ![e] = TombstoneFlags({})]
    /\ ref' = [ref EXCEPT ![e] = @ + TombstoneRef({})]
    /\ call' = [IdleFrame EXCEPT !.op = "DeleteObservation", !.rel = e]
    /\ pc' = "release"
    /\ UNCHANGED <<live, parent, name, children, fatal>>

(* resTree_SetRelevance.  The flag setters write u.flags of a namespace   *)
(* and forward to the res_* setter, which keeps the same flags in the      *)
(* resource, for any other entry; both are the one `flags` here.           *)
SetRelevance(e, relevant) ==
    /\ Idle /\ e \in live
    /\ flags' = [flags EXCEPT ![e] = IF relevant THEN @ \cup {"RELEVANT"}
                                     ELSE @ \ {"RELEVANT"}]
    /\ UNCHANGED <<live, parent, name, children, type, res, ref, fatal, pc, call>>

\* resTree_SetClearNewnessFlag.
SetClearNewnessFlag(e) ==
    /\ Idle /\ e \in live
    /\ flags' = [flags EXCEPT ![e] = @ \cup {"CLEAR_NEW"}]
    /\ UNCHANGED <<live, parent, name, children, type, res, ref, fatal, pc, call>>

(* resTree_ClearNewness, which the snapshot flush calls on the entries     *)
(* whose CLEAR_NEW flag is set.                                            *)
ClearNewness(e) ==
    /\ Idle /\ e \in live
    /\ "CLEAR_NEW" \in flags[e]
    /\ flags' = [flags EXCEPT ![e] = @ \ {"NEW", "CLEAR_NEW"}]
    /\ UNCHANGED <<live, parent, name, children, type, res, ref, fatal, pc, call>>

(* The snapshot flush physically removes a zombie whose NEW flag is clear: *)
(* it drops the count RecordNodeDeletion took.  A zombie that still has    *)
(* children cannot be removed and is kept.                                 *)
FlushDeletion(e) ==
    /\ Idle /\ e \in live
    /\ IsDeleted(e) /\ "NEW" \notin flags[e] /\ children[e] = << >>
    /\ call' = [IdleFrame EXCEPT !.op = "Flush", !.rel = e]
    /\ pc' = "release"
    /\ UNCHANGED <<tree, fatal>>

-----------------------------------------------------------------------------
(* le_mem_Release and EntryDestructor.                                     *)

(* One release of block r: a count above 1 is decremented and the release  *)
(* returns; the last count runs EntryDestructor (LE_ASSERTs that r has a   *)
(* parent and no children), which unlinks r and ends by releasing the      *)
(* parent, the next step.  le_mem aborts on a block whose count is 0.      *)
ReleaseStep ==
    LET r == call.rel IN
    /\ ~fatal /\ pc = "release"
    /\ r \in Entries
    /\ \/ /\ ref[r] # 1
          /\ IF ref[r] = 0
               THEN /\ fatal' = TRUE
                    /\ UNCHANGED <<ref, pc, call>>
               ELSE /\ ref' = [ref EXCEPT ![r] = @ - 1]
                    /\ pc' = call.after
                    /\ call' = IF call.after = "idle" THEN IdleFrame ELSE call
                    /\ UNCHANGED fatal
          /\ UNCHANGED <<live, parent, name, children, type, flags, res>>
       \/ /\ ref[r] = 1
          /\ IF parent[r] = None \/ children[r] # << >>
               THEN /\ fatal' = TRUE
                    /\ UNCHANGED <<tree, pc, call>>
               ELSE /\ Destroy(r)
                    /\ call' = [call EXCEPT !.rel = parent[r]]
                    /\ UNCHANGED <<fatal, pc>>

-----------------------------------------------------------------------------

Init ==
    /\ live = {Root}
    /\ parent = [e \in Entries |-> None]
    /\ name = [e \in Entries |-> RootName]
    /\ children = [e \in Entries |-> << >>]
    /\ type = [e \in Entries |-> "NAMESPACE"]
    /\ flags = [e \in Entries |-> IF e = Root THEN {"NEW"} ELSE {}]
    /\ res = [e \in Entries |-> "NONE"]
    /\ ref = [e \in Entries |-> IF e = Root THEN 1 ELSE 0]
    /\ fatal = FALSE
    /\ pc = "idle"
    /\ call = IdleFrame

(* The process has aborted: nothing happens any more.                      *)
Halted == fatal /\ UNCHANGED vars

(* A call from a client of the tree (the IO API, the admin API, the       *)
(* snapshotter) or the next step of the call in progress.                  *)
Next ==
    \/ \E p \in Paths : GetEntry(p)
    \/ \E op \in {"GetResource", "CreateInput", "CreateOutput", "GetObservation"},
          p \in Paths : GetResource(op, p)
    \/ \E e \in Entries : DeleteIO(e)
    \/ \E e \in Entries : DeleteObservation(e)
    \/ \E e \in Entries, b \in BOOLEAN : SetRelevance(e, b)
    \/ \E e \in Entries : SetClearNewnessFlag(e)
    \/ \E e \in Entries : ClearNewness(e)
    \/ \E e \in Entries : FlushDeletion(e)
    \/ CreateEntryStep
    \/ CreateEntryCleanup
    \/ ObsNamespaceStep
    \/ PromoteStep
    \/ ConvertStep
    \/ ReleaseStep
    \/ Halted

Spec == Init /\ [][Next]_vars

(* The steps of the call in progress.  The event loop runs a call to its   *)
(* end before it takes the next event, and none of these steps waits on    *)
(* anything: once one is enabled the thread takes it.                      *)
CallStep ==
    \/ CreateEntryStep
    \/ CreateEntryCleanup
    \/ ObsNamespaceStep
    \/ PromoteStep
    \/ ConvertStep
    \/ ReleaseStep

FairSpec == Spec /\ WF_vars(CallStep)

-----------------------------------------------------------------------------
(* Properties.                                                             *)

(* Every variable has its type, the root has no parent, and the frame     *)
(* holds what the statement reached needs: the CreateEntry loop's segment  *)
(* index stays inside the path, and the statements that work on an entry   *)
(* have one.                                                               *)
TypeOK ==
    /\ live \subseteq Entries /\ Root \in live
    /\ parent \in [Entries -> Entries \cup {None}]
    /\ name \in [Entries -> Names \cup {RootName}]
    /\ children \in [Entries -> Seq(Entries)]
    /\ type \in [Entries -> EntryTypes]
    /\ flags \in [Entries -> SUBSET Flags]
    /\ res \in [Entries -> ResClasses]
    /\ ref \in [Entries -> Nat]
    /\ fatal \in BOOLEAN
    /\ pc \in PCs
    /\ call \in Frames
    /\ parent[Root] = None
    /\ pc = "create" => /\ call.path \in Paths /\ call.cur \in Entries
                        /\ call.idx \in 1..Len(call.path.segs)
    /\ pc = "rollback" => call.firstNew \in Entries
    /\ pc \in {"obsNs", "promote", "convert"} => call.cur \in Entries
    /\ pc = "release" => /\ call.rel \in Entries
                         /\ call.after = "rollback" => call.firstNew \in Entries

(* Between calls every entry's reference count is its children's counts    *)
(* plus the one of its allocation (or of the zombie record that replaced   *)
(* it), and a free block has count 0: no path through CreateEntry, its     *)
(* rollback, GetResource's release, DeleteIO/DeleteObservation with        *)
(* RecordNodeDeletion and the destructor cascade loses or adds a count.    *)
RefCountExact ==
    (pc = "idle" /\ ~fatal) =>
        \A e \in Entries : ref[e] = IF e \in live THEN Len(children[e]) + 1 ELSE 0

(* The parentPtr links and the child lists agree: every child in a list is *)
(* an allocated entry whose parent is the list's owner, and every entry    *)
(* but the root is in its parent's list exactly once.  A destructor that   *)
(* left a freed block in a list would break it.                            *)
TreeLinked ==
    ~fatal =>
        /\ parent[Root] = None
        /\ \A e \in live : \A j \in DOMAIN children[e] :
               children[e][j] \in live /\ parent[children[e][j]] = e
        /\ \A e \in live \ {Root} :
               /\ parent[e] \in live
               /\ \E j \in DOMAIN children[parent[e]] :
                      /\ children[parent[e]][j] = e
                      /\ \A k \in DOMAIN children[parent[e]] :
                             children[parent[e]][k] = e => k = j

(* No two entries of a child list have the same name: CreateEntry looks a *)
(* segment up with resTree_FindChildEx, zombies included, and AddChild     *)
(* only adds a child under a name that lookup did not find, so a path      *)
(* names at most one entry.  A lookup that skipped zombies would add a     *)
(* second child under a zombie's name.                                     *)
SiblingNamesUnique ==
    \A e \in live : \A j, k \in DOMAIN children[e] :
        name[children[e][j]] = name[children[e][k]] => j = k

(* A zombie (DELETED) is a namespace whose NEW flag is clear, as           *)
(* resTree_SetDeleted asserts: resurrection by AddChild and promotion by   *)
(* GetResource must not leave a DELETED flag behind.                       *)
ZombieFlags ==
    \A e \in live : "DELETED" \in flags[e] =>
        type[e] = "NAMESPACE" /\ "NEW" \notin flags[e]

(* The entry type only moves along the arrows of the type state machine:  *)
(* namespace to placeholder (GetResource), placeholder to input, output or *)
(* observation, input/output back to placeholder or namespace (DeleteIO),  *)
(* observation to namespace (DeleteObservation).                           *)
TypeArrows ==
    {<<"NAMESPACE", "PLACEHOLDER">>, <<"PLACEHOLDER", "INPUT">>,
     <<"PLACEHOLDER", "OUTPUT">>, <<"PLACEHOLDER", "OBSERVATION">>,
     <<"INPUT", "PLACEHOLDER">>, <<"OUTPUT", "PLACEHOLDER">>,
     <<"INPUT", "NAMESPACE">>, <<"OUTPUT", "NAMESPACE">>,
     <<"OBSERVATION", "NAMESPACE">>}
TypeTransitions ==
    [][\A e \in live \cap live' :
          type'[e] # type[e] => <<type[e], type'[e]>> \in TypeArrows]_vars

(* Spec section 7: contract violations (LE_ASSERT, LE_FATAL) are           *)
(* unreachable through the public API.                                     *)
NoFatal == ~fatal

(* Spec section 3: create(base, path) makes the missing segments, and a   *)
(* zombie on a segment is resurrected rather than replaced, so that        *)
(* get_entry and get_resource return an entry at a deleted path: the       *)
(* CreateEntry walk of resTree_GetEntry and resTree_GetResource never      *)
(* aborts.                                                                 *)
CreateResurrects == ~(fatal /\ pc = "create")

(* The segments naming entry w[n] when w is its chain of ancestors below   *)
(* the root, none of them a zombie.                                        *)
IsLiveAncestry(w, n) ==
    /\ parent[w[1]] = Root
    /\ \A j \in 2..n : parent[w[j]] = w[j - 1]
    /\ \A j \in 1..n : w[j] \in live /\ ~IsDeleted(w[j])

(* Spec section 4.3: find walks the children, treating zombies as absent.  *)
(* So a resource with no zombie on its way up from it to the root is found *)
(* at its path: resTree_FindEntry(Root, path_of(e)) returns e.  It holds   *)
(* only if a zombie never shadows a live sibling of the same name, and    *)
(* that depends on creation and lookup both using FindChildEx(..., true).  *)
ResourceFoundAtPath ==
    (pc = "idle" /\ ~fatal) =>
        \A n \in 1..MaxDepth : \A w \in [1..n -> Entries] :
            (IsLiveAncestry(w, n) /\ IsResource(w[n]))
                => FindEntry([j \in 1..n |-> name[w[j]]]) = w[n]

(* What resTree_GetFirstChild/resTree_GetNextSibling enumerate: each       *)
(* returns NULL when the next link is a zombie, so the walk ends there.    *)
IteratedChildren(e) ==
    LET ch == children[e]
        stop == {j \in DOMAIN ch : IsDeleted(ch[j])}
    IN  IF stop = {} THEN ch
        ELSE SubSeq(ch, 1, (CHOOSE j \in stop : \A k \in stop : j <= k) - 1)

(* Spec section 4.3: child traversal does not expose zombies, and sees     *)
(* every live child in insertion order.                                    *)
ChildIterationComplete ==
    (pc = "idle" /\ ~fatal) =>
        \A e \in live :
            IteratedChildren(e) = SelectSeq(children[e], LAMBDA c : ~IsDeleted(c))

(* Spec section 4.4: deleting an entry that no snapshot has seen (NEW set) *)
(* drops it outright and leaves no DELETED tombstone.                      *)
NoTombstoneForNew ==
    [][\A e \in live :
          (type[e] # "NAMESPACE" /\ "NEW" \in flags[e] /\ type'[e] = "NAMESPACE")
              => "DELETED" \notin flags'[e]]_vars

(* Every API call returns: the CreateEntry walk, its cleanup loop (which  *)
(* must meet firstNewEntry), GetResource's promotion and the le_mem_Release *)
(* cascade up the parentPtr chain all end, in an idle tree or an abort.    *)
CallsComplete == (pc # "idle") ~> (pc = "idle" \/ fatal)

-----------------------------------------------------------------------------
(* The tree implements the entry life cycle of ResTreeEntries: a block's   *)
(* entry is its type, parentPtr and name while it is allocated.            *)
EntryOf(e) ==
    IF e \in live THEN [type |-> type[e], parent |-> parent[e], name |-> name[e]]
    ELSE None
Life == INSTANCE ResTreeEntries WITH ent <- [e \in Entries |-> EntryOf(e)],
                                     NoEntry <- None, Labels <- Names,
                                     RootLabel <- RootName

(* Spec sections 3, 4.3 and 8: every step of every call, rollbacks and     *)
(* destructor cascades included, is a step of the entry life cycle or      *)
(* leaves it alone: AddChild creates a namespace under a live parent with  *)
(* a name no sibling (zombie or not) has, parentPtr and name never change, *)
(* types follow the state machine, and EntryDestructor frees only a        *)
(* namespace that is not the root and no live entry's parent.              *)
ImplementsEntries == Life!Spec

=============================================================================
