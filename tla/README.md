# TLA+ models of the Data Hub resource tree and data samples

This directory models two files of the Data Hub service:

- `src/components/dataHub/resTree.c` is the resource tree.
- `src/components/dataHub/dataSample.c` is the data samples.

The models are checked with TLC, and the type and ownership invariants are proved with TLAPS.

## The system

**Data samples (`dataSample.c`).** A sample is a timestamp and a value: a trigger, a Boolean, a number, a string or JSON. Samples live in two `le_mem` pools:

- `NonStringDataSamplePool` holds triggers, Booleans and numbers.
- `StringBasedDataSamplePool` holds strings and JSON. The text is a second block, from the `StringPool`.

The destructor `StringSampleDestructor` releases the string block when the last reference to the sample is released. `le_mem` neither clears a block it hands out nor one it takes back. Every holder of a sample (the resource tree, IPC) takes and drops counts. `ConvertToJson` and `ConvertToString` write a sample's value into a caller's buffer.

**Resource tree (`resTree.c`).**
- **Entries and links.** Entries are `Entry_t` blocks of `EntryPool`. Each entry holds a name, a `parentPtr`, a `childList` and a type (namespace, placeholder, input, output or observation). A `u` union holds either the snapshot flags of a namespace or the `res_Resource_t` of a resource.
- **Reference counts.** The allocation holds one count. Each child holds one count on its parent. The snapshotter holds one count on a deleted ("zombie") namespace until it flushes it.
- **Lookup and creation.** `FindEntry` walks a path through `FindChildEx`; a zombie segment counts as absent. `CreateEntry` creates the missing segments and resurrects zombies. If an allocation fails, it rolls back the chain it created.
- **Promotion.** `GetResource` promotes a namespace to a placeholder through `CreatePlaceholderForNamespace`. That function first materialises `/obs` with `GetObsNamespace` so it can apply the observation routing rule.
- **Type changes.** `CreateInput`, `CreateOutput` and `GetObservation` change the placeholder's type. `DeleteIO` and `DeleteObservation` turn an entry back into a namespace, record the deletion for the snapshotter, and release the entry.
- **Snapshot flags.** The flag setters implement the snapshot protocol on the NEW, RELEVANT, CLEAR_NEW and DELETED flags. `GetPath` renders an entry's path recursively.

Everything runs on the Data Hub's single event loop, so API calls never interleave. The models still take each loop of a call one iteration per step, with the call's locals in a frame. This matters for the `CreateEntry` walk, its rollback, and the `le_mem_Release` → `EntryDestructor` cascade up the tree. As a result, crashes inside a call (`LE_ASSERT`, `LE_FATAL`) and partial failures happen at the statement where the code has them.

## Modules

| Module | Models | Notes |
|---|---|---|
| `ResTree` | the tree, every tree-mutating API call | state: `live` (allocated blocks), `parent`, `name`, `children` (childList in order), `type`, `flags`, `res` (the class of `u.resourcePtr`), `ref` (le_mem count), `fatal`, `pc`, `call` (locals of the call in progress) |
| `ResTreeProofs` | TLAPS proof of `TypeOK` for `ResTree` | |
| `ResTreeSafety` | TLAPS proofs of `ZombieFlags` and `TypeTransitions` for `ResTree` | |
| `ResTreeLinks` | TLAPS proof of `TreeLinked` for `ResTree` | lemmas on `le_dls_Remove` and `le_dls_Queue` |
| `ResTreeCounts` | TLAPS proof of `RefCountExact` for `ResTree` | the counts owed by a call in progress |
| `ResTreeRefinement` | TLAPS proofs of `SiblingNamesUnique` and of `ImplementsEntries` | the refinement mapping `entBar` |
| `ResTreeEntries` | the abstract entry life cycle the tree promises | one variable `ent`: per pool block, free or `[type, parent, name]` |
| `ResTreePath` | `resTree_GetPath` with a top-down reference path, and `ForEachResourceUnder` | RECURSIVE, TLC only |
| `DataSample` | sample pools, creates, `ExtractJson` outcomes, `SetTimestamp`, `AddRef`, `Release` + destructor | `kind` is a ghost: the type the creator used, which callers pass back |
| `DataSampleProofs` | TLAPS proofs of `TypeOK` and `StringOwnership` | |
| `SampleValues` | what a sample's holders see (spec section 2): type, timestamp, payload, count of holders | one variable `smp`: per sample block, free or a record; only the timestamp and the count change |
| `DataSampleRefinement` | TLAPS proof of `ImplementsSamples` | the mapping `SampleOf`: the getters' view of a block, with a string's payload being the text of its `StringPool` block |
| `DataSampleConvert` | `ConvertToJson`, `ConvertToString`, `GetString` | uses TLC's `ToString` for `%lf` |
| `MC*` | the instances TLC checks | |

**How the ResTree actions correspond to the code.** `GetEntry`, `GetResource`, `DeleteIO`, `DeleteObservation`, the three flag setters and `FlushDeletion` start a call from the idle state. The code's loops and nested calls are then separate actions:

- `CreateEntryStep` is one path segment of `CreateEntry`.
- `CreateEntryCleanup` is one iteration of the `cleanup:` do-while.
- `ObsNamespaceStep` is `GetObsNamespace`.
- `PromoteStep` is `CreatePlaceholderForNamespace` and the end of `GetResource`.
- `ConvertStep` is the rest of `CreateInput`, `CreateOutput` or `GetObservation`.
- `ReleaseStep` is one `le_mem_Release`. The last count runs `EntryDestructor`, which releases the parent in the next step.

Every `LE_ASSERT` and `LE_FATAL` on these paths sets `fatal`, after which the process does nothing (`Halted`).

For a namespace, `flags` is `u.flags`. For any other entry, `flags` is the flags the `res_*` object keeps; the setters forward to it. When a resource is created its flags are NEW.

**What comes from the spec.** Two pieces of code are not under `src/` and are modelled from the spec:

- The snapshotter (`snapshot_RecordNodeDeletion` and the flush). Recording a deletion keeps a DELETED zombie with one extra count unless NEW is set.
- `le_utf8_Copy` succeeds when the string and its NUL fit.

`json_Extract` and the path syntax check are also not in the repository. `ExtractJson` is modelled by the outcomes it can have. Malformed paths are never passed; they return `LE_BAD_PARAMETER` before touching the tree.

**The abstract life cycle.** `ResTreeEntries` says what an entry's life may be, with no counts, flags or call steps:
- `Create`: a free block becomes a namespace under a live parent, with a name no allocated sibling has.
- `Retype`: a type changes along one arrow of the state machine of spec §4.3.
- `Delete`: a namespace that is not the root and has no allocated child is freed.

A name and a parent never change. `ResTree` maps onto it through `EntryOf`: an allocated block's entry is its `type`, `parentPtr` and `name`. The property `ImplementsEntries` is `Life!Spec`. Every step of every call must then be one of these steps or leave the mapped state alone. That covers each CreateEntry segment, each cleanup iteration, the promotion and each release of the cascade. The sibling name rule is stronger than spec §2: the spec allows a zombie to shadow a new entry of the same name, but `CreateEntry` looks names up with `FindChildEx(.., true)`, which sees zombies. So the code never makes two siblings with one name.

## Runs

| Run | Checks | Result |
|---|---|---|
| `restree_main` | `TypeOK`, `RefCountExact` (between calls every live entry's count is its children plus one, free blocks have 0), `TreeLinked` (parent links and child lists agree, each entry is in its parent's list once), `ZombieFlags` (DELETED only on a namespace without NEW), `SiblingNamesUnique` (no two entries of a child list, zombies included, have one name), `ResourceFoundAtPath` (`FindEntry` of a resource's path returns it when no entry on the way up from it is a zombie; spec §4.3 has find treat zombies as absent, so a zombie may hide what is below it), `TypeTransitions` (types move only along the state machine of spec §4.3), `ImplementsEntries` (the refinement above) | pass, 1.3M states |
| `restree_live` | `CallsComplete`: every call that has started returns, or aborts, under `FairSpec` | pass, 1.3M states |
| `restree_path` | `GetPathCorrect` (for every base, entry and buffer size 1..9, `GetPath` writes the reference path and returns its length, or Overflow or NotFound), `FindThenPath` (a path `FindEntry` resolves is what `GetPath` writes back), `ForEachResourceComplete` (started between calls with a callback that leaves the tree alone, the walk calls back every allocated resource exactly once, those below zombies included, and nothing else) | pass |
| `datasample_main` | `TypeOK` (includes: allocated iff count > 0), `StringOwnership` (each allocated string sample owns one allocated string block, no block shared or leaked), `ImplementsSamples` (`DataSample` implements `SampleValues` under `SampleOf`) | pass, 44k states |
| `datasample_convert` | `ConversionsCorrect` (for sizes 1..10 the JSON and printable forms, or Overflow, and no write past the buffer) | pass |
| `restree_no_fatal` | `NoFatal` | violation: `GetResource` on a full pool aborts in `GetObsNamespace` (resTree.c:514) |
| `restree_iteration` | `ChildIterationComplete` | violation: `GetNextSibling` stops at a zombie sibling |
| `restree_create_resurrects` | `CreateResurrects` | violation: an Input is created at `/obs` and deleted, and is kept as a zombie; `GetEntry("obs")` then reaches the LE_FATAL_IF at resTree.c:360, because `FindChildEx` returns the zombie for the last segment |
| `restree_tombstone` | `NoTombstoneForNew` | violation: `DeleteIO` zeroes `u.flags` before recording the deletion, so a never-snapshotted resource leaves a tombstone |

The four violations disagree with spec §3, §4.3, §4.4 and §7. They are listed as findings in `PROJECT.json`.

**Bounds.** ResTree uses:
- a pool of 3 entries: the root and two more. This is enough to fill the pool, nest one entry under another, make two siblings, and make a zombie with a live child;
- the names `a` and `obs`, so the observation routing rule and a zombie `obs` both occur;
- paths of at most 2 segments, so `CreateEntry` and its rollback run over more than one segment.

DataSample uses:
- one non-string block;
- two string-based blocks and two string blocks, so blocks are reused with stale contents and a `StrDup` can fail while another sample holds a string;
- at most 2 counts per sample.

The liveness run `restree_live` uses the same pool, names and depth. It has no symmetry, because TLC's liveness check is not sound under symmetry. Its view drops RELEVANT and the resource class `res`. Neither is read by the property, by the fairness condition or by any guard, and no call step depends on them. With both names, `CreateEntry` can run out of blocks after it has made an entry, so the cleanup loop runs. With one name it never can.

**Symmetry and VIEW.**
- The non-root entry blocks are interchangeable, and so are the string-based sample blocks and the string blocks. Nothing chooses among them except the pool, which may hand out any free block.
- `MCView` drops RELEVANT. No guard, assignment or checked property reads it; only `resTree_IsRelevant` does.

**Mutants.** Each property of a passing run is shown to catch a plausible bug in the code it is about. The bugs used are:
- an off-by-one in the last-segment test;
- `AddChild` not counting the parent;
- a destructor that does not unlink;
- a resurrection that ORs in NEW;
- promotion of a non-namespace;
- a copy without room for the NUL;
- a lookup from the root;
- a release that frees one count early;
- a failed `StrDup` that frees a stale string;
- a quote test without room for the closing quote;
- a lookup with `FindChild` (skipping zombies) in `CreateEntry`;
- a cleanup loop that never stops at `firstNewEntry`.

**Fairness.** `FairSpec` is `Spec /\ WF_vars(CallStep)`. `CallStep` is the disjunction of the steps of a call already in progress: `CreateEntryStep`, `CreateEntryCleanup`, `ObsNamespaceStep`, `PromoteStep`, `ConvertStep` and `ReleaseStep`. The code justifies exactly this. The Data Hub's event loop runs a call to its end without waiting on anything, so once a call has started its next statement is always taken. No fairness is assumed for starting calls: clients may stop calling at any time. `CallsComplete` is only model-checked.

## Proofs

Run `tlapm` on each proofs module. Everything is proved for every value of the constants allowed by the named assumptions, such as `EntriesAssumption`, `NamesAssumption`, `DepthAssumption`, `NoneAssumption`, `SlotsAssumption`, `TimesAssumption` and `MaxRefAssumption`. Both `ResTree` and `DataSample` state a `NoneAssumption`: NULL is not an entry record, and not a sample record. Each refinement mapping needs it, because it writes a free block as None.

- **`ResTreeProofs!TypeCorrect`: `Spec => []TypeOK`.** `TypeOK` is inductive by itself. Its frame conjuncts were chosen for that: the segment index stays within the path, and statements that use an entry have one. There is one lemma per action. `CreateEntryStep`, `PromoteStep` and `ReleaseStep` split by case. They rest on lemmas about the helpers: `ChildEx` and `FindEntry` return an entry or None, `Remove` keeps a sequence of entries, and `IdleFrame` and the frames actions build lie in `Frames`.
- **`DataSampleProofs!TypeCorrect` and `StringsOwned`.** `StringOwnership` is not inductive alone, because a create must know that a free sample owns no string. The inductive invariant is `TypeOK /\ StringOwnership`. It needs `TypeOK`'s conjunct "allocated iff count > 0" for `Release`. It is proved preserved by every action: creates with and without a successful `StrDup`, `ExtractJson`, `SetTimestamp`, `AddRef` and `Release`.

- **`ResTreeSafety!ZombiesFlagged`: `Spec => []ZombieFlags`.** `TypeOK /\ ZombieFlags` is inductive. One lemma per action shows that a step changes the flags or the type of at most one entry, and that this entry still satisfies the invariant. `OneEntryZombie` is the frame lemma they all cite. Resurrection and `AddChild` assign flags `{NEW}` with no DELETED. `PromoteStep` assigns `{NEW}`. Deletion makes a namespace whose flags are `TombstoneFlags({})`. The setters never add DELETED or NEW. The destructor only frees.

- **`ResTreeSafety!TypesFollowArrows`: `Spec => TypeTransitions`.** `TypeOK /\ PromoteNs` is inductive. `PromoteNs` says that between `GetResource`'s type test and the placeholder, the entry is still a namespace. Every step then changes a type only along an arrow (`TypeArrowStep`).
- **`ResTreeLinks!TreeStaysLinked`: `Spec => []TreeLinked`.** `TreeLinked` is not inductive by itself. The strengthening `LinkInv` adds three facts:
  - a free block has count 0 and no children, so `AddChild` can link it and the destructor runs only on allocated blocks;
  - every list is free of repeats;
  - `CreateEntry`'s `currentEntry` is allocated.

  The lemmas `RemoveFacts` and `AppendFacts` describe `le_dls_Remove` and `le_dls_Queue` on a list without repeats.
- **`ResTreeCounts!CountsExactBetweenCalls`: `Spec => []RefCountExact`.** Inside a call, counts are off by what the call still owes. The strengthening `CountInv` states that:
  - every entry's count is exact, except the one a `le_mem_Release` in flight is releasing, which is one higher (`Owes`). The exception is a count-1 childless namespace, which the release will free;
  - the leaf `GetResource` created is a childless namespace until it is promoted or released;
  - the entries `CreateEntry` has made since `firstNewEntry` form a chain of single-child namespaces, from `firstNewEntry` down to `currentEntry` (`Chain`, `ChainTo`). This holds during the walk, at each cleanup iteration and during each release of the cleanup.

  Without the chain, the cleanup's releases could not be shown to free exactly the entries the call made. The chain lemmas (`ChainDistinct`, `ChainExtend`, `ChainShrink`, `ChainFrame`) are stated once and cited. `TLC` checked `TypeOK /\ LinkInv /\ CountInv` on 3 entries with paths of up to 3 segments (2.5M states) before the proof.
- **`ResTreeRefinement!SiblingNamesStayUnique`: `Spec => []SiblingNamesUnique`.** The invariant `NamesInv` holds for every block's list. It is inductive together with `TypeOK` and `LinkInv`:
  - `AddChild` runs only when `FindChildEx` found no child of that name. Because it returns the first match, that means no child has the name (`ChildExNoneNoName`);
  - `le_dls_Remove` keeps names distinct (`RemoveNamesDistinct`);
  - the block `AddChild` takes and the block the destructor frees are in no other list.
- **`ResTreeRefinement!RefinesEntries`: `Spec => ImplementsEntries`.** The mapping `entBar` sends each block to `EntryOf`. The invariant used is `TypeOK /\ LinkInv /\ CountInv /\ NamesInv /\ PromoteNs`. Step by step:
  - `Init` maps to `Life!Init`;
  - `AddChild` is `Create`: the parent is allocated (`WalkLive`), and no allocated child of it has the name (`ParentsList`, `NamesInv`);
  - the type changes of `PromoteStep`, `ConvertStep`, `DeleteIO` and `DeleteObservation` are `Retype` (`TypeArrowStep`), or a stutter when the type is unchanged;
  - the destructor is `Delete`: the block is allocated (`FreeBlocks`), is not the root (it has a parent), has no allocated child (`ParentsList`), and is a namespace. The last fact comes from `Owes`: a count of 1 can be owed only by a childless namespace;
  - every other step leaves `entBar` unchanged.
- **`DataSampleRefinement!SamplesImplemented`: `Spec => ImplementsSamples`.** The mapping sends each sample block to `SampleOf`: None when free, else its type, timestamp, count and `Payload`, which is what the getter reads. For a string or JSON sample that is the text of the `StringPool` block its `stringPtr` points at. The invariant used is `TypeOK /\ StringOwnership /\ KindsMatch`. `KindsMatch` says that a live string or JSON sample lies in `StringBasedDataSamplePool`, and that a live Boolean or numeric sample holds the union member of its type. The first fact makes `StringOwnership` cover every string the getters read. The second makes a live sample's record a `SampleValues` record and not NULL (`HeldRecord`). TLC checked `KindsMatch` on the `datasample_main` instance before the proof. Step by step:
  - `Init` maps to `Init`: no block is allocated;
  - a successful create is `Create` (`CreateStep`), with the timestamp `CreateSample` stamped. For a string, `StrDup` writes a free `StringPool` block. No live string owns that block (`StringOwnership`), so no other sample's payload changes;
  - a failed `StrDup` writes the `stringPtr` of a block that is not live, and an exhausted pool changes nothing: both stutter (`SampleFrame`, `StutterStep`);
  - `SetTimestamp` is `Retime`, `AddRef` is `Hold`, and `Release` is `Drop`. The destructor frees the string but does not change any text a holder reads.

  `SampleValues`' `Drop` writes `smp[s]` where `@` would do. tlapm 1.4.5 expands an `@` nested in an inner `EXCEPT` wrongly, to `smp[s].holders.holders`.

**Only model-checked.**
- `ForEachResourceComplete`, `GetPathCorrect`, `FindThenPath` and `ConversionsCorrect` are not proved. `ResTreePath` and `DataSampleConvert` use RECURSIVE operators (`GetPath`, `Joined`, the walk) and TLC's `ToString`, and what a recursive definition computes for every input is an induction over data that the installed provers cannot do.
- `CallsComplete` is a liveness property under fairness, which is beyond TLAPS here.
- The violations are shown by TLC traces.

## Not modelled

- **The `res_*` facade forwarders:** limits, defaults, overrides, buffers, JSON example and extraction, push, source, destination and queries. They are a type test and a call into `resource.c`, which is not in the repository, and they change no tree state.
- **The callbacks of `ForEachResource`:** they belong to other components. The walk itself is modelled, between calls.
- **The getters `GetEntryName`, `GetUnits` and the like:** they are pure reads.
