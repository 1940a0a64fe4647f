----------------------------- MODULE ResTreePath -----------------------------
(***************************************************************************)
(* resTree_GetPath (src/components/dataHub/resTree.c): the path of an      *)
(* entry relative to a base namespace, written into a caller's buffer of   *)
(* a given size.  The function recurses up the parentPtr links and writes  *)
(* the names and '/' separators as it unwinds, each piece with le_utf8_Copy *)
(* into what is left of the buffer.                                        *)
(*                                                                         *)
(* The operators here read the tree of ResTree; the invariants check them  *)
(* on every tree the API calls of ResTree can build.  GetPath is RECURSIVE *)
(* as the C function is, so this module is only model-checked.             *)
(***************************************************************************)
EXTENDS ResTree

LOCAL SX == INSTANCE SequencesExt

CONSTANT BufSizes   \* the buffer sizes callers pass (stringBuffSize > 0)

ASSUME BufSizesAssumption == BufSizes \subseteq Nat \ {0}

(* What a GetPath call leaves: its result (the byte count when code is     *)
(* "OK", else LE_OVERFLOW, LE_NOT_FOUND, or an LE_ASSERT that aborts) and *)
(* the NUL-terminated string in the buffer.                                *)
Empty == [code |-> "OK", n |-> 0, out |-> ""]

\* Mutant: the copy also accepts a string that leaves no room for the NUL.
Utf8FitsNoNul(src, size) == Len(src) <= size

(* le_utf8_Copy(dest, src, size, &len) succeeds when src and its NUL fit   *)
(* in size bytes; otherwise it truncates and returns LE_OVERFLOW.          *)
Utf8Fits(src, size) == Len(src) < size

(* One le_utf8_Copy of s at stringBuffPtr after the r.n bytes already      *)
(* written, into the stringBuffSize - r.n bytes left; a failure of the     *)
(* copy or of an earlier step is returned as it is.                        *)
CopyAt(r, s, size) ==
    IF r.code # "OK" THEN r
    ELSE IF ~Utf8Fits(s, size - r.n) THEN [r EXCEPT !.code = "OVERFLOW"]
    ELSE [code |-> "OK", n |-> r.n + Len(s), out |-> r.out \o s]

(* resTree_GetPath(buf, size, base, e).                                    *)
RECURSIVE GetPath(_, _, _)
GetPath(size, base, e) ==
    IF e = base
      THEN IF size > 0 THEN Empty ELSE [Empty EXCEPT !.code = "FAULT"]
    ELSE IF parent[e] = base
      THEN CopyAt(IF base = Root THEN CopyAt(Empty, "/", size) ELSE Empty,
                  name[e], size)
    ELSE IF e = Root
      THEN [Empty EXCEPT !.code = "NOT_FOUND"]
    ELSE CopyAt(CopyAt(GetPath(size, base, parent[e]), "/", size), name[e], size)

-----------------------------------------------------------------------------
(* ForEachResourceUnder(e, func): the resources, in the order func is      *)
(* called on them.  For each child in childList order, func is called on   *)
(* it when it is not a namespace and has a resource, and then the walk     *)
(* recurses into it; zombies are not skipped.  The C recursion has no      *)
(* bound; `depth` only stops the evaluation on a tree that had a cycle,    *)
(* which it reports as a visit of None.                                    *)
RECURSIVE ForEachResourceUnder(_, _)
ForEachResourceUnder(e, depth) ==
    IF depth = 0 THEN <<None>>
    ELSE SX!FlattenSeq([j \in DOMAIN children[e] |->
             LET c == children[e][j]
             IN  (IF IsResource(c) THEN <<c>> ELSE << >>)
                 \o ForEachResourceUnder(c, depth - 1)])

(* resTree_ForEachResource: the walk from the root.                        *)
ForEachResource == ForEachResourceUnder(Root, Cardinality(Entries))

-----------------------------------------------------------------------------
(* The reference: the path spelled from the top down.                      *)

(* w[1..k] is the chain of entries from a child of base down to e.         *)
IsChainBelow(base, e, w, k) ==
    /\ parent[w[1]] = base
    /\ \A j \in 2..k : parent[w[j]] = w[j - 1]
    /\ w[k] = e

(* The names of ns joined with '/'.                                        *)
RECURSIVE Joined(_)
Joined(ns) ==
    IF Len(ns) <= 1 THEN IF ns = << >> THEN "" ELSE Head(ns)
    ELSE Head(ns) \o "/" \o Joined(Tail(ns))

(* The path of e below base, "/"-prefixed when base is the root, or None  *)
(* when e is not in base's subtree.                                        *)
RefPath(base, e) ==
    LET Depths == {k \in 1..Cardinality(Entries) :
                       \E w \in [1..k -> Entries] : IsChainBelow(base, e, w, k)}
        k == CHOOSE k \in Depths : TRUE
        w == CHOOSE w \in [1..k -> Entries] : IsChainBelow(base, e, w, k)
    IN  IF e = base THEN ""
        ELSE IF Depths = {} THEN None
        ELSE (IF base = Root THEN "/" ELSE "") \o Joined([j \in 1..k |-> name[w[j]]])

-----------------------------------------------------------------------------
(* Properties, checked between API calls.                                  *)

(* Spec section 4.3: path_of(e, base) writes the path of e relative to     *)
(* base and returns its length when the path and its NUL fit, reports      *)
(* Overflow when they do not, and NotFound when e is outside base's       *)
(* subtree; the recursion's running byte count and remaining size must    *)
(* stay in step for every buffer size.                                     *)
GetPathCorrect ==
    (pc = "idle" /\ ~fatal) =>
        \A base, e \in live : \A size \in BufSizes :
            LET want == RefPath(base, e)
                got == GetPath(size, base, e)
            IN  IF want = None THEN got.code = "NOT_FOUND"
                ELSE IF Len(want) < size
                  THEN got = [code |-> "OK", n |-> Len(want), out |-> want]
                ELSE got.code = "OVERFLOW"

(* Spec section 8: if find(root, p) = e then path_of(e, root) = p: what    *)
(* FindEntry returns for a path is the entry GetPath spells with that     *)
(* path, through zombies, resurrections and deletions.                     *)
FindThenPath ==
    (pc = "idle" /\ ~fatal) =>
        \A k \in 1..MaxDepth : \A segs \in [1..k -> Names] : \A size \in BufSizes :
            LET e == FindEntry(segs)
                p == "/" \o Joined(segs)
            IN  (e # None /\ Len(p) < size) =>
                    GetPath(size, Root, e) = [code |-> "OK", n |-> Len(p), out |-> p]

(* resTree_ForEachResource, started between calls with a callback that    *)
(* leaves the tree alone, calls func once on every live resource of the   *)
(* tree and on nothing else: resources below zombies and placeholders are *)
(* reached, and no freed block left in a childList is called back.  A     *)
(* callback that changes the tree during the walk is not covered.         *)
ForEachResourceComplete ==
    (pc = "idle" /\ ~fatal) =>
        LET w == ForEachResource
        IN  /\ \A i, j \in DOMAIN w : w[i] = w[j] => i = j
            /\ {w[i] : i \in DOMAIN w} = {e \in live : IsResource(e)}

=============================================================================
