--------------------------- MODULE MCResTreePath ---------------------------
(***************************************************************************)
(* resTree_GetPath on the trees of the MCResTree instance, with every      *)
(* buffer size from 1 to one more than the longest path, "/obs/obs".       *)
(***************************************************************************)
EXTENDS ResTreePath, TLC

CONSTANTS e1, e2, e3, null

MCEntries == {e1, e2, e3}
MCNames == {"a", "obs"}
MCBufSizes == 1..9

(* The blocks other than the root are interchangeable.                     *)
MCSymmetry == Permutations({e2, e3})

(* RELEVANT is read by no guard, assignment or property here.              *)
MCView == <<live, parent, name, children, type,
            [e \in Entries |-> flags[e] \ {"RELEVANT"}], res, ref, fatal, pc, call>>

=============================================================================
