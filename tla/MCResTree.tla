----------------------------- MODULE MCResTree -----------------------------
(***************************************************************************)
(* Model-checking instance of ResTree: an entry pool of three blocks (the  *)
(* root and two more), the names "a" and "obs", and paths of   *)
(* at most two segments.                                                   *)
(***************************************************************************)
EXTENDS ResTree, TLC

CONSTANTS e1, e2, e3, null

MCEntries == {e1, e2, e3}
MCNames == {"a", "obs"}

(* The blocks other than the root are interchangeable: the pool hands out  *)
(* any free one.                                                           *)
MCSymmetry == Permutations({e2, e3})

(* The RELEVANT flag is only read by the snapshotter (resTree_IsRelevant): *)
(* no guard or assignment of the tree and no property checked here reads   *)
(* it, so states that differ only in it have the same futures.  TLC keeps  *)
(* one state per class.                                                    *)
MCView == <<live, parent, name, children, type,
            [e \in Entries |-> flags[e] \ {"RELEVANT"}], res, ref, fatal, pc, call>>

=============================================================================
