--------------------------- MODULE MCResTreeLive ---------------------------
(***************************************************************************)
(* Liveness instance of ResTree: the pool of three blocks, the names "a"   *)
(* and "obs" and paths of at most two segments, so that CreateEntry runs   *)
(* out of blocks after creating an entry and rolls it back, and releases   *)
(* cascade through two parents.  No symmetry is used.                      *)
(***************************************************************************)
EXTENDS ResTree, TLC

CONSTANTS e1, e2, e3, null

MCEntries == {e1, e2, e3}
MCNames == {"a", "obs"}

(* RELEVANT and the resource class res are read by no guard, no          *)
(* assignment and neither the property nor the fairness condition (no     *)
(* call step depends on them), so states that differ only in them have    *)
(* the same futures.                                                       *)
MCView == <<live, parent, name, children, type,
            [e \in Entries |-> flags[e] \ {"RELEVANT"}], ref, fatal, pc, call>>

=============================================================================
