--------------------------- MODULE MCDataSample ---------------------------
(***************************************************************************)
(* Model-checking instance of DataSample: one non-string sample block, two *)
(* string-based ones and two string blocks, so that blocks are reused and  *)
(* a StrDup can fail with a string block in use by the other sample.       *)
(***************************************************************************)
EXTENDS DataSample, TLC

CONSTANTS n1, s1, s2, b1, b2, null, now

MCNonStringSlots == {n1}
MCStringSlots == {s1, s2}
MCStrBlocks == {b1, b2}
MCTexts == {"", "hi"}
MCNumbers == {0, 25}
MCTimes == {1, 2}

(* The string-based blocks are interchangeable, and so are the string      *)
(* blocks.                                                                 *)
MCSymmetry == Permutations(MCStringSlots) \cup Permutations(MCStrBlocks)

=============================================================================
