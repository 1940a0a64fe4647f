------------------------- MODULE MCDataSampleConvert -------------------------
(***************************************************************************)
(* The conversions on the samples of the MCDataSample instance, with every *)
(* buffer size up to one more than the longest text, "25.000000".          *)
(***************************************************************************)
EXTENDS DataSampleConvert

CONSTANTS n1, s1, s2, b1, b2, null, now

MCNonStringSlots == {n1}
MCStringSlots == {s1, s2}
MCStrBlocks == {b1, b2}
MCTexts == {"", "hi"}
MCNumbers == {0, 25}
MCTimes == {1, 2}
MCBufSizes == 1..10

(* The string-based blocks are interchangeable, and so are the string      *)
(* blocks.                                                                 *)
MCSymmetry == Permutations(MCStringSlots) \cup Permutations(MCStrBlocks)

=============================================================================
