---------------------------- MODULE MCRadixTree ----------------------------
(* Instances of RadixTree for TLC: one key bit per node, three-bit keys.    *)
EXTENDS RadixRange, TLC

\* 2 makes the one-node tree grow by one level, 5 and 6 by one or by two; 5
\* and 6 part at the middle level.
MCKeys == {2, 5, 6}
=============================================================================
