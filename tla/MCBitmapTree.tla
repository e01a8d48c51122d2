---------------------------- MODULE MCBitmapTree ----------------------------
(* Instances of BitmapTree for TLC: two entries to a node, so that five keys  *)
(* make trees of three levels and a slot array is three words, of which any   *)
(* subset can be on the medium.                                               *)
EXTENDS BitmapTree

\* As the drivers do, a key is inserted with its own address for its value.
MCInserts == {<<k, k>> : k \in Keys}

\* An update gives it another one; one key stands for all.
MCUpdates == {3} \X (Values \ Keys)
=============================================================================
