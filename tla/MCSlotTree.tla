----------------------------- MODULE MCSlotTree -----------------------------
(* Instances of SlotTree for TLC.  Nodes hold two entries and a split moves  *)
(* one: three keys split a leaf, five can split its parent.  (SlotLeaf has   *)
(* nodes of the size the code gives them.)                                   *)
EXTENDS SlotTree

\* As the drivers do, a key is inserted with its own address for its value.
MCInserts == {<<k, k>> : k \in Keys}

\* An update gives it another one; one key stands for all.
MCUpdates == {3} \X (Values \ Keys)
=============================================================================
