------------------------------ MODULE MCFPTree ------------------------------
(* Instances of FPTree for TLC: leaves and inner nodes of two entries, two    *)
(* fingerprints for all keys, so that keys share them.                        *)
EXTENDS FPTree

\* As the drivers do, a key is inserted with its own address for its value.
MCInserts == {<<k, k>> : k \in Keys}

\* An update gives it another one; one key stands for all.
MCUpdates == {3} \X (Values \ Keys)
=============================================================================
