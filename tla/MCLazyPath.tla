----------------------------- MODULE MCLazyPath -----------------------------
(* Instances of LazyPathTree for TLC: keys of four digits.                    *)
EXTENDS LazyPathTree

\* As the drivers do, a key is inserted with its own address for its value.
MCInserts == {<<k, k>> : k \in Keys}

\* An update gives it another one; one key stands for all.
MCUpdates == {1} \X (Values \ Keys)
=============================================================================
