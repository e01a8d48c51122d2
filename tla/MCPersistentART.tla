--------------------------- MODULE MCPersistentART --------------------------
(* An instance of PersistentART for TLC: layouts of 3, 5, 7 and 16 children,  *)
(* so that nine keys take a node through all of them, with one addition in    *)
(* place in each; NODE48 digits in four groups.                               *)
EXTENDS PersistentART

\* As the drivers do, a key is inserted with its own address for its value.
MCInserts == {<<k, k>> : k \in Keys}

\* An update gives it another one; one key stands for all.
MCUpdates == {4} \X (Values \ Keys)

\* The inputs: all but one key of a node come in this order, that one and the key
\* with another first digit at any time.
Chain(s) == {<<s[i], s[i + 1]>> : i \in 1 .. Len(s) - 1}
MCOrder == Chain(<<4, 9, 1, 14, 6, 11, 2, 7>>)
=============================================================================
