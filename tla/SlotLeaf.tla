------------------------------ MODULE SlotLeaf ------------------------------
(***************************************************************************)
(* A leaf of the slot-only wB+tree at the size the code has (7 entries, 3  *)
(* moved by a split), on its own: keys come and go in every order until    *)
(* the leaf is full and the next insert splits it.  What a deleted entry   *)
(* leaves behind in the entry array stays there, as in the code.           *)
(***************************************************************************)
EXTENDS SlotNode

CONSTANTS Keys, MaxDeletes

\* unsigned long
ASSUME KeysAssumption == Keys \subseteq Nat

VARIABLES leaf,    \* the node
          right,   \* the node a split made, or an empty one
          keys,    \* the keys that were inserted and not deleted
          deletes  \* deletions so far, at most MaxDeletes
vars == <<leaf, right, keys, deletes>>

Init == leaf = EmptyNode /\ right = EmptyNode /\ keys = {} /\ deletes = 0

Insert(k) == /\ right = EmptyNode /\ k \notin keys
             /\ IF Count(leaf) = NODE_SIZE
                  THEN /\ leaf' = Split(leaf, k, k).left
                       /\ right' = Split(leaf, k, k).right
                  ELSE /\ leaf' = Inserted(leaf, k, k)
                       /\ UNCHANGED right
             /\ keys' = keys \cup {k}
             /\ UNCHANGED deletes

Delete(k) == /\ right = EmptyNode /\ k \in keys /\ deletes < MaxDeletes
             /\ leaf' = Deleted(leaf, k)
             /\ keys' = keys \ {k}
             /\ deletes' = deletes + 1
             /\ UNCHANGED right

Next == \E k \in Keys : Insert(k) \/ Delete(k)
Spec == Init /\ [][Next]_vars

\* Inserting, deleting and splitting keep both nodes searchable.
NodesWellFormed == WellFormed(leaf) /\ WellFormed(right)

\* No entry is lost, duplicated or left under another key: the two nodes hold
\* the keys inserted and not deleted, each with its own pointer, parted at the
\* first key of the right one.
EntriesKept ==
  /\ Stored(leaf) \cup Stored(right) = {[key |-> k, ptr |-> k] : k \in keys}
  /\ \A a \in Stored(leaf), b \in Stored(right) : a.key < Key(right, 1) /\ Key(right, 1) <= b.key
=============================================================================
