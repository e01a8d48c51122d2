------------------------------- MODULE NVLeaf -------------------------------
(***************************************************************************)
(* The leaf of the NV-tree (NV_tree/Integer/NV-tree.c): a log of entries   *)
(* in the order they were written.  A valid entry adds a key, an invalid   *)
(* one withdraws an earlier valid entry; only a split drops the pairs.     *)
(***************************************************************************)
EXTENDS Integers, SequencesExt

CONSTANT MAX_NUM_ENTRY_LN    \* entries a leaf has room for (169)

ASSUME NVLeafAssumption == MAX_NUM_ENTRY_LN \in Nat \ {0}

\* An entry without its value: a valid one always has one, an invalid one NULL.
Entry(flag, key) == [flag |-> flag, key |-> key]

\* Where the key is found: its first entry decides.  0 stands for the code's -1.
search_leaf_node(elements, key) ==
  LET first == SelectInSeq(elements, LAMBDA e : e.key = key)
  IN  IF first > 0 /\ elements[first].flag THEN first ELSE 0

\* Mutant: an invalid entry drops every valid entry of its key, later ones, too.
valid_Element_AllOfKey(elements) ==
  LET invalid == {e.key : e \in {x \in ToSet(elements) : ~x.flag}}
  IN  SelectSeq(elements, LAMBDA e : e.flag /\ e.key \notin invalid)

\* The entries a split keeps.  The invalid entries are used up in the order
\* they were written: a valid entry is dropped when its key is that of the next
\* invalid entry not used yet, wherever in the log that one is.
valid_Element(elements) ==
  LET invalid == SelectSeq(elements, LAMBDA e : ~e.flag)
      Scan(acc, e) ==
        IF ~e.flag THEN acc
        ELSE IF acc.count < Len(invalid) /\ e.key = invalid[acc.count + 1].key
          THEN [acc EXCEPT !.count = @ + 1]
          ELSE [acc EXCEPT !.kept = Append(@, e)]
  IN  FoldLeft(Scan, [count |-> 0, kept |-> <<>>], elements).kept

\* Sorted by key, entries of equal keys in the order they were.
insertion_sort(elements) ==
  LET Place(sorted, e) == InsertAt(sorted, 1 + Len(SelectSeq(sorted, LAMBDA x : x.key <= e.key)), e)
  IN  FoldLeft(Place, <<>>, elements)

\* What leaf_scan_divide puts into split_node1, and below into split_node2.
LowerHalf(elements) == LET s == insertion_sort(valid_Element(elements)) IN SubSeq(s, 1, Len(s) \div 2)

UpperHalf(elements) == LET s == insertion_sort(valid_Element(elements))
                       IN  SubSeq(s, Len(s) \div 2 + 1, Len(s))

Fits_OneMore(elements, added) == Len(elements) + Len(added) <= MAX_NUM_ENTRY_LN + 1   \* mutant

\* Whether the caller appends to the leaf or splits it first.
Fits(elements, added) == Len(elements) + Len(added) <= MAX_NUM_ENTRY_LN
=============================================================================
