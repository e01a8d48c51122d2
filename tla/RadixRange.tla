----------------------------- MODULE RadixRange -----------------------------
(***************************************************************************)
(* Range_Lookup of the radix tree: a scan that leaves a leaf through its    *)
(* parent pointer and p_index, climbs to the first ancestor with a child   *)
(* further right and descends to that child's first leaf.  It depends on   *)
(* header words that insertion writes only once and that growth rewrites   *)
(* in a live root.                                                         *)
(***************************************************************************)
EXTENDS RadixTree, FiniteSetsExt

Entries(c, n) == {i \in 0 .. NUM_ENTRY - 1 : c[n][i] # NULL}

\* The leftmost leaf below node n of the given height.
search_to_next_leaf(c, n, height) ==
  LET first[m \in Nodes, h \in 1 .. MaxHeight] ==
        IF h = 1 THEN m ELSE first[c[m][Min(Entries(c, m))], h - 1]
  IN  first[n, height]

\* The leaf that follows entry index of parent, a node of the given height.
find_next_leaf(c, s, parent, index, height) ==
  LET next[n \in Nodes, i \in 0 .. NUM_ENTRY - 1, h \in 1 .. MaxHeight] ==
        LET right == {j \in Entries(c, n) : j > i} IN
        IF right # {} THEN search_to_next_leaf(c, c[n][Min(right)], h - 1)
        ELSE IF Height(c, s) > h
             THEN next[c[n][PARENT_PTR], c[n][P_INDEX], h + 1]
             ELSE NULL
  IN  next[parent, index, height]

\* The values buf receives: leaf by leaf from start, until num are found or
\* there is no next leaf.
Range_Lookup(c, s, start, num) ==
  LET In(leaf, from) ==
        LET present == {i \in Entries(c, leaf) : i >= from}
            nth(k) == CHOOSE i \in present : Cardinality({j \in present : j < i}) = k - 1
        IN  [k \in 1 .. Cardinality(present) |-> c[leaf][nth(k)]]
      scan[leaf \in Nodes, from \in 0 .. NUM_ENTRY - 1, need \in 1 .. num] ==
        LET found == In(leaf, from) IN
        IF Len(found) >= need THEN SubSeq(found, 1, need)
        ELSE LET next == find_next_leaf(c, s, c[leaf][PARENT_PTR], c[leaf][P_INDEX], 2)
             IN  IF next = NULL THEN found
                 ELSE found \o scan[next, 0, need - Len(found)]
  IN  scan[Leaf(c, s, start), Index(start % Span(1), 1), num]

-----------------------------------------------------------------------------
\* The scan returns the values of the num smallest keys from start on, in key
\* order, whatever growths, deletions and power losses the tree went through:
\* emptied leaves are passed over and stale parent pointers never followed.
\* (The driver starts at a key it inserted and asks for no more than there are.)
RangeInOrder ==
  pc = "idle" =>
    LET c == mem.cache
        map == Content(c, t) IN
    \A start \in Keys :
      start < Span(Height(c, t)) /\ Leaf(c, t, start) # NULL =>
        LET hits == {k \in Keys : k >= start /\ map[k] # NULL} IN
        \A num \in 1 .. Cardinality(hits) :
          LET got == Range_Lookup(c, t, start, num) IN
          /\ Len(got) = num
          /\ \A i \in 1 .. num :
               got[i] = map[CHOOSE k \in hits : Cardinality({j \in hits : j < k}) = i - 1]
=============================================================================
