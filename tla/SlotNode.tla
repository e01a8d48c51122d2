------------------------------ MODULE SlotNode ------------------------------
(***************************************************************************)
(* One node of the slot-only wB+tree (wb+tree/slot_only/wbtree.c): entries *)
(* in the order they arrived and an 8-byte slot word, slot[0] their number *)
(* and slot[1..] their positions in key order.  The operators are the      *)
(* functions of the code on a single node; a node is a record              *)
(*   slot  0 .. NODE_SIZE -> 0 .. NODE_SIZE                                *)
(*   ent   0 .. NODE_SIZE-1 -> [key, ptr]                                  *)
(* Slots past the count are never read; the model keeps them at 0.         *)
(***************************************************************************)
EXTENDS Integers, FiniteSets, FiniteSetsExt

CONSTANTS NODE_SIZE, MIN_LIVE_ENTRIES, NULL

ASSUME NodeAssumption ==
  /\ NODE_SIZE \in Nat /\ MIN_LIVE_ENTRIES \in Nat
  /\ 0 < MIN_LIVE_ENTRIES /\ MIN_LIVE_ENTRIES < NODE_SIZE

Slots   == 0 .. NODE_SIZE
Entries == 0 .. NODE_SIZE - 1

NoEntry   == [key |-> 0, ptr |-> NULL]
EmptyNode == [slot |-> [j \in Slots |-> 0], ent |-> [i \in Entries |-> NoEntry]]

Count(nd)    == nd.slot[0]
Key(nd, j)   == nd.ent[nd.slot[j]].key
Ptr(nd, j)   == nd.ent[nd.slot[j]].ptr
Used(nd)     == {nd.slot[j] : j \in 1 .. Count(nd)}
Stored(nd)   == {nd.ent[i] : i \in Used(nd)}

\* Mutant: the position after the live entries, as if none was ever deleted.
missingMin_Next(nd) == Count(nd)

\* Append and Append_in_inner: the position for a new entry.  checkBit starts
\* with every bit set and each slot flips one: a position named twice counts
\* as free.
missingMin(nd) ==
  Min({i \in Slots : Cardinality({j \in 1 .. Count(nd) : nd.slot[j] = i}) % 2 = 0})

\* The binary search: where key is, or where it would go.
Search(nd, key) ==
  LET go[s \in (1 .. NODE_SIZE + 1) \X Slots \X (1 .. NODE_SIZE)] ==
        LET low == s[1]  high == s[2]  mid == s[3]  m == (low + high) \div 2 IN
        IF low > high THEN IF low > mid THEN low ELSE mid
        ELSE IF Key(nd, m) > key THEN go[<<low, m - 1, m>>]
        ELSE IF Key(nd, m) < key THEN go[<<m + 1, high, m>>]
        ELSE m
  IN  go[<<1, Count(nd), 1>>]

\* The slot word with loc put at mid, as temp[] is filled.
Opened(slot, mid, loc) ==
  [j \in Slots |-> IF j = 0 THEN slot[0] + 1
                   ELSE IF j = mid THEN loc
                   ELSE IF j < mid THEN slot[j] ELSE slot[j - 1]]

\* The slot word with position mid taken out.
Closed(slot, mid) ==
  [j \in Slots |-> IF j = 0 THEN slot[0] - 1
                   ELSE IF j < mid THEN slot[j]
                   ELSE IF j < slot[0] THEN slot[j + 1] ELSE 0]

\* The new entry alone, not yet in the slot word.
Appended(nd, key, ptr) == [nd EXCEPT !.ent[missingMin(nd)] = [key |-> key, ptr |-> ptr]]

\* insert_in_leaf, insert_in_inner and their _noflush forms, without flushes.
Inserted(nd, key, ptr) ==
  [Appended(nd, key, ptr) EXCEPT !.slot = Opened(@, Search(nd, key), missingMin(nd))]

\* delete_in_leaf: removes what Search returns.
Deleted(nd, key) == [nd EXCEPT !.slot = Closed(@, Search(nd, key))]

\* The loop that moves the upper entries to a new node, last one first: slot[j]
\* is filled from the top while the count, and so what Append reads, grows from
\* the bottom.
UpperHalf(nd) ==
  LET moved[j \in 1 .. MIN_LIVE_ENTRIES + 1] ==
        IF j = MIN_LIVE_ENTRIES + 1 THEN EmptyNode
        ELSE LET to  == moved[j + 1]
                 loc == missingMin(to)
                 cp  == Count(nd) - (MIN_LIVE_ENTRIES - j)
             IN  [slot |-> [to.slot EXCEPT ![0] = @ + 1, ![j] = loc],
                  ent  |-> [to.ent EXCEPT ![loc] = nd.ent[nd.slot[cp]]]]
  IN  moved[1]

\* Mutant: one entry too few is taken from the count.
LowerHalf_OneMore(nd) ==
  LET left == Count(nd) - MIN_LIVE_ENTRIES + 1 IN
  [nd EXCEPT !.slot = [j \in Slots |-> IF j = 0 THEN left ELSE IF j <= left THEN @[j] ELSE 0]]

\* slot[0] -= MIN_LIVE_ENTRIES
LowerHalf(nd) ==
  LET left == Count(nd) - MIN_LIVE_ENTRIES IN
  [nd EXCEPT !.slot = [j \in Slots |-> IF j = 0 THEN left ELSE IF j <= left THEN @[j] ELSE 0]]

\* A full node and a new entry, over two nodes.
Split(nd, key, ptr) ==
  LET low == LowerHalf(nd)  up == UpperHalf(nd) IN
  IF Key(up, 1) > key THEN [left |-> Inserted(low, key, ptr), right |-> up]
                      ELSE [left |-> low, right |-> Inserted(up, key, ptr)]

\* The end of Lookup, at the leaf: past the last slot the last one is looked
\* at, and slot[0], the count itself 0, when the leaf is empty.
Lookup(nd, key) ==
  LET loc == Min({Search(nd, key), Count(nd)}) IN
  IF Key(nd, loc) = key THEN Ptr(nd, loc) ELSE NULL

\* Mutant: a separator equal to the key sends the search left.
ChildSlot_Less(nd, key) ==
  LET loc == Search(nd, key) IN
  IF loc <= Count(nd) /\ Key(nd, loc) < key THEN loc ELSE loc - 1

\* The child find_leaf_node descends to; 0 stands for leftmostPtr.
ChildSlot(nd, key) ==
  LET loc == Search(nd, key) IN
  IF loc <= Count(nd) /\ Key(nd, loc) <= key THEN loc ELSE loc - 1

-----------------------------------------------------------------------------
\* What every node must be for Search to work: in key order, each position of
\* a live entry named once.
WellFormed(nd) ==
  /\ Count(nd) <= NODE_SIZE
  /\ Cardinality(Used(nd)) = Count(nd) /\ Used(nd) \subseteq Entries
  /\ \A j \in 1 .. Count(nd) - 1 : Key(nd, j) < Key(nd, j + 1)
=============================================================================
