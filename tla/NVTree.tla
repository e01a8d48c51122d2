------------------------------- MODULE NVTree -------------------------------
(***************************************************************************)
(* The NV-tree (NV_tree/Integer/NV-tree.c).  Above the leaves stand the    *)
(* parent leaf nodes (PLNs), whose entries say which leaf holds the keys   *)
(* up to a bound, and above them the inner nodes (INs).  INs and PLNs are  *)
(* one array: the children of node id are the nodes id * M + 1 onwards, M  *)
(* being MAX_NUM_ENTRY_IN, and the PLNs come last.  A PLN that is full is  *)
(* split by building the whole array anew.                                 *)
(*                                                                         *)
(* The program is sequential and has no recovery, so a call is one action. *)
(***************************************************************************)
EXTENDS NVLeaf, FiniteSets, TLC

CONSTANTS Keys,
          MAX_KEY,             \* above all keys
          MAX_NUM_ENTRY_IN,    \* keys of an IN (509)
          MAX_NUM_ENTRY_PLN,   \* entries of a PLN (255)
          MaxLeaves,           \* bound: leaves alive
          MaxPLNs,             \* bound: PLNs
          MaxChanges           \* bound: updates and deletes

ASSUME NVTreeAssumption ==
  /\ Keys \subseteq Nat \ {0} /\ MAX_KEY \in Nat /\ \A k \in Keys : k < MAX_KEY
  /\ MAX_NUM_ENTRY_IN \in Nat \ {0, 1} /\ MAX_NUM_ENTRY_PLN \in Nat \ {0, 1}
  /\ MaxLeaves \in Nat /\ MaxPLNs \in Nat /\ MaxChanges \in Nat

VARIABLES leaves,     \* the leaves allocated and not freed
          tree,       \* the tree, its array of INs (in) and PLNs (pln) included
          inserted,   \* keys for which Insert returned success
          deleted,    \* keys for which Delete did
          skipped,    \* keys whose Insert returned without storing the key
          changes     \* updates and deletes so far
vars == <<leaves, tree, inserted, deleted, skipped, changes>>

NULL   == 0
Leaves == 1 .. MaxLeaves
NoPLN  == -1     \* parent_id of the leaf that is the whole tree
M      == MAX_NUM_ENTRY_IN

FreeLeaf == CHOOSE n \in Leaves \ DOMAIN leaves : \A m \in Leaves \ DOMAIN leaves : n <= m

Init == /\ leaves = <<>>
        /\ tree = [is_leaf |-> 0, height |-> 0, first_PLN_id |-> 0, last_PLN_id |-> 0,
                   root |-> NULL, first_leaf |-> NULL, pln |-> <<>>, in |-> <<>>]
        /\ inserted = {} /\ deleted = {} /\ skipped = {} /\ changes = 0

-----------------------------------------------------------------------------
(* From a key to its leaf.                                                  *)

\* Index, from 0, at which the search in an ascending array stops.
binary_search(key, keys) ==
  LET from[low \in Nat, high \in Int] ==
        LET mid == (low + high) \div 2
        IN  IF low > high THEN low
            ELSE IF keys[mid + 1] > key THEN from[low, mid - 1]
            ELSE IF keys[mid + 1] < key THEN from[mid + 1, high]
            ELSE mid
  IN  from[0, Len(keys) - 1]

KeysOf(entries) == [i \in DOMAIN entries |-> entries[i].key]

\* A node of the array no key was written to has none: the array is calloc'ed.
\* Beyond its end the model has such nodes, too.
InKeys(t, id)     == IF id \in DOMAIN t.in THEN t.in[id] ELSE <<>>
PLNEntries(t, id) == IF id \in DOMAIN t.pln THEN t.pln[id] ELSE <<>>

find_leaf(t, key) ==
  LET walk[id \in Nat] == IF id >= t.first_PLN_id THEN id
                          ELSE walk[id * M + 1 + binary_search(key, InKeys(t, id))]
      entries == PLNEntries(t, walk[0])
      pos     == binary_search(key, KeysOf(entries))
  IN  IF t.is_leaf = 0 THEN t.root
      ELSE IF pos < Len(entries) THEN entries[pos + 1].ptr
      ELSE NULL

\* Whether Lookup returns a value; without one the code returns nothing defined.
Lookup(key) == LET leaf == find_leaf(tree, key)
               IN  leaf # NULL /\ search_leaf_node(leaves[leaf].elements, key) > 0

RangeOf_Unsorted(elements) == KeysOf(valid_Element(elements))    \* mutant

\* The keys of the entries Range_Lookup returns when nobody stops it: those of the
\* leaf the key leads to, all of them, and of the leaves linked behind it.  Only
\* for logs without invalid entries (the code copies as many entries as the leaf
\* has, of which an invalid one makes the last undefined).
RangeOf(elements) == KeysOf(insertion_sort(valid_Element(elements)))
Range_Lookup(key) ==
  LET from[n \in Nat] == IF n = NULL THEN <<>>
                         ELSE RangeOf(leaves[n].elements) \o from[leaves[n].sibling]
  IN  from[find_leaf(tree, key)]

-----------------------------------------------------------------------------
(* A leaf was split into n1 and n2: its entry in a PLN becomes two.         *)

\* The last key of a half.  Assumption: the leaf keeps two entries at least, one for
\* each half; of an empty half the code reads what stands before its array.
Divisible(elements) == Len(valid_Element(elements)) >= 2
MaxKeyOf(elements)  == Last(elements).key

Position(entries, maxKey) == SelectInSeq(entries, LAMBDA e : maxKey <= e.key)

\* Mutant: the entry of the lower half is written behind that of the upper one.
WithHalves_Swapped(entries, insertKey, maxKey, n1, n2) ==
  LET i == Position(entries, maxKey)
  IN  SubSeq(entries, 1, i - 1)
        \o << [key |-> entries[i].key, ptr |-> n2], [key |-> insertKey, ptr |-> n1] >>
        \o SubSeq(entries, i + 1, Len(entries))

\* The entries with the leaf's entry replaced; there is one whose key is not
\* below the leaf's last key (else the code's index is undefined: TLC would stop).
WithHalves(entries, insertKey, maxKey, n1, n2) ==
  LET i == Position(entries, maxKey)
  IN  SubSeq(entries, 1, i - 1)
        \o << [key |-> insertKey, ptr |-> n1], [key |-> entries[i].key, ptr |-> n2] >>
        \o SubSeq(entries, i + 1, Len(entries))

\* The INs over nodes whose last keys are tops and the first of which is first:
\* M of them share a parent, and so on upwards until the root, node 0, is made.
index[first \in Nat, tops \in Seq(Nat)] ==
  IF first = 0 THEN <<>>
  ELSE LET groups == [g \in 1 .. (Len(tops) + M - 1) \div M |->
                        SubSeq(tops, (g - 1) * M + 1, Min({g * M, Len(tops)}))]
           parent == (first - 1) \div M
       IN  [id \in parent .. parent + Len(groups) - 1 |-> groups[id - parent + 1]]
             @@ index[parent, [g \in DOMAIN groups |-> Last(groups[g])]]

\* Mutant: the first key of each PLN in place of the last.
TopsOf_First(pln, first, last) == [i \in 1 .. last - first + 1 |-> Head(pln[first + i - 1]).key]

\* The last keys of the PLNs.
TopsOf(pln, first, last) == [i \in 1 .. last - first + 1 |-> Last(pln[first + i - 1]).key]

reconstruct_from_PLN(pln, first, last) == index[first, TopsOf(pln, first, last)]

\* Whether one more PLN needs one more level of INs.
Grows(t) == t.is_leaf = 1 \/ t.last_PLN_id - t.first_PLN_id + 2 > M ^ t.height

\* The tree with PLN parent, which is full, in two, and the halves of the leaf
\* entered into one of them.
reconstruct_PLN(t, parent, insertKey, maxKey, n1, n2) ==
  LET height == IF Grows(t) THEN t.height + 1 ELSE t.height
      first  == IF Grows(t) THEN (M + 1) ^ (height - 1) ELSE t.first_PLN_id
      last   == first + t.last_PLN_id - t.first_PLN_id + 1
      lower  == first + parent - t.first_PLN_id
      full   == t.pln[parent]
      half   == Len(full) \div 2
      split  == [id \in first .. last |->
                   IF id = lower THEN SubSeq(full, 1, half)
                   ELSE IF id = lower + 1 THEN SubSeq(full, half + 1, Len(full))
                   ELSE t.pln[(IF id < lower THEN id ELSE id - 1) - first + t.first_PLN_id]]
      into   == IF maxKey > Last(split[lower]).key THEN lower + 1 ELSE lower
      pln    == [split EXCEPT ![into] = WithHalves(@, insertKey, maxKey, n1, n2)]
  IN  [t EXCEPT !.is_leaf = 2, !.height = height, !.first_PLN_id = first, !.last_PLN_id = last,
                !.pln = pln, !.in = reconstruct_from_PLN(pln, first, last)]

insert_to_PLN(t, parent, insertKey, maxKey, n1, n2) ==
  IF Len(t.pln[parent]) = MAX_NUM_ENTRY_PLN
    THEN reconstruct_PLN(t, parent, insertKey, maxKey, n1, n2)
    ELSE [t EXCEPT !.pln[parent] = WithHalves(@, insertKey, maxKey, n1, n2)]

\* The PLN and the place in it that point to leaf n.
PLNOf(t, n)   == CHOOSE id \in DOMAIN t.pln : \E i \in DOMAIN t.pln[id] : t.pln[id][i].ptr = n
PlaceOf(t, n) == SelectInSeq(t.pln[PLNOf(t, n)], LAMBDA e : e.ptr = n)

\* The leaf before leaf n, or NULL when n is the first.
prev_leaf(t, n) == LET id == PLNOf(t, n)
                   IN  IF PlaceOf(t, n) > 1 THEN t.pln[id][PlaceOf(t, n) - 1].ptr
                       ELSE IF id > t.first_PLN_id THEN Last(t.pln[id - 1]).ptr
                       ELSE NULL

Renumbered_HalvesOnly(t, heap, n1, n2) ==    \* mutant: the other leaves keep the old number
  [n \in DOMAIN heap |-> IF n \in {n1, n2} THEN [heap[n] EXCEPT !.parent_id = PLNOf(t, n)] ELSE heap[n]]

\* Which leaves learn the number of their PLN: those of all PLNs if the array was
\* built anew, else the two halves.
Renumbered(t, heap, n1, n2) ==
  LET anew  == DOMAIN t.pln # DOMAIN tree.pln
      which == {n \in DOMAIN heap : anew \/ n \in {n1, n2}}
  IN  [n \in DOMAIN heap |-> IF n \in which THEN [heap[n] EXCEPT !.parent_id = PLNOf(t, n)] ELSE heap[n]]

-----------------------------------------------------------------------------
(* The calls.                                                               *)

create_new_tree(key) ==
  /\ tree.root = NULL /\ tree.is_leaf = 0
  /\ LET n == FreeLeaf
     IN  /\ leaves' = (n :> [parent_id |-> NoPLN, sibling |-> NULL,
                             elements |-> << Entry(TRUE, key) >>])
         /\ tree' = [tree EXCEPT !.root = n, !.first_leaf = n]
  /\ UNCHANGED skipped

Append_to_leaf(leaf, added) ==
  /\ Fits(leaves[leaf].elements, added)
  /\ leaves' = [leaves EXCEPT ![leaf].elements = @ \o added]
  /\ UNCHANGED <<tree, skipped>>

\* The leaf gives way to two new ones, and the call's entries go where the tree now
\* says.  Not so when the leaf was the first: the call returns before it writes
\* them, and lost is what it was to store.
leaf_split(leaf, key, added, lost) ==
  /\ ~Fits(leaves[leaf].elements, added)
  /\ Divisible(leaves[leaf].elements) /\ Cardinality(DOMAIN leaves) + 2 <= MaxLeaves
  /\ Fits(UpperHalf(leaves[leaf].elements), added)   \* half of 169 always has room
  /\ LET n1    == FreeLeaf
         n2    == CHOOSE n \in Leaves \ (DOMAIN leaves \cup {n1}) : TRUE
         low   == LowerHalf(leaves[leaf].elements)
         high  == UpperHalf(leaves[leaf].elements)
         Half(elements, sibling) == [parent_id |-> 0, sibling |-> sibling, elements |-> elements]
         heap  == [n \in (DOMAIN leaves \cup {n1, n2}) \ {leaf} |->
                     IF n = n1 THEN Half(low, n2)
                     ELSE IF n = n2 THEN Half(high, leaves[leaf].sibling)
                     ELSE leaves[n]]
         t     == IF tree.is_leaf = 0
                    THEN [tree EXCEPT !.is_leaf = 1, !.root = NULL,
                                      !.pln = (0 :> << [key |-> MaxKeyOf(low), ptr |-> n1],
                                                       [key |-> MAX_KEY, ptr |-> n2] >>)]
                    ELSE insert_to_PLN(tree, leaves[leaf].parent_id, MaxKeyOf(low), MaxKeyOf(high), n1, n2)
         known == Renumbered(t, heap, n1, n2)
         prev  == prev_leaf(t, n1)
         put   == [known EXCEPT ![find_leaf(t, key)].elements = @ \o added]
     IN  /\ Cardinality(DOMAIN t.pln) <= MaxPLNs
         /\ \/ /\ tree.is_leaf = 0
               /\ leaves' = put /\ tree' = t /\ UNCHANGED skipped
            \/ /\ tree.is_leaf # 0 /\ prev # NULL
               /\ leaves' = [put EXCEPT ![prev].sibling = n1]
               /\ tree' = t /\ UNCHANGED skipped
            \/ /\ tree.is_leaf # 0 /\ prev = NULL
               /\ leaves' = known
               /\ tree' = [t EXCEPT !.first_leaf = n1]
               /\ skipped' = skipped \cup lost

\* The program inserts no key twice.
Insert(key) ==
  LET leaf  == find_leaf(tree, key)
      added == << Entry(TRUE, key) >>
  IN  /\ key \notin inserted
      /\ \/ create_new_tree(key)
         \/ /\ leaf # NULL
            /\ \/ Append_to_leaf(leaf, added)
               \/ leaf_split(leaf, key, added, {key})
      /\ inserted' = inserted \cup {key}
      /\ UNCHANGED <<deleted, changes>>

\* Update and Delete do not look whether the leaf has the key.
Change(key, added) ==
  LET leaf == find_leaf(tree, key)
  IN  /\ key \in inserted /\ leaf # NULL
      /\ changes < MaxChanges /\ changes' = changes + 1
      /\ Append_to_leaf(leaf, added) \/ leaf_split(leaf, key, added, {})
      /\ UNCHANGED inserted

\* As in the driver, updates come before deletes: an entry withdrawn out of turn is
\* waited for by all that follow, and a key updated then is kept twice by a split.
Update(key) == /\ deleted = {}
               /\ Change(key, << Entry(FALSE, key), Entry(TRUE, key) >>)
               /\ UNCHANGED deleted
Delete(key) == /\ Change(key, << Entry(FALSE, key) >>)
               /\ deleted' = deleted \cup {key}

Next == \E key \in Keys : Insert(key) \/ Update(key) \/ Delete(key)
Spec == Init /\ [][Next]_vars

-----------------------------------------------------------------------------
(* Properties.                                                              *)

\* The entries of all PLNs, in order.
Directory == LET from[id \in Nat] == IF id > tree.last_PLN_id THEN <<>>
                                     ELSE tree.pln[id] \o from[id + 1]
             IN  IF tree.is_leaf = 0 THEN <<>> ELSE from[tree.first_PLN_id]

TypeOK ==
  /\ DOMAIN leaves \subseteq Leaves
  /\ \A n \in DOMAIN leaves : /\ leaves[n].sibling \in Leaves \cup {NULL}
                              /\ Len(leaves[n].elements) <= MAX_NUM_ENTRY_LN
  /\ tree.is_leaf \in 0 .. 2 /\ tree.root \in DOMAIN leaves \cup {NULL}
  /\ \A id \in DOMAIN tree.pln : Len(tree.pln[id]) <= MAX_NUM_ENTRY_PLN
  /\ \A id \in DOMAIN tree.in : Len(tree.in[id]) <= MAX_NUM_ENTRY_IN
  /\ skipped \subseteq inserted /\ deleted \subseteq inserted /\ inserted \subseteq Keys

\* The bounds in the PLNs ascend from the first PLN to the last and end with
\* MAX_KEY, and a leaf holds keys up to its own bound and above the one before:
\* what a split of a leaf and of a PLN leaves to the search.
DirectoryParts ==
  tree.is_leaf # 0 =>
    LET d == Directory
    IN  /\ Last(d).key = MAX_KEY
        /\ \A i \in DOMAIN d :
             LET below == IF i = 1 THEN 0 ELSE d[i - 1].key
             IN  /\ below < d[i].key
                 /\ \A e \in ToSet(leaves[d[i].ptr].elements) : below < e.key /\ e.key <= d[i].key

\* The walk down the INs, whose keys are only written when the array is built,
\* ends at the leaf the PLN entries give the key to.
WalkMatchesDirectory ==
  tree.is_leaf # 0 =>
    \A key \in Keys :
      find_leaf(tree, key) = Directory[SelectInSeq(Directory, LAMBDA e : key <= e.key)].ptr

\* Every allocated leaf is in one PLN entry, points to the leaf of the next entry
\* and knows its PLN: the links a split sets in three leaves and the numbers it
\* writes when PLNs move agree with the directory.
LeavesLinked ==
  tree.is_leaf # 0 =>
    LET d == Directory
    IN  /\ {e.ptr : e \in ToSet(d)} = DOMAIN leaves /\ Len(d) = Cardinality(DOMAIN leaves)
        /\ \A i \in DOMAIN d :
             /\ leaves[d[i].ptr].sibling = IF i = Len(d) THEN NULL ELSE d[i + 1].ptr
             /\ leaves[d[i].ptr].parent_id = PLNOf(tree, d[i].ptr)

\* A key inserted and not deleted is found, whatever splits, updates and deletes
\* of other keys came after, unless its insert split the first leaf.
StoredKeysFound == \A key \in inserted \ (deleted \cup skipped) : Lookup(key)

\* Without updates and deletes, Range_Lookup from any key returns ascending keys: all
\* that are stored in its leaf and in the leaves behind it.
RangeInOrder ==
  tree.is_leaf # 0 /\ changes = 0 =>
    \A key \in Keys :
      LET found == Range_Lookup(key)
      IN  /\ \A i \in 1 .. Len(found) - 1 : found[i] < found[i + 1]
          /\ {k \in inserted \ skipped : k >= key} \subseteq ToSet(found)

\* What the test driver expects: every key Insert accepted is found.
InsertedKeysFound == \A key \in inserted \ deleted : Lookup(key)
=============================================================================
