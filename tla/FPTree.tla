------------------------------- MODULE FPTree -------------------------------
(***************************************************************************)
(* The FPTree (FPTree/Integer/FPTree.c): unsorted leaves in persistent     *)
(* memory, each with a bitmap of its live entries and a one-byte           *)
(* fingerprint per entry, chained by pNext; inner nodes that are never     *)
(* flushed.  An insert commits by the bitmap; a leaf is split in place     *)
(* under the undo log (UndoLog).  Deletion is commented out in the source. *)
(*                                                                         *)
(* Nodes are numbered: leaves 1 .. MaxLeaves, inner nodes from there on.   *)
(***************************************************************************)
EXTENDS PMem, Integers, Sequences, FiniteSets, FiniteSetsExt, SequencesExt, TLC

CONSTANTS NUM_LN_ENTRY, NUM_IN_ENTRY, NULL,
          Keys, Values,
          Inserts, Updates,  \* the calls made: pairs of a key and a value
          HASHES,        \* fingerprints: 256 in the code
          MaxLeaves, MaxInner,  \* bounds: nodes ever allocated
          Evictions,     \* the program counters at which dirty lines may be replaced
          MaxUpdates,    \* bound
          MaxLosses      \* bound, 0 or 1: nothing rebuilds the inner nodes

ASSUME FPTreeAssumption ==
  /\ NUM_LN_ENTRY \in Nat \ {0, 1} /\ NUM_IN_ENTRY \in Nat \ {0, 1}
  /\ Keys \subseteq Nat /\ HASHES \in Nat \ {0} /\ MaxLosses \in {0, 1}
  /\ Inserts \cup Updates \subseteq Keys \X Values

VARIABLES mem,     \* PMem: the words of the leaves
          inner,   \* the inner nodes
          parent,  \* node->parent, of leaves and inner nodes
          root,    \* t->root
          fresh,   \* next leaf and inner node the allocators return
          log,     \* undo log: leaf -> word -> old content
          updates,
          op,      \* the operation in progress, as in DurableMap
          pc, at   \* what it does next, and its locals
vars == <<mem, inner, parent, root, fresh, log, updates, op, pc, at>>

MIN_LN_ENTRIES == NUM_LN_ENTRY \div 2
MIN_IN_ENTRIES == NUM_IN_ENTRY \div 2

Leaves  == 1 .. MaxLeaves
INodes  == MaxLeaves + 1 .. MaxLeaves + MaxInner
Entries == 0 .. NUM_LN_ENTRY - 1
Print8(i) == NUM_LN_ENTRY + i       \* fingerprints[i]
BITMAP    == 2 * NUM_LN_ENTRY
PNEXT     == BITMAP + 1
LeafWords == 0 .. PNEXT
Words(n)  == {n} \X LeafWords

hash(key)  == key % HASHES
EmptyInner == [keys |-> <<>>, ptr |-> <<>>, leftmostPtr |-> NULL]
NoOp == [kind |-> "none", key |-> NULL, value |-> NULL]
Down == [kind |-> "down", key |-> NULL, value |-> NULL]
NoLocals == [leaf |-> NULL, right |-> NULL, index |-> NULL, lines |-> {},
             curr |-> NULL, key |-> NULL, split |-> NULL]

-----------------------------------------------------------------------------
(* Leaves *)
\* insert_in_leaf_noflush on leaf content lf: the first clear bit's place takes
\* the entry, its fingerprint and the bit.
FirstFree(lf) == Min(Entries \ lf[BITMAP])
Placed(lf, i, key, ptr) ==
  [lf EXCEPT ![i] = [key |-> key, ptr |-> ptr], ![Print8(i)] = hash(key), ![BITMAP] = @ \cup {i}]
insert_in_leaf_noflush(lf, key, ptr) == Placed(lf, FirstFree(lf), key, ptr)

\* The entries of a leaf in key order, as insertion_sort leaves them.
Sorted(lf) == SetToSortSeq({lf[i] : i \in lf[BITMAP]}, LAMBDA a, b : a.key < b.key)

InsertAll(lf, entries) ==
  FoldLeft(LAMBDA acc, e : insert_in_leaf_noflush(acc, e.key, e.ptr), lf, entries)

\* The places where Lookup and Update find key.
Hits(lf, key) == {i \in lf[BITMAP] : lf[Print8(i)] = hash(key) /\ lf[i].key = key}
InLeaf(lf, key) == IF Hits(lf, key) = {} THEN NULL ELSE lf[Min(Hits(lf, key))].ptr

Store1(n, lf) == [l \in Words(n) |-> lf[l[2]]]
BlankLeaf == [w \in LeafWords |-> IF w \in Entries THEN [key |-> 0, ptr |-> NULL]
                                  ELSE IF w = BITMAP THEN {} ELSE IF w = PNEXT THEN NULL ELSE 0]
\* allocLNode with pNext set: what malloc left elsewhere is never read.
NewLeaf(next) == [BlankLeaf EXCEPT ![PNEXT] = next]

(* Inner nodes *)
\* The binary search; places are counted from 0 as in the code.
Search(nd, key) ==
  LET go[low \in 0 .. NUM_IN_ENTRY + 1, high \in -1 .. NUM_IN_ENTRY, mid \in 0 .. NUM_IN_ENTRY] ==
        LET m == (low + high) \div 2 IN
        IF low > high THEN IF low > mid THEN low ELSE mid
        ELSE IF nd.keys[m + 1] > key THEN go[low, m - 1, m]
        ELSE IF nd.keys[m + 1] < key THEN go[m + 1, high, m]
        ELSE m
  IN  go[0, Len(nd.keys) - 1, 0]

\* The child find_leaf_node descends to.
Child(nd, key) ==
  LET loc == Search(nd, key) IN
  IF loc < Len(nd.keys) /\ nd.keys[loc + 1] <= key THEN nd.ptr[loc + 1]
  ELSE IF loc = 0 THEN nd.leftmostPtr ELSE nd.ptr[loc]

find_leaf_node(key) ==
  LET down[n \in Leaves \cup INodes] == IF n \in Leaves THEN n ELSE down[Child(inner[n], key)]
  IN  down[root]

insert_in_inner(nd, key, child) ==
  LET mid == Search(nd, key) IN
  [nd EXCEPT !.keys = InsertAt(@, mid + 1, key), !.ptr = InsertAt(@, mid + 1, child)]

-----------------------------------------------------------------------------
(* Reading *)
Cached(n)   == mem.cache[n]
Lookup(key) == InLeaf(Cached(find_leaf_node(key)), key)

\* The leaves from n on in c, along pNext.
Chain(c, n) ==
  LET from[m \in Leaves] == IF c[m][PNEXT] = NULL THEN <<m>> ELSE <<m>> \o from[c[m][PNEXT]]
  IN  from[n]

\* The entries whose pointers Range_Lookup reads: each leaf sorted on its own,
\* from the beginning of the first.
Range_Lookup(start, num) ==
  LET all == FlattenSeq([i \in 1 .. Len(Chain(mem.cache, find_leaf_node(start))) |->
                           Sorted(Cached(Chain(mem.cache, find_leaf_node(start))[i]))])
  IN  SubSeq(all, 1, IF num < Len(all) THEN num ELSE Len(all))

\* What a restart can find: the leaves chained to the first one, with the open
\* transaction undone, read by fingerprint.
Recovered == [n \in Leaves |-> IF n \in DOMAIN log THEN log[n] ELSE mem.nvm[n]]
ContentOf(c) ==
  LET chain == Range(Chain(c, 1)) IN
  [k \in Keys |-> LET holders == {n \in chain : Hits(c[n], k) # {}} IN
                  IF holders = {} THEN NULL ELSE InLeaf(c[CHOOSE n \in holders : TRUE], k)]
RecoveredContent == CHOOSE kv \in {ContentOf(c) : c \in {Recovered}} : TRUE

Levels ==
  LET above[n \in Leaves \cup INodes] == IF n \in Leaves THEN 0 ELSE 1 + above[inner[n].leftmostPtr]
  IN  above[root]

-----------------------------------------------------------------------------
Init == /\ mem = Formatted([n \in Leaves |-> BlankLeaf])
        /\ inner = [n \in INodes |-> EmptyInner]
        /\ parent = [n \in Leaves \cup INodes |-> NULL]
        /\ root = 1 /\ fresh = [leaf |-> 2, inner |-> MaxLeaves + 1]
        /\ log = <<>> /\ updates = 0
        /\ op = NoOp /\ pc = "idle" /\ at = NoLocals

\* insert_in_leaf: entry, fingerprint and bitmap are all stored first ...
Insert(key, value) ==
  /\ pc = "idle" /\ Lookup(key) = NULL
  /\ LET n == find_leaf_node(key) IN
       /\ Cached(n)[BITMAP] # Entries
       /\ mem' = Store(mem, Store1(n, insert_in_leaf_noflush(Cached(n), key, value)))
       /\ at' = [NoLocals EXCEPT !.leaf = n, !.index = FirstFree(Cached(n)), !.lines = {<<n, BITMAP>>}]
  /\ op' = [kind |-> "Insert", key |-> key, value |-> value]
  /\ pc' = "entry"
  /\ UNCHANGED <<inner, parent, root, fresh, log, updates>>

\* Mutant: the fingerprint is left in the cache.
FlushEntry_NoPrint ==
  /\ pc = "entry"
  /\ mem' = flush_buffer(mem, {<<at.leaf, at.index>>}, FALSE)
  /\ pc' = "commit"
  /\ UNCHANGED <<inner, parent, root, fresh, log, updates, op, at>>

\* ... then flushed in that order, the bitmap last and with fences.
FlushEntry ==
  /\ pc = "entry"
  /\ mem' = flush_buffer(flush_buffer(mem, {<<at.leaf, at.index>>}, FALSE),
                         {<<at.leaf, Print8(at.index)>>}, FALSE)
  /\ pc' = "commit"
  /\ UNCHANGED <<inner, parent, root, fresh, log, updates, op, at>>

\* Update stores the pointer in place; callers update keys the tree holds.
Update(key, value) ==
  /\ pc = "idle" /\ Lookup(key) # NULL /\ updates < MaxUpdates
  /\ LET n == find_leaf_node(key)
         i == Min(Hits(Cached(n), key)) IN
       /\ mem' = Store(mem, [l \in {<<n, i>>} |-> [key |-> key, ptr |-> value]])
       /\ at' = [NoLocals EXCEPT !.lines = {<<n, i>>}]
  /\ op' = [kind |-> "Update", key |-> key, value |-> value]
  /\ updates' = updates + 1
  /\ pc' = "commit"
  /\ UNCHANGED <<inner, parent, root, fresh, log>>

Commit ==
  /\ pc = "commit"
  /\ mem' = flush_buffer(mem, at.lines, TRUE)
  /\ pc' = "return"
  /\ UNCHANGED <<inner, parent, root, fresh, log, updates, op, at>>

Return ==
  /\ pc = "return"
  /\ op' = NoOp /\ pc' = "idle" /\ at' = NoLocals
  /\ UNCHANGED <<mem, inner, parent, root, fresh, log, updates>>

\* Insert into a full leaf: the leaf is logged first.
InsertSplit(key, value) ==
  /\ pc = "idle" /\ Lookup(key) = NULL
  /\ Cached(find_leaf_node(key))[BITMAP] = Entries
  /\ fresh.leaf \in Leaves /\ fresh.inner + Levels \in INodes
  /\ log' = [n \in {find_leaf_node(key)} |-> Cached(n)]
  /\ at' = [NoLocals EXCEPT !.leaf = find_leaf_node(key), !.right = fresh.leaf]
  /\ op' = [kind |-> "Insert", key |-> key, value |-> value]
  /\ pc' = "split"
  /\ UNCHANGED <<mem, inner, parent, root, fresh, updates>>

\* Sorted, the entries go back into the emptied leaf and into the new one.
SplitLeaf ==
  /\ pc = "split"
  /\ LET entries == Sorted(Cached(at.leaf))
         low  == InsertAll([Cached(at.leaf) EXCEPT ![BITMAP] = {}], SubSeq(entries, 1, MIN_LN_ENTRIES))
         high == InsertAll(NewLeaf(Cached(at.leaf)[PNEXT]),
                           SubSeq(entries, MIN_LN_ENTRIES + 1, NUM_LN_ENTRY))
         left == high[0].key > op.key
         new(lf) == insert_in_leaf_noflush(lf, op.key, op.value) IN
       /\ mem' = Store(Store(mem, Store1(at.leaf, IF left THEN new(low) ELSE low)),
                       Store1(at.right, IF left THEN high ELSE new(high)))
       /\ at' = [at EXCEPT !.curr = at.leaf, !.key = high[0].key, !.split = at.right]
  /\ fresh' = [fresh EXCEPT !.leaf = @ + 1]
  /\ pc' = "parent"
  /\ UNCHANGED <<inner, parent, root, log, updates, op>>

\* insert_in_parent, at the root, ...
NewRoot ==
  /\ pc = "parent" /\ at.curr = root
  /\ inner' = [inner EXCEPT ![fresh.inner] =
                 [keys |-> <<at.key>>, ptr |-> <<at.split>>, leftmostPtr |-> at.curr]]
  /\ parent' = [parent EXCEPT ![at.split] = fresh.inner, ![at.curr] = fresh.inner]
  /\ root' = fresh.inner
  /\ fresh' = [fresh EXCEPT !.inner = @ + 1]
  /\ pc' = "link"
  /\ UNCHANGED <<mem, log, updates, op, at>>

\* Mutant: one entry more than fits.
HasRoom_OneMore(nd) == Len(nd.keys) <= NUM_IN_ENTRY

HasRoom(nd) == Len(nd.keys) < NUM_IN_ENTRY

\* ... with room in the parent, ...
InsertInParent ==
  /\ pc = "parent" /\ at.curr # root
  /\ LET p == parent[at.curr] IN
       /\ HasRoom(inner[p])
       /\ inner' = [inner EXCEPT ![p] = insert_in_inner(@, at.key, at.split)]
       /\ parent' = [parent EXCEPT ![at.split] = p]
  /\ pc' = "link"
  /\ UNCHANGED <<mem, root, fresh, log, updates, op, at>>

\* Mutant: the moved children keep the parent that was split.
Moved_None(nd) == {}

\* The children whose parent pointer a split of nd changes.
Moved(nd) == Range(SubSeq(nd.ptr, MIN_IN_ENTRIES + 1, Len(nd.ptr)))

\* ... and with a full one, whose upper part moves to a new node.
SplitParent ==
  /\ pc = "parent" /\ at.curr # root
  /\ LET p  == parent[at.curr]
         nd == inner[p]
         up == fresh.inner
         n  == Len(nd.keys)
         low  == [nd EXCEPT !.keys = SubSeq(@, 1, MIN_IN_ENTRIES), !.ptr = SubSeq(@, 1, MIN_IN_ENTRIES)]
         high == [EmptyInner EXCEPT !.keys = SubSeq(nd.keys, MIN_IN_ENTRIES + 1, n),
                                    !.ptr = SubSeq(nd.ptr, MIN_IN_ENTRIES + 1, n)]
         left == high.keys[1] > at.key
         new(x) == insert_in_inner(x, at.key, at.split) IN
       /\ ~HasRoom(nd)
       /\ inner' = [inner EXCEPT ![p]  = IF left THEN new(low) ELSE low,
                                 ![up] = IF left THEN high ELSE new(high)]
       /\ parent' = [m \in DOMAIN parent |-> IF m = at.split THEN IF left THEN p ELSE up
                                             ELSE IF m \in Moved(nd) THEN up ELSE parent[m]]
       /\ at' = [at EXCEPT !.curr = p, !.key = IF left THEN high.keys[1] ELSE new(high).keys[1],
                           !.split = up]
  /\ fresh' = [fresh EXCEPT !.inner = @ + 1]
  /\ UNCHANGED <<mem, root, log, updates, op, pc>>

\* Mutant: the old leaf keeps its old successor.
LinkLeaf_NoLink ==
  /\ pc = "link"
  /\ mem' = flush_buffer(flush_buffer(mem, Words(at.leaf), FALSE), Words(at.right), FALSE)
  /\ pc' = "logcommit"
  /\ UNCHANGED <<inner, parent, root, fresh, log, updates, op, at>>

\* Back in Insert: the leaves are linked, then flushed whole.
LinkLeaf ==
  /\ pc = "link"
  /\ mem' = flush_buffer(flush_buffer(Store(mem, [l \in {<<at.leaf, PNEXT>>} |-> at.right]),
                                      Words(at.leaf), FALSE), Words(at.right), FALSE)
  /\ pc' = "logcommit"
  /\ UNCHANGED <<inner, parent, root, fresh, log, updates, op, at>>

LogCommit ==
  /\ pc = "logcommit"
  /\ log' = <<>>
  /\ mem' = Mfence(mem)
  /\ pc' = "return"
  /\ UNCHANGED <<inner, parent, root, fresh, updates, op, at>>

(* The environment *)
Evict == /\ pc \in Evictions
         /\ \E l \in Dirty(mem) : mem' = WriteBack(mem, {l})
         /\ UNCHANGED <<inner, parent, root, fresh, log, updates, op, pc, at>>

PowerLost == /\ MaxLosses = 1 /\ pc # "down"
             /\ mem' = PowerLoss(mem)
             /\ op' = Down /\ pc' = "down" /\ at' = NoLocals
             /\ UNCHANGED <<inner, parent, root, fresh, log, updates>>

Next == \/ \E c \in Inserts : Insert(c[1], c[2]) \/ InsertSplit(c[1], c[2])
        \/ \E c \in Updates : Update(c[1], c[2])
        \/ FlushEntry \/ Commit \/ Return
        \/ SplitLeaf \/ NewRoot \/ InsertInParent \/ SplitParent \/ LinkLeaf \/ LogCommit
        \/ Evict \/ PowerLost

Spec == Init /\ [][Next]_vars

-----------------------------------------------------------------------------
(* Properties *)
Map == INSTANCE DurableMap WITH kv <- RecoveredContent

\* Words and nodes have the shapes of their C types: no inner node takes more
\* than its array holds.
TypeOK ==
  /\ root \in Leaves \cup INodes /\ op \in Map!Ops \cup {NoOp, Down}
  /\ \A c \in {mem.cache, mem.nvm}, n \in Leaves :
       c[n][BITMAP] \subseteq Entries /\ c[n][PNEXT] \in Leaves \cup {NULL}
  /\ \A n \in INodes : Len(inner[n].keys) = Len(inner[n].ptr) /\ Len(inner[n].keys) <= NUM_IN_ENTRY

\* Failure atomicity and durability through the leaves alone, the inner nodes
\* being lost: an insert by its bitmap, a split by the log.
ImplementsDurableMap == Map!Spec

\* The volatile and the persistent half agree: the leaves below the root, read
\* from left to right, are the chain a restart follows, every key of a leaf is
\* found through the inner nodes, and parent pointers lead where a later split
\* will look for them.
HalvesAgree ==
  pc = "idle" =>
    LET kids(n)  == <<inner[n].leftmostPtr>> \o inner[n].ptr
        under[n \in Leaves \cup INodes] ==
          IF n \in Leaves THEN <<n>>
          ELSE FlattenSeq([i \in DOMAIN SelectSeq(kids(n), LAMBDA m : m # NULL) |->
                             under[SelectSeq(kids(n), LAMBDA m : m # NULL)[i]]])
        linked[n \in Leaves \cup INodes] ==
          n \in Leaves \/ \A m \in Range(kids(n)) \ {NULL} : parent[m] = n /\ linked[m]
    IN  /\ under[root] = Chain(mem.cache, 1)
        /\ linked[root]
        /\ \A k \in Keys : Lookup(k) = ContentOf(mem.cache)[k]

\* A scan from the smallest key - the drivers start there - returns the keys the
\* tree holds in order, none twice and none left out.
RangeInOrder ==
  pc = "idle" =>
    LET held == {k \in Keys : Lookup(k) # NULL} IN
    held # {} =>
      \A num \in 1 .. Cardinality(held) :
        LET got == Range_Lookup(Min(held), num) IN
        /\ Len(got) = num
        /\ \A i \in 1 .. num : /\ got[i].key \in held /\ got[i].ptr = Lookup(got[i].key)
                               /\ Cardinality({k \in held : k < got[i].key}) = i - 1
=============================================================================
