----------------------------- MODULE BitmapTree -----------------------------
(***************************************************************************)
(* The wB+tree with bitmap and slot array                                  *)
(* (wb+tree/bitmap_slot/Integer/wbtree.c) in persistent memory that may    *)
(* lose power.  A slot array is several words: an insert or delete first   *)
(* makes the medium say that it is invalid, then changes it, then commits  *)
(* by one store to the bitmap.  A split changes nodes in place under the   *)
(* undo log (UndoLog), as in SlotTree.                                     *)
(*                                                                         *)
(* One action per step whose place in the order of write-backs matters; a  *)
(* store and its flush are one step where a replacement between them       *)
(* changes nothing a restart sees.                                         *)
(***************************************************************************)
EXTENDS PMem, BitmapNode, TLC

CONSTANTS Keys, Values,
          Inserts, Updates,  \* the calls made: pairs of a key and a value
          MaxNodes,    \* bound: nodes ever allocated
          Evictions,   \* whether dirty lines may be replaced
          MaxUpdates, MaxDeletes, MaxLosses   \* bounds

ASSUME BitmapTreeAssumption ==
  /\ Keys \subseteq Nat \ {0} /\ MaxNodes \in Nat \ {0} /\ Evictions \in BOOLEAN
  /\ MaxUpdates \in Nat /\ MaxDeletes \in Nat /\ MaxLosses \in Nat
  /\ Inserts \cup Updates \subseteq Keys \X Values

VARIABLES mem,     \* PMem: the words of the nodes
          root,    \* t->root
          fresh,   \* next node allocNode returns
          log,     \* undo log of the open transaction: node -> word -> old content
          done,    \* updates, deletes and power losses so far
          op,      \* the operation in progress, as in DurableMap
          pc,      \* what it does next
          at,      \* its locals
          keys     \* history: keys whose insert returned, not deleted since
vars == <<mem, root, fresh, log, done, op, pc, at, keys>>

-----------------------------------------------------------------------------
(* Memory: a word per entry, per slot, and for each field behind them.      *)
Nodes    == 1 .. MaxNodes
Slot(j)  == NODE_SIZE + j
BITMAP   == Slot(NODE_SIZE) + 1
LEFTMOST == BITMAP + 1        \* leftmost child; in a leaf, the next leaf
PARENT   == BITMAP + 2
ISLEAF   == BITMAP + 3
AllWords == 0 .. ISLEAF
Words(n) == {n} \X AllWords
Header   == {Slot(j) : j \in Slots} \cup {BITMAP}   \* (char *)entries - (char *)slot bytes
SlotWords(n)  == {n} \X {Slot(j) : j \in Slots}
EntryWord(n, i) == {<<n, i>>}
BitmapWord(n) == {<<n, BITMAP>>}

Node(c, n) == [slot |-> [j \in Slots |-> c[n][Slot(j)]],
               ent |-> c[n], bitmap |-> c[n][BITMAP]]
NodeWords(n, nd) ==
  [l \in {n} \X (Entries \cup Header) |->
     IF l[2] \in Entries THEN nd.ent[l[2]] ELSE IF l[2] = BITMAP THEN nd.bitmap
     ELSE nd.slot[l[2] - NODE_SIZE]]
Pointer(n, w, x) == [l \in {<<n, w>>} |-> x]

\* allocNode and the fields its caller sets before the node is reachable.
NewNode(n, nd, leftmost, parent, isleaf) ==
  [l \in Words(n) |-> IF l[2] = LEFTMOST THEN leftmost ELSE IF l[2] = PARENT THEN parent
                      ELSE IF l[2] = ISLEAF THEN isleaf ELSE NodeWords(n, nd)[l]]

NoOp == [kind |-> "none", key |-> NULL, value |-> NULL]
Down == [kind |-> "down", key |-> NULL, value |-> NULL]
Op(kind, key, value) == [kind |-> kind, key |-> key, value |-> value]
\* The leaf, the entry or slot position the operation works on, the line its
\* commit flushes; the node split off; insert_in_parent's arguments.
NoLocals == [leaf |-> NULL, pos |-> NULL, line |-> {}, right |-> NULL,
             curr |-> NULL, key |-> NULL, split |-> NULL, parent |-> NULL]

\* F(e), with e computed once.
With(e, F(_)) == CHOOSE y \in {F(x) : x \in {e}} : TRUE

Leftmost(c, n) == c[n][LEFTMOST]
Parent(c, n)   == c[n][PARENT]
IsLeaf(c, n)   == c[n][ISLEAF] = 1

\* NULL where the descent comes to a pointer that leads to no node.
find_leaf_node(c, r, key) ==
  LET down[n \in Nodes \cup {NULL}] ==
        IF n = NULL THEN NULL
        ELSE IF IsLeaf(c, n) THEN n
        ELSE down[With(Node(c, n), LAMBDA nd :
                    LET loc == ChildSlot(nd, key) IN IF loc = 0 THEN Leftmost(c, n) ELSE Ptr(nd, loc))]
  IN  down[r]

\* Levels of nodes: a split allocates at most one per level and a new root.
Levels(c, r) ==
  LET above[n \in Nodes] == IF IsLeaf(c, n) THEN 1 ELSE 1 + above[Leftmost(c, n)]
  IN  above[r]

\* An inner node that a split made has no leftmostPtr: no key leads there.
Children(c, n) == ({Leftmost(c, n)} \ {NULL}) \cup {e.ptr : e \in Stored(Node(c, n))}
Below(c, r) ==
  LET under[n \in Nodes] ==
        {n} \cup IF IsLeaf(c, n) THEN {} ELSE UNION {under[m] : m \in Children(c, n)}
  IN  under[r]
Tree == Below(mem.cache, root)

\* The entries Range_Lookup reads, from the place of start on and along the leaves.
Range_Lookup(c, r, start, num) ==
  LET scan[n \in Nodes, i \in 1 .. NODE_SIZE + 1, need \in 1 .. num] ==
        LET nd    == Node(c, n)
            found == [j \in 1 .. Max({Count(nd) - i + 1, 0}) |-> nd.ent[nd.slot[i + j - 1]]]
        IN  IF Len(found) >= need THEN SubSeq(found, 1, need)
            ELSE IF Leftmost(c, n) = NULL THEN found
                 ELSE found \o scan[Leftmost(c, n), 1, need - Len(found)]
      leaf == find_leaf_node(c, r, start)
  IN  scan[leaf, Search(Node(c, leaf), start), num]

\* The map a scan of c finds: what Range_Lookup from k reads first, when that is k.
Content(c, r) ==
  [k \in Keys |->
     IF find_leaf_node(c, r, k) = NULL THEN NULL
     ELSE With(Range_Lookup(c, r, k, 1), LAMBDA got :
               IF got # <<>> /\ got[1].key = k THEN got[1].ptr ELSE NULL)]

\* Rebuilding: each slot array that the medium calls invalid.
RepairedAll(c) ==
  [n \in Nodes |->
     IF HasBit(c[n][BITMAP], 0) THEN c[n]
     ELSE With(Repaired(Node(c, n)), LAMBDA nd :
               [w \in AllWords |-> IF w = BITMAP THEN nd.bitmap
                                   ELSE IF w \in Header THEN nd.slot[w - NODE_SIZE] ELSE c[n][w]])]

\* Rolling back: the words an open transaction has copied get their old content.
Logged(n, w) == n \in DOMAIN log /\ w \in DOMAIN log[n]
Undone       == [n \in Nodes |-> [w \in AllWords |-> IF Logged(n, w) THEN log[n][w] ELSE mem.nvm[n][w]]]

\* add_log_entry cuts 72 bytes of header into 48 and 24 and records 48 for both:
\* undoing the second writes 24 bytes more than were copied, over entry 0 and the
\* key of entry 1.  They are what the ring held there: zeros, until it has wrapped.
\* (Whole nodes are 24 times 48 bytes, and 8 bytes fit in one record.)
HeaderOnly(n) == Logged(n, BITMAP) /\ ~Logged(n, ISLEAF)
Overruns      == \E n \in Nodes : HeaderOnly(n)
Overwritten(c) ==
  [n \in Nodes |-> IF HeaderOnly(n) THEN [c[n] EXCEPT ![0] = NoEntry, ![1].key = 0] ELSE c[n]]

\* What a restart makes of the medium, and the map a scan finds in it: while power
\* is on the map meant, without the overrun; after a loss the one really there.
Recovered == With(Overwritten(Undone), RepairedAll)
RecoveredContent ==
  With(IF pc = "down" THEN Recovered ELSE RepairedAll(Undone), LAMBDA c : Content(c, root))

Cached(n)    == Node(mem.cache, n)
LeafOf(key)  == find_leaf_node(mem.cache, root, key)
Present(key) == Content(mem.cache, root)[key] # NULL
Leaf         == Cached(at.leaf)
ParentOf     == Parent(mem.cache, at.curr)

\* add_log_entry of the words W of node n; the oldest content of a word counts.
Log(lg, n, W) ==
  LET old == [w \in W |-> mem.cache[n][w]]
  IN  (n :> IF n \in DOMAIN lg THEN lg[n] @@ old ELSE old) @@ lg

Init == /\ mem = Formatted([n \in Nodes |-> [w \in AllWords |->
                   IF w \in Entries THEN NoEntry ELSE IF w \in Header \ {BITMAP} THEN 0
                   ELSE IF w = BITMAP THEN 1 ELSE IF w = ISLEAF /\ n = 1 THEN 1 ELSE NULL]])
        /\ root = 1 /\ fresh = 2 /\ log = <<>>
        /\ done = [updates |-> 0, deletes |-> 0, losses |-> 0]
        /\ op = NoOp /\ pc = "idle" /\ at = NoLocals /\ keys = {}

-----------------------------------------------------------------------------
(* insert_in_leaf *)
\* Mutant: the cleared bit is left in the cache.
Invalidate_NoFlush(n) == Store(mem, NodeWords(n, Invalidated(Cached(n))))

\* curr->bitmap - 1, stored and flushed with fences.
Invalidate(n) == flush_buffer(Store(mem, NodeWords(n, Invalidated(Cached(n)))), BitmapWord(n), TRUE)

\* Callers insert keys the tree does not hold.
InsertBegin(key, value) ==
  /\ pc = "idle" /\ ~Present(key) /\ Count(Cached(LeafOf(key))) < NODE_SIZE
  /\ HasFree(Cached(LeafOf(key)))   \* Append's -1 is a position before the entries
  /\ mem' = Invalidate(LeafOf(key))
  /\ at' = [NoLocals EXCEPT !.leaf = LeafOf(key)]
  /\ op' = Op("Insert", key, value)
  /\ pc' = "entry"
  /\ UNCHANGED <<root, fresh, log, done, keys>>

\* Append and the flush of the entry, then the slot array.
InsertEntry ==
  /\ pc = "entry"
  /\ LET loc   == FreeEntry(Leaf)
         added == AppendEntry(Leaf, op.key, op.value) IN
       /\ mem' = Store(flush_buffer(Store(mem, NodeWords(at.leaf, added)), EntryWord(at.leaf, loc), FALSE),
                       NodeWords(at.leaf, SlotsInserted(added, op.key)))
       /\ at' = [at EXCEPT !.pos = loc, !.line = BitmapWord(at.leaf)]
  /\ pc' = "valid"
  /\ UNCHANGED <<root, fresh, log, done, op, keys>>

\* The slot array is flushed and the bitmap stored.
InsertValid ==
  /\ pc = "valid"
  /\ mem' = Store(flush_buffer(mem, SlotWords(at.leaf), FALSE),
                  NodeWords(at.leaf, Committed(Leaf, at.pos)))
  /\ pc' = "commit"
  /\ UNCHANGED <<root, fresh, log, done, op, at, keys>>

(* Update and delete_in_leaf; their callers pass keys the tree holds. *)
Update(key, value) ==
  /\ pc = "idle" /\ Present(key) /\ done.updates < MaxUpdates
  /\ LET n == LeafOf(key)
         i == Cached(n).slot[Search(Cached(n), key)] IN
       /\ mem' = Store(mem, Pointer(n, i, [key |-> key, ptr |-> value]))
       /\ at' = [NoLocals EXCEPT !.line = EntryWord(n, i)]
  /\ op' = Op("Update", key, value)
  /\ done' = [done EXCEPT !.updates = @ + 1]
  /\ pc' = "commit"
  /\ UNCHANGED <<root, fresh, log, keys>>

DeleteBegin(key) ==
  /\ pc = "idle" /\ Present(key) /\ done.deletes < MaxDeletes
  /\ mem' = Invalidate(LeafOf(key))
  /\ at' = [NoLocals EXCEPT !.leaf = LeafOf(key)]
  /\ op' = Op("Delete", key, NULL)
  /\ done' = [done EXCEPT !.deletes = @ + 1]
  /\ pc' = "close"
  /\ UNCHANGED <<root, fresh, log, keys>>

DeleteSlots ==
  /\ pc = "close"
  /\ mem' = Store(mem, NodeWords(at.leaf, SlotsDeleted(Leaf, op.key)))
  /\ at' = [at EXCEPT !.pos = Search(Leaf, op.key), !.line = BitmapWord(at.leaf)]
  /\ pc' = "closed"
  /\ UNCHANGED <<root, fresh, log, done, op, keys>>

\* Mutant: the slot array is left in the cache.
DeleteValid_NoFlush ==
  /\ pc = "closed"
  /\ mem' = Store(mem, NodeWords(at.leaf, BitDeleted(Leaf, at.pos)))
  /\ pc' = "commit"
  /\ UNCHANGED <<root, fresh, log, done, op, at, keys>>

DeleteValid ==
  /\ pc = "closed"
  /\ mem' = Store(flush_buffer(mem, SlotWords(at.leaf), FALSE),
                  NodeWords(at.leaf, BitDeleted(Leaf, at.pos)))
  /\ pc' = "commit"
  /\ UNCHANGED <<root, fresh, log, done, op, at, keys>>

\* The fenced flush that each of the three ends with.
Commit ==
  /\ pc = "commit"
  /\ mem' = flush_buffer(mem, at.line, TRUE)
  /\ pc' = "return"
  /\ UNCHANGED <<root, fresh, log, done, op, at, keys>>

Return ==
  /\ pc = "return"
  /\ op' = NoOp /\ pc' = "idle" /\ at' = NoLocals
  /\ keys' = IF op.kind = "Delete" THEN keys \ {op.key} ELSE keys \cup {op.key}
  /\ UNCHANGED <<mem, root, fresh, log, done>>

-----------------------------------------------------------------------------
(* Insert into a full leaf, and insert_in_parent *)
InsertSplit(key, value) ==
  /\ pc = "idle" /\ ~Present(key) /\ Count(Cached(LeafOf(key))) = NODE_SIZE
  /\ fresh + Levels(mem.cache, root) <= MaxNodes
  /\ log' = Log(log, LeafOf(key), AllWords)
  /\ at' = [NoLocals EXCEPT !.leaf = LeafOf(key)]
  /\ op' = Op("Insert", key, value)
  /\ pc' = "split"
  /\ UNCHANGED <<mem, root, fresh, done, keys>>

\* The new leaf takes the upper entries, the new entry goes to its side; only a
\* new entry of the old leaf is flushed here.
SplitLeaf ==
  /\ pc = "split"
  /\ LET parts  == SplitBoth(Leaf, op.key, op.value)
         stored == Store(Store(mem, NewNode(fresh, parts.right, Leftmost(mem.cache, at.leaf), NULL, 1)),
                         NodeWords(at.leaf, parts.left)) IN
       /\ mem' = flush_buffer(stored, {at.leaf} \X Entries, FALSE)
       /\ at' = [at EXCEPT !.right = fresh, !.curr = at.leaf, !.key = Key(parts.right, 1), !.split = fresh]
  /\ fresh' = fresh + 1
  /\ pc' = "parent"
  /\ UNCHANGED <<root, log, done, op, keys>>

SplitRoot ==
  /\ pc = "parent" /\ at.curr = root
  /\ LET nd == [EmptyBitmapNode EXCEPT !.slot[0] = 1, !.bitmap = @ + Bit(1),
                                       !.ent[0] = [key |-> at.key, ptr |-> at.split]]
         built == Store(Store(mem, NewNode(fresh, nd, at.curr, NULL, 0)),
                        Pointer(at.split, PARENT, fresh)) IN
       mem' = flush_buffer(Store(flush_buffer(built, Words(fresh) \cup Words(at.split), FALSE),
                                 Pointer(at.curr, PARENT, fresh)), {<<at.curr, PARENT>>}, FALSE)
  /\ pc' = "newroot"
  /\ UNCHANGED <<root, fresh, log, done, op, at, keys>>

\* t->root = root; neither logged nor flushed.
NewRoot ==
  /\ pc = "newroot"
  /\ root' = fresh /\ fresh' = fresh + 1
  /\ pc' = "link"
  /\ UNCHANGED <<mem, log, done, op, at, keys>>

\* What is logged of a parent with room.
ParentHeader == Header

\* With room in the parent: slot array and bitmap are logged, the entry and the
\* new child flushed, then the header.
ParentEntry ==
  /\ pc = "parent" /\ at.curr # root
  /\ LET p  == ParentOf
         nd == Invalidated(Cached(p)) IN
       /\ Count(nd) < NODE_SIZE
       /\ log' = Log(log, p, ParentHeader)
       /\ mem' = flush_buffer(Store(Store(mem, NodeWords(p, AppendEntry(nd, at.key, at.split))),
                                    Pointer(at.split, PARENT, p)),
                              Words(at.split) \cup EntryWord(p, FreeEntry(nd)), FALSE)
       /\ at' = [at EXCEPT !.parent = p]
  /\ pc' = "parentslot"
  /\ UNCHANGED <<root, fresh, done, op, keys>>

ParentSlots ==
  /\ pc = "parentslot"
  /\ LET nd == Cached(at.parent) IN
       mem' = flush_buffer(Store(mem, NodeWords(at.parent,
                                               Committed(SlotsInserted(nd, at.key), FreeEntry(nd)))),
                           {at.parent} \X Header, FALSE)
  /\ pc' = "link"
  /\ UNCHANGED <<root, fresh, log, done, op, at, keys>>

\* child->parent = splitParent
Adopted(moved, up) == [l \in moved \X {PARENT} |-> up]

\* A full parent is split in turn, under the log, its upper half goes up.
SplitParent ==
  /\ pc = "parent" /\ at.curr # root
  /\ LET p     == ParentOf
         nd    == Cached(p)
         parts == SplitBoth(nd, at.key, at.split)
         moved == {e.ptr : e \in Stored(Upper(nd))}
         home  == IF Key(Upper(nd), 1) > at.key THEN p ELSE fresh
         stores == Store(Store(Store(Store(mem, NewNode(fresh, parts.right, NULL, NULL, 0)),
                                     Adopted(moved, fresh)),
                               Pointer(at.split, PARENT, home)),
                         NodeWords(p, parts.left)) IN
       /\ Count(nd) = NODE_SIZE
       /\ log' = [m \in moved |-> Log(log, m, {PARENT})[m]] @@ Log(log, p, AllWords)
       /\ mem' = flush_buffer(stores, (moved \X {PARENT}) \cup Words(at.split)
                                       \cup ({p} \X (Entries \cup Header)), FALSE)
       /\ at' = [at EXCEPT !.curr = p, !.key = Key(parts.right, 1), !.split = fresh]
  /\ fresh' = fresh + 1
  /\ UNCHANGED <<root, done, pc, op, keys>>

\* Mutant: the old leaf keeps its old successor.
LinkLeaf_NoLink ==
  /\ pc = "link"
  /\ mem' = flush_buffer(mem, {at.leaf} \X (Header \cup {LEFTMOST}), FALSE)
  /\ pc' = "logcommit"
  /\ UNCHANGED <<root, fresh, log, done, op, at, keys>>

\* Back in Insert: the old leaf points to the new one; its header is flushed.
LinkLeaf ==
  /\ pc = "link"
  /\ mem' = flush_buffer(Store(mem, Pointer(at.leaf, LEFTMOST, at.right)),
                         {at.leaf} \X (Header \cup {LEFTMOST}), FALSE)
  /\ pc' = "logcommit"
  /\ UNCHANGED <<root, fresh, log, done, op, at, keys>>

\* add_log_entry(t, NULL, 0, LE_COMMIT), flushed with fences.
LogCommit ==
  /\ pc = "logcommit"
  /\ log' = <<>>
  /\ mem' = Mfence(mem)
  /\ pc' = "return"
  /\ UNCHANGED <<root, fresh, done, op, at, keys>>

-----------------------------------------------------------------------------
(* The environment *)
Evict == /\ Evictions
         /\ \E l \in Dirty(mem) : l[1] \in Tree /\ mem' = WriteBack(mem, {l})
         /\ UNCHANGED <<root, fresh, log, done, op, pc, at, keys>>

PowerLost == /\ done.losses < MaxLosses /\ pc # "down"
             /\ mem' = PowerLoss(mem)
             /\ op' = Down /\ pc' = "down" /\ at' = NoLocals
             /\ done' = [done EXCEPT !.losses = @ + 1]
             /\ keys' = IF op.kind = "Delete" THEN keys \ {op.key} ELSE keys
             /\ UNCHANGED <<root, fresh, log>>

\* Not after a root split that did not commit: nothing logs t->root.  Nor where the
\* rollback has overwritten entries: the program would search a node that is none.
Restart == /\ pc = "down" /\ ~Overruns
           /\ \E c \in {Recovered} :
                /\ ~IsLeaf(c, root) => Parent(c, Leftmost(c, root)) = root
                /\ mem' = Formatted(c)
           /\ log' = <<>>
           /\ op' = NoOp /\ pc' = "idle"
           /\ UNCHANGED <<root, fresh, done, at, keys>>

Next == \/ \E c \in Inserts : InsertBegin(c[1], c[2]) \/ InsertSplit(c[1], c[2])
        \/ \E c \in Updates : Update(c[1], c[2])
        \/ \E k \in Keys : DeleteBegin(k)
        \/ InsertEntry \/ InsertValid \/ DeleteSlots \/ DeleteValid \/ Commit \/ Return
        \/ SplitLeaf \/ SplitRoot \/ NewRoot \/ ParentEntry \/ ParentSlots \/ SplitParent
        \/ LinkLeaf \/ LogCommit
        \/ Evict \/ PowerLost \/ Restart

Spec == Init /\ [][Next]_vars

-----------------------------------------------------------------------------
(* Properties *)
Map == INSTANCE DurableMap WITH kv <- RecoveredContent

\* Words have the shapes of their C types; the log is open only in a split.
TypeOK ==
  /\ root \in Nodes /\ fresh \in 2 .. MaxNodes + 1
  /\ op \in Map!Ops \cup {NoOp, Down}
  /\ pc \in {"split", "parent", "newroot", "parentslot", "link", "logcommit", "down"} \/ log = <<>>
  /\ \A c \in {mem.cache, mem.nvm} : \A n \in Nodes :
       /\ c[n][Slot(0)] \in Slots /\ c[n][BITMAP] \in Bitmaps
       /\ \A j \in 1 .. NODE_SIZE : c[n][Slot(j)] \in Entries
       /\ Leftmost(c, n) \in Nodes \cup {NULL} /\ Parent(c, n) \in Nodes \cup {NULL}

\* The one step that may not keep the map: power is lost while the log holds the
\* header of a parent, from its entry to the commit record (484-543, 364).
LostInOverrun == Overruns /\ op' = Down

\* Failure atomicity and durability with a slot array of many words: whatever
\* part of it replacements and flushes have put on the medium when power goes,
\* bit 0 tells a restart whether to read it, and the map a restart finds changes
\* in one step per operation, before the operation returns.  Splits included, but
\* for a loss of power while undoing the log would overwrite a parent's entries.
ImplementsDurableMap == Map!Init /\ [][Map!Next \/ LostInOverrun]_(Map!vars)

\* Between operations bitmap and slot array of every node name the same live
\* entries, in key order, through splits of leaves, inner nodes and roots and
\* restarts from a rollback or a rebuild; parent pointers lead where a later
\* split will look for them.
NodesAgree ==
  pc = "idle" =>
    \A n \in Tree :
      /\ Agree(Cached(n))
      /\ ~IsLeaf(mem.cache, n) => \A m \in Children(mem.cache, n) : Parent(mem.cache, m) = n

\* A range scan from any key returns the next keys the tree holds, in order and
\* none twice.
RangeInOrder ==
  pc = "idle" =>
    LET map == Content(mem.cache, root) IN
    \A start \in Keys :
      LET hits == {k \in Keys : k >= start /\ map[k] # NULL} IN
      \A num \in 1 .. Cardinality(hits) :
        LET got == Range_Lookup(mem.cache, root, start, num) IN
        /\ Len(got) = num
        /\ \A i \in 1 .. num : Cardinality({k \in hits : k < got[i].key}) = i - 1
                              /\ got[i].key \in hits /\ got[i].ptr = map[got[i].key]

\* When an operation has returned, a restart reads the slot arrays and bitmaps
\* the running program reads, whatever a delete has made of them.
DurableWhenIdle ==
  pc = "idle" => \A n \in Tree : \A w \in Entries \cup Header : mem.cache[n][w] = mem.nvm[n][w]

\* A key that was inserted and not deleted is found: the driver stops with
\* "There is no key" when one is not (main.c:76).
InsertedFound ==
  pc = "idle" => \A k \in keys : Lookup(Cached(LeafOf(k)), k) # NULL
=============================================================================
