------------------------------ MODULE SlotTree ------------------------------
(***************************************************************************)
(* The slot-only wB+tree (wb+tree/slot_only/wbtree.c) in persistent memory *)
(* that may lose power.  An insert into a leaf with room, an update and a  *)
(* delete become visible by one 8-byte store; a split changes live nodes   *)
(* in place and keeps their old content in the undo log until its commit   *)
(* record is written.                                                      *)
(*                                                                         *)
(* One action per step whose place in the order of write-backs matters.    *)
(* Stores to lines the open log already covers, and to nodes nothing       *)
(* points to yet, are gathered in one step.                                *)
(***************************************************************************)
EXTENDS PMem, SlotNode, Sequences, TLC

CONSTANTS Keys, Values,
          Inserts, Updates,  \* the calls made: pairs of a key and a value
          MaxNodes,    \* bound: nodes ever allocated
          Evictions,   \* whether dirty lines may be replaced (only the medium can tell)
          MaxChanges,  \* bound: updates and deletes
          MaxLosses    \* bound: power losses

ASSUME SlotTreeAssumption ==
  /\ Keys \subseteq Nat \ {0} /\ MaxNodes \in Nat \ {0}
  /\ Evictions \in BOOLEAN /\ MaxChanges \in Nat /\ MaxLosses \in Nat
  /\ Inserts \cup Updates \subseteq Keys \X Values

VARIABLES mem,     \* PMem: the words of the nodes
          root,    \* t->root
          fresh,   \* next node allocNode returns
          log,     \* undo log of the open transaction: node -> word -> old content
          changes, \* updates and deletes so far
          op,      \* the operation in progress, as in DurableMap
          pc,      \* what it does next
          at,      \* its locals
          losses   \* power losses so far
vars == <<mem, root, fresh, log, changes, op, pc, at, losses>>

-----------------------------------------------------------------------------
(* Memory: each entry, the slot word, and the words behind the entries.     *)
Nodes     == 1 .. MaxNodes
SLOT      == NODE_SIZE
LEFTMOST  == NODE_SIZE + 1    \* leftmost child; in a leaf, the next leaf
PARENT    == NODE_SIZE + 2
ISLEAF    == NODE_SIZE + 3
Words(n)  == {n} \X (0 .. ISLEAF)

\* Node n as SlotNode sees it, in c: the cache or the medium; and back.
Node(c, n) == [slot |-> c[n][SLOT], ent |-> c[n]]
EntryWords(n, nd) ==
  [l \in {n} \X (Entries \cup {SLOT}) |-> IF l[2] = SLOT THEN nd.slot ELSE nd.ent[l[2]]]
Word(l, x) == [m \in {l} |-> x]
SlotWord(n) == <<n, SLOT>>

\* A node's words: allocNode (the pointers are what malloc left; the model
\* has them NULL) with the fields its caller sets before it is reachable.
NewNode(n, nd, leftmost, parent, isleaf) ==
  [l \in Words(n) |-> IF l[2] = LEFTMOST THEN leftmost
                      ELSE IF l[2] = PARENT THEN parent
                      ELSE IF l[2] = ISLEAF THEN isleaf
                      ELSE EntryWords(n, nd)[l]]

NoOp   == [kind |-> "none", key |-> NULL, value |-> NULL]
Down   == [kind |-> "down", key |-> NULL, value |-> NULL]
\* Insert's leaf and the node it split off; insert_in_parent's arguments; the
\* line an operation ends with flushing.
NoLocals == [line |-> NULL, leaf |-> NULL, right |-> NULL, curr |-> NULL, key |-> NULL, split |-> NULL]
NoLog  == <<>>

\* F(e), with e computed once.
With(e, F(_)) == CHOOSE y \in {F(x) : x \in {e}} : TRUE

-----------------------------------------------------------------------------
(* Reading the tree under node r in c. *)
Leftmost(c, n) == c[n][LEFTMOST]
Parent(c, n)   == c[n][PARENT]
IsLeaf(c, n)   == c[n][ISLEAF] = 1

find_leaf_node(c, r, key) ==
  LET down[n \in Nodes] ==
        IF IsLeaf(c, n) THEN n
        ELSE down[With(ChildSlot(Node(c, n), key), LAMBDA loc :
                    IF loc = 0 THEN Leftmost(c, n) ELSE Ptr(Node(c, n), loc))]
  IN  down[r]

\* Levels of nodes: a split allocates at most one per level and a new root.
Levels(c, r) ==
  LET above[n \in Nodes] == IF IsLeaf(c, n) THEN 1 ELSE 1 + above[Leftmost(c, n)]
  IN  above[r]

\* The children a search can descend to.  The leftmostPtr of an inner node that
\* a split made is never assigned: no key below its first entry leads there.
Children(c, n) == ({Leftmost(c, n)} \ {NULL}) \cup {e.ptr : e \in Stored(Node(c, n))}
Below(c, r) ==
  LET under[n \in Nodes] ==
        {n} \cup IF IsLeaf(c, n) THEN {} ELSE UNION {under[m] : m \in Children(c, n)}
  IN  under[r]
Tree == Below(mem.cache, root)

\* The entries whose pointers Range_Lookup reads, from the place of start on and
\* along the leaves, until num are read or the leaves end.
Range_Lookup(c, r, start, num) ==
  LET scan[n \in Nodes, i \in 1 .. NODE_SIZE + 1, need \in 1 .. num] ==
        LET nd    == Node(c, n)
            found == [j \in 1 .. Max({Count(nd) - i + 1, 0}) |-> nd.ent[nd.slot[i + j - 1]]]
        IN  IF Len(found) >= need THEN SubSeq(found, 1, need)
            ELSE IF Leftmost(c, n) = NULL THEN found
                 ELSE found \o scan[Leftmost(c, n), 1, need - Len(found)]
      leaf == find_leaf_node(c, r, start)
  IN  scan[leaf, Search(Node(c, leaf), start), num]

\* The map a scan of c finds: what Range_Lookup from k reads first, when that is
\* k.  Lookup reads the same but in an emptied leaf (AllFound).
Content(c, r) ==
  [k \in Keys |-> With(Range_Lookup(c, r, k, 1), LAMBDA got :
                      IF got # <<>> /\ got[1].key = k THEN got[1].ptr ELSE NULL)]

\* The medium with the open transaction undone.  (The repository writes the
\* log and has no code that reads it back: this is what it is written for.)
Recovered == [n \in DOMAIN log |-> log[n] @@ mem.nvm[n]] @@ mem.nvm
RecoveredContent == With(Recovered, LAMBDA c : Content(c, root))

\* What callers know of their own calls: key was inserted and not deleted since.
Present(key) == Content(mem.cache, root)[key] # NULL
LeafOf(key)  == find_leaf_node(mem.cache, root, key)
SlotOf(key)  == Search(Node(mem.cache, LeafOf(key)), key)

-----------------------------------------------------------------------------
\* add_log_entry of the words W of node n, flushed before it returns (UndoLog
\* has the ring it goes into).  The oldest entry of a word is the one that counts.
Log(lg, n, W) ==
  LET old == [w \in W |-> mem.cache[n][w]]
  IN  (n :> IF n \in DOMAIN lg THEN lg[n] @@ old ELSE old) @@ lg

\* Mutant: the log stops short of the pointers behind the entries.
WholeNode_NoPointers == 0 .. SLOT

\* What logging sizeof(node) bytes covers.
WholeNode == 0 .. ISLEAF

\* Mutant: the old parent pointers of the children are not logged.
LogChildren_None(lg, moved) == lg

\* Each child that is given a new parent has its old parent pointer logged.
LogChildren(lg, moved) == [m \in moved |-> Log(lg, m, {PARENT})[m]] @@ lg

\* Mutant: one entry more than fits.
HasRoom_OneMore(nd) == Count(nd) <= NODE_SIZE

HasRoom(nd) == Count(nd) < NODE_SIZE

\* The half of a split parent a new child with the given first key goes to.
Half(p, up, upper, key) == IF Key(upper, 1) > key THEN p ELSE up

Init == /\ mem = Formatted([n \in Nodes |-> [w \in 0 .. ISLEAF |->
                   IF w \in Entries THEN NoEntry
                   ELSE IF w = SLOT THEN EmptyNode.slot
                   ELSE IF w = ISLEAF /\ n = 1 THEN 1 ELSE NULL]])
        /\ root = 1 /\ fresh = 2
        /\ log = NoLog /\ changes = 0
        /\ op = NoOp /\ pc = "idle" /\ at = NoLocals
        /\ losses = 0

\* Insert into a leaf with room: insert_in_leaf up to the flush of the entry.
\* Callers insert keys the tree does not hold: a second entry would be made.
InsertEntry(key, value) ==
  /\ pc = "idle" /\ ~Present(key)
  /\ LET n == LeafOf(key) IN
       /\ HasRoom(Node(mem.cache, n))
       /\ LET w == EntryWords(n, Appended(Node(mem.cache, n), key, value)) IN
            mem' = flush_buffer(Store(mem, w), {<<n, missingMin(Node(mem.cache, n))>>}, FALSE)
       /\ at' = [NoLocals EXCEPT !.leaf = n, !.line = SlotWord(n)]
  /\ op' = [kind |-> "Insert", key |-> key, value |-> value]
  /\ pc' = "slot"
  /\ UNCHANGED <<root, changes, fresh, log, losses>>

\* Its slot word, copied from temp[] in one store.
InsertSlot ==
  /\ pc = "slot"
  /\ mem' = Store(mem, Word(SlotWord(at.leaf),
                            LET nd == Node(mem.cache, at.leaf)
                            IN Inserted(nd, op.key, op.value).slot))
  /\ pc' = "commit"
  /\ UNCHANGED <<root, changes, fresh, log, op, at, losses>>

\* Insert into a full leaf: the whole node is logged first.
InsertSplit(key, value) ==
  /\ pc = "idle" /\ ~Present(key)
  /\ Count(Node(mem.cache, LeafOf(key))) = NODE_SIZE
  /\ fresh + Levels(mem.cache, root) <= MaxNodes
  /\ log' = Log(log, LeafOf(key), WholeNode)
  /\ at' = [NoLocals EXCEPT !.leaf = LeafOf(key)]
  /\ op' = [kind |-> "Insert", key |-> key, value |-> value]
  /\ pc' = "split"
  /\ UNCHANGED <<mem, root, changes, fresh, losses>>

\* The new leaf takes the upper entries and the new entry goes to its side; a
\* new entry of the old leaf is flushed, the rest is left to the end.
SplitLeaf ==
  /\ pc = "split"
  /\ LET n     == at.leaf
         parts == Split(Node(mem.cache, n), op.key, op.value)
         split == fresh
         stored == Store(Store(mem, NewNode(split, parts.right, Leftmost(mem.cache, n), NULL, 1)),
                         EntryWords(n, parts.left)) IN
       /\ mem' = flush_buffer(stored, {<<n, i>> : i \in Entries}, FALSE)
       /\ at' = [at EXCEPT !.right = split, !.curr = n, !.key = Key(parts.right, 1), !.split = split]
  /\ fresh' = fresh + 1
  /\ pc' = "parent"
  /\ UNCHANGED <<root, changes, log, op, losses>>

\* insert_in_parent at the root: a new root over curr and splitNode.
SplitRoot ==
  /\ pc = "parent" /\ at.curr = root
  /\ LET nd == [EmptyNode EXCEPT !.slot[0] = 1, !.ent[0] = [key |-> at.key, ptr |-> at.split]]
         built == Store(Store(mem, NewNode(fresh, nd, at.curr, NULL, 0)),
                        Word(<<at.split, PARENT>>, fresh))
         flushed == flush_buffer(built, Words(fresh) \cup Words(at.split), FALSE) IN
       mem' = flush_buffer(Store(flushed, Word(<<at.curr, PARENT>>, fresh)),
                           {<<at.curr, PARENT>>}, FALSE)
  /\ pc' = "newroot"
  /\ UNCHANGED <<root, changes, fresh, log, op, at, losses>>

\* t->root = root; neither logged nor flushed.
NewRoot ==
  /\ pc = "newroot"
  /\ root' = fresh /\ fresh' = fresh + 1
  /\ pc' = "link"
  /\ UNCHANGED <<changes, mem, log, op, at, losses>>

\* insert_in_parent with room in the parent: its slot word is logged, then the
\* entry and the new child are flushed ...
ParentEntry ==
  /\ pc = "parent" /\ at.curr # root
  /\ LET p == Parent(mem.cache, at.curr)
         nd == Node(mem.cache, p) IN
       /\ HasRoom(nd)
       /\ log' = Log(log, p, {SLOT})
       /\ mem' = flush_buffer(
                   Store(Store(mem, EntryWords(p, Appended(nd, at.key, at.split))),
                         Word(<<at.split, PARENT>>, p)),
                   Words(at.split) \cup {<<p, missingMin(nd)>>}, FALSE)
  /\ pc' = "parentslot"
  /\ UNCHANGED <<root, changes, fresh, op, at, losses>>

\* ... and then the slot word.
ParentSlot ==
  /\ pc = "parentslot"
  /\ LET p == Parent(mem.cache, at.curr) IN
       mem' = flush_buffer(
                Store(mem, EntryWords(p, Inserted(Node(mem.cache, p), at.key, at.split))),
                {SlotWord(p)}, FALSE)
  /\ pc' = "link"
  /\ UNCHANGED <<root, changes, fresh, log, op, at, losses>>

\* insert_in_parent with a full parent: the parent is split in turn, under the
\* log, and its upper half goes up.  (Each child's old parent pointer is logged
\* just before it is replaced; no reader of the tree looks at it.)
SplitParent ==
  /\ pc = "parent" /\ at.curr # root
  /\ LET p     == Parent(mem.cache, at.curr)
         nd    == Node(mem.cache, p)
         up    == fresh
         parts == Split(nd, at.key, at.split)
         moved == {e.ptr : e \in Stored(UpperHalf(nd))}
         links == {<<m, PARENT>> : m \in moved}
         home  == Half(p, up, UpperHalf(nd), at.key)
         stores == Store(Store(Store(Store(mem, NewNode(up, parts.right, NULL, NULL, 0)),
                                     [l \in links |-> up]),
                               Word(<<at.split, PARENT>>, home)),
                         EntryWords(p, parts.left)) IN
       /\ Count(nd) = NODE_SIZE
       /\ log' = LogChildren(Log(log, p, WholeNode), moved)
       /\ mem' = flush_buffer(stores, links \cup Words(at.split) \cup
                                      {<<p, i>> : i \in Entries \cup {SLOT}}, FALSE)
       /\ at' = [at EXCEPT !.curr = p, !.key = Key(parts.right, 1), !.split = up]
  /\ fresh' = fresh + 1
  /\ UNCHANGED <<root, changes, pc, op, losses>>

\* Mutant: the slot word of the old leaf is left in the cache.
LinkLeaf_NoSlotFlush ==
  /\ pc = "link"
  /\ mem' = flush_buffer(Store(mem, Word(<<at.leaf, LEFTMOST>>, at.right)),
                         {<<at.leaf, LEFTMOST>>}, FALSE)
  /\ pc' = "logcommit"
  /\ UNCHANGED <<root, changes, fresh, log, op, at, losses>>

\* Back in Insert: the old leaf points to the new one and its slot word, stored
\* at the start, is flushed.
LinkLeaf ==
  /\ pc = "link"
  /\ mem' = flush_buffer(Store(mem, Word(<<at.leaf, LEFTMOST>>, at.right)),
                         {SlotWord(at.leaf), <<at.leaf, LEFTMOST>>}, FALSE)
  /\ pc' = "logcommit"
  /\ UNCHANGED <<root, changes, fresh, log, op, at, losses>>

\* add_log_entry(t, NULL, 0, LE_COMMIT), flushed with fences.
LogCommit ==
  /\ pc = "logcommit"
  /\ log' = NoLog
  /\ mem' = Mfence(mem)
  /\ pc' = "return"
  /\ UNCHANGED <<root, changes, fresh, op, at, losses>>

\* Update stores the pointer of an entry in place, delete_in_leaf a slot word
\* without it; their callers pass keys the tree holds.
Update(key, value) ==
  /\ pc = "idle" /\ Present(key) /\ changes < MaxChanges
  /\ LET n == LeafOf(key)
         i == Node(mem.cache, n).slot[SlotOf(key)] IN
       /\ mem' = Store(mem, Word(<<n, i>>, [key |-> key, ptr |-> value]))
       /\ at' = [NoLocals EXCEPT !.line = <<n, i>>]
  /\ op' = [kind |-> "Update", key |-> key, value |-> value]
  /\ changes' = changes + 1
  /\ pc' = "commit"
  /\ UNCHANGED <<root, fresh, log, losses>>

Delete(key) ==
  /\ pc = "idle" /\ Present(key) /\ changes < MaxChanges
  /\ LET n == LeafOf(key) IN
       /\ mem' = Store(mem, Word(SlotWord(n), Deleted(Node(mem.cache, n), key).slot))
       /\ at' = [NoLocals EXCEPT !.line = SlotWord(n)]
  /\ op' = [kind |-> "Delete", key |-> key, value |-> NULL]
  /\ changes' = changes + 1
  /\ pc' = "commit"
  /\ UNCHANGED <<root, fresh, log, losses>>

\* The fenced flush of 8 bytes that insert_in_leaf, Update and delete_in_leaf
\* end with.
Commit ==
  /\ pc = "commit"
  /\ mem' = flush_buffer(mem, {at.line}, TRUE)
  /\ pc' = "return"
  /\ UNCHANGED <<root, changes, fresh, log, op, at, losses>>

Return ==
  /\ pc = "return"
  /\ op' = NoOp /\ pc' = "idle" /\ at' = NoLocals
  /\ UNCHANGED <<mem, root, changes, fresh, log, losses>>

-----------------------------------------------------------------------------
(* The environment *)
\* A dirty line is written back.  Only lines of nodes in the tree are tried: those
\* of a node that is still private could as well be written back once it is not.
Evict == /\ Evictions
         /\ \E l \in Dirty(mem) : l[1] \in Tree /\ mem' = WriteBack(mem, {l})
         /\ UNCHANGED <<root, changes, fresh, log, op, pc, at, losses>>

PowerLost == /\ losses < MaxLosses /\ pc # "down"
             /\ mem' = PowerLoss(mem)
             /\ op' = Down /\ pc' = "down" /\ at' = NoLocals
             /\ losses' = losses + 1
             /\ UNCHANGED <<root, changes, fresh, log>>

\* The open transaction is rolled back and the tree used as it is.  Not after
\* a root split that did not commit: nothing logs t->root, and the old root is
\* rolled back to having no parent.
Restart == /\ pc = "down"
           /\ ~IsLeaf(Recovered, root) =>
                Parent(Recovered, Leftmost(Recovered, root)) = root
           /\ mem' = Formatted(Recovered)
           /\ log' = NoLog
           /\ op' = NoOp /\ pc' = "idle"
           /\ UNCHANGED <<root, changes, fresh, at, losses>>

Next == \/ \E c \in Inserts : InsertEntry(c[1], c[2]) \/ InsertSplit(c[1], c[2])
        \/ \E c \in Updates : Update(c[1], c[2])
        \/ \E k \in Keys : Delete(k)
        \/ InsertSlot \/ SplitLeaf \/ SplitRoot \/ NewRoot \/ ParentEntry \/ ParentSlot
        \/ SplitParent \/ LinkLeaf \/ LogCommit \/ Commit \/ Return
        \/ Evict \/ PowerLost \/ Restart

Spec == Init /\ [][Next]_vars

-----------------------------------------------------------------------------
(* Properties *)

\* The abstract map this tree implements: what a rollback would leave.
Map == INSTANCE DurableMap WITH kv <- RecoveredContent

\* Words and locals have the shapes of their C types; the log is open only
\* during a split.
TypeOK ==
  /\ root \in Nodes /\ fresh \in 2 .. MaxNodes + 1 /\ losses \in 0 .. MaxLosses
  /\ op \in Map!Ops \cup {NoOp, Down}
  /\ DOMAIN log \subseteq Nodes
  /\ pc \in {"split", "parent", "newroot", "parentslot", "link", "logcommit", "down"}
       \/ log = NoLog
  /\ \A c \in {mem.cache, mem.nvm} : \A n \in Nodes :
       /\ c[n][SLOT] \in [Slots -> Slots]
       /\ Leftmost(c, n) \in Nodes \cup {NULL} /\ Parent(c, n) \in Nodes \cup {NULL}

\* Failure atomicity and durability through in-place splits: the map found after
\* a rollback changes in one step per operation, and no operation returns before.
ImplementsDurableMap == Map!Spec

\* Every node is searchable and the parent pointer that a later split follows
\* leads to the node that holds the child, at every level, after splits of
\* leaves, inner nodes and roots, deletions, and restarts from a rollback.
NodesSound ==
  pc = "idle" =>
    \A n \in Tree :
      /\ WellFormed(Node(mem.cache, n))
      /\ ~IsLeaf(mem.cache, n) =>
           \A m \in Children(mem.cache, n) : Parent(mem.cache, m) = n

\* Lookup agrees with the slot words: it finds each stored entry of each leaf, so
\* that no split leaves a key on the wrong side of a separator, and finds no key
\* that a leaf it descends to does not hold, unless that leaf was emptied.
AllFound ==
  pc = "idle" =>
    /\ \A n \in {m \in Tree : IsLeaf(mem.cache, m)} : \A e \in Stored(Node(mem.cache, n)) :
         Lookup(Node(mem.cache, LeafOf(e.key)), e.key) = e.ptr
    /\ \A k \in Keys :
         LET nd == Node(mem.cache, LeafOf(k)) IN
         Count(nd) > 0 => Lookup(nd, k) = Content(mem.cache, root)[k]

\* A range scan from any key returns the next keys the tree holds, in order and
\* none twice: splits keep the chain of leaves whole, emptied leaves included.
RangeInOrder ==
  pc = "idle" =>
    LET map == Content(mem.cache, root) IN
    \A start \in Keys :
      LET hits == {k \in Keys : k >= start /\ map[k] # NULL} IN
      \A num \in 1 .. Cardinality(hits) :
        LET got == Range_Lookup(mem.cache, root, start, num) IN
        /\ Len(got) = num
        /\ \A i \in 1 .. num : Cardinality({k \in hits : k < got[i].key}) = i - 1
                              /\ got[i].key \in hits /\ got[i].ptr = map[got[i].key]
=============================================================================
