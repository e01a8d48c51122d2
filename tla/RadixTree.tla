----------------------------- MODULE RadixTree -----------------------------
(***************************************************************************)
(* The write-atomic radix tree (space_solution/Default/Integer/art_d.c): a *)
(* radix tree in persistent memory whose every insert is made visible by   *)
(* one 8-byte store, the "delayed commit", after everything the store      *)
(* points to has been written and flushed.                                 *)
(*                                                                         *)
(* One action per step whose place in the order of write-backs matters; a  *)
(* store and the clflush of that same line are one step, since the line    *)
(* may be written back between the two anyway.  Power may be lost between  *)
(* any two steps and any dirty line may be written back at any time.       *)
(***************************************************************************)
EXTENDS PMem, Naturals, Sequences, FiniteSets

CONSTANTS META_NODE_SHIFT,   \* key bits one node resolves
          WORD_BITS,         \* bits of an unsigned long
          Keys, Values, NULL,
          MaxNodes,          \* bound: nodes ever allocated
          MaxLosses          \* bound: power losses

NUM_ENTRY == 2 ^ META_NODE_SHIFT
MaxHeight == (WORD_BITS + META_NODE_SHIFT - 1) \div META_NODE_SHIFT

ASSUME RadixAssumption ==
  /\ META_NODE_SHIFT \in Nat \ {0} /\ WORD_BITS \in Nat \ {0}
  /\ NUM_ENTRY \in Nat \ {0}   \* which follows, but TLAPS has no laws of powers
  /\ Keys \subseteq 0 .. 2 ^ WORD_BITS - 1
  /\ NULL \notin Nat
  /\ MaxNodes \in Nat \ {0} /\ MaxLosses \in Nat

VARIABLES mem,      \* PMem: the words of the nodes and the two tree structs
          t,        \* the tree struct the caller's handle names
          fresh,    \* next node allocNode returns
          op,       \* the operation in progress, as in DurableMap
          pc,       \* what it does next
          at,       \* its locals
          losses    \* power losses so far
vars == <<mem, t, fresh, op, pc, at, losses>>

-----------------------------------------------------------------------------
(* Memory: every word of a node is a line of its own (in the code eight of  *)
(* them share one, which only rules interleavings out); a tree struct is    *)
(* 16 bytes of one line.                                                    *)
Nodes      == 1 .. MaxNodes
Trees      == {1, 2}
PARENT_PTR == NUM_ENTRY
P_INDEX    == NUM_ENTRY + 1
Words(n)   == {n} \X (0 .. P_INDEX)
TreeLine(s) == <<0, s>>

\* Memory no one has written yet reads as zero.  Object 0 is the tree structs.
Blank == [o \in {0} \cup Nodes |->
            IF o = 0 THEN [s \in Trees |-> [root |-> NULL, height |-> 0]]
            ELSE [w \in 0 .. P_INDEX |-> IF w = P_INDEX THEN 0 ELSE NULL]]

\* Mutant: p_index is left at 0.
allocNode_NoIndex(n, parent, index) ==
  [l \in Words(n) |-> IF l[2] = PARENT_PTR THEN parent ELSE IF l[2] = P_INDEX THEN 0 ELSE NULL]

\* What calloc and the two assignments of allocNode leave in node n.
allocNode(n, parent, index) ==
  [l \in Words(n) |-> IF l[2] = PARENT_PTR THEN parent
                      ELSE IF l[2] = P_INDEX
                           THEN IF parent = NULL THEN 0 ELSE index
                           ELSE NULL]

Word(l, x) == [m \in {l} |-> x]
NoOp == [kind |-> "none", key |-> NULL, value |-> NULL]
Down == [kind |-> "down", key |-> NULL, value |-> NULL]
Idle == [node |-> NULL, key |-> 0, h |-> 0, slot |-> TreeLine(1), sub |-> NULL]

-----------------------------------------------------------------------------
(* Reading the tree that struct s heads, in c: the cache or the medium.     *)
Height(c, s) == c[0][s].height
Root(c, s)   == c[0][s].root
Span(h)      == 2 ^ (h * META_NODE_SHIFT)   \* keys below a node of height h
Index(key, h) == key \div Span(h - 1)
NextKey(key, h) == key % Span(h - 1)

\* Laws of powers again: true of any META_NODE_SHIFT and WORD_BITS.
ASSUME SpanAssumption ==
  /\ \A h \in 0 .. MaxHeight : Span(h) \in Nat \ {0}
  /\ \A h \in 0 .. MaxHeight - 1 : Span(h + 1) = NUM_ENTRY * Span(h)
  /\ 2 ^ WORD_BITS <= Span(MaxHeight)

\* The loops of Lookup, Update and Delete: the node of each height that they
\* reach for key from a node of the given height.
Walk(c, node, height, key) ==
  LET down[h \in 1 .. MaxHeight] ==
        IF h >= height THEN node
        ELSE IF down[h + 1] = NULL THEN NULL
             ELSE c[down[h + 1]][Index(key % Span(h + 1), h + 1)]
  IN  down

\* The node of height 1 where they end.
Leaf(c, s, key) == Walk(c, Root(c, s), Height(c, s), key)[1]

\* Keys past the tree's height index outside the node: Lookup must not be
\* asked for them, and to the map they are absent.
Lookup(c, s, key) ==
  IF key >= Span(Height(c, s)) \/ Leaf(c, s, key) = NULL THEN NULL
  ELSE c[Leaf(c, s, key)][Index(key % Span(1), 1)]

Content(c, s) == [k \in Keys |-> Lookup(c, s, k)]

\* Mutant: the test of blk_shift is missing.  A shift by the width of a word, or by
\* more, goes as far as the processor's count does, which is modulo the width.
NewHeight_ShiftByWidth(key, height) ==
  LET total_keys == key \div 2 ^ ((height * META_NODE_SHIFT) % WORD_BITS)
  IN  height + CHOOSE n \in 0 .. MaxHeight :
                 total_keys < Span(n) /\ \A m \in 0 .. n - 1 : total_keys >= Span(m)

\* The first loop of Insert: the height that makes room for key.  Once the
\* tree resolves every bit of a key there is nothing to grow (232), and no shift
\* is by the width of a word: below it they are what the formula says.
NewHeight(key, height) ==
  IF height * META_NODE_SHIFT >= WORD_BITS THEN height
  ELSE CHOOSE h \in height .. MaxHeight :
         key < Span(h) /\ \A g \in height .. h - 1 : key >= Span(g)

-----------------------------------------------------------------------------
Init == /\ mem = Formatted([Blank EXCEPT ![0][1] = [root |-> 1, height |-> 1]])
        /\ t = 1
        /\ fresh = 2
        /\ op = NoOp /\ pc = "idle" /\ at = Idle
        /\ losses = 0

\* Insert's entry: decide whether the tree must grow first.
Insert(key, value) ==
  /\ pc = "idle"
  /\ \/ fresh + 2 * MaxHeight <= MaxNodes + 1
     \/ key < Span(Height(mem.cache, t)) /\ Leaf(mem.cache, t, key) # NULL
  /\ op' = [kind |-> "Insert", key |-> key, value |-> value]
  /\ LET height == Height(mem.cache, t)
         new    == NewHeight(key, height) IN
       /\ pc' = IF new > height THEN "grow" ELSE "search"
       /\ at' = [Idle EXCEPT !.node = Root(mem.cache, t), !.key = key, !.h = height]
  /\ UNCHANGED <<mem, t, fresh, losses>>

\* One turn of the loop of increase_radix_tree_height.
GrowRoot ==
  /\ pc = "grow"
  /\ at.h < NewHeight(op.key, Height(mem.cache, t))
  /\ mem' = flush_buffer(
              Store(Store(Store(mem, allocNode(fresh, NULL, 0)),
                          Word(<<fresh, 0>>, at.node)),
                    Word(<<at.node, PARENT_PTR>>, fresh)),
              Words(at.node), FALSE)
  /\ fresh' = fresh + 1
  /\ at' = [at EXCEPT !.node = fresh, !.h = @ + 1]
  /\ UNCHANGED <<t, op, pc, losses>>

\* Its end, with CoW_Tree: a second tree struct heads the taller tree.
GrowTree ==
  /\ pc = "grow"
  /\ at.h = NewHeight(op.key, Height(mem.cache, t))
  /\ LET new == 3 - t IN
       /\ mem' = flush_buffer(
                   Store(flush_buffer(mem, Words(at.node), FALSE),
                         Word(TreeLine(new), [root |-> at.node, height |-> at.h])),
                   {TreeLine(new)}, FALSE)
       /\ at' = [at EXCEPT !.slot = TreeLine(new), !.sub = new]
  /\ pc' = "alloc"
  /\ UNCHANGED <<t, fresh, op, losses>>

\* Mutant: the recursion is given level_ptr and height again.
SearchInner_SameNode ==
  /\ pc = "search" /\ at.h > 1
  /\ mem.cache[at.node][Index(at.key, at.h)] # NULL
  /\ at' = at
  /\ UNCHANGED <<mem, t, fresh, op, pc, losses>>

\* recursive_search_leaf on its way down.
SearchInner ==
  /\ pc = "search" /\ at.h > 1
  /\ LET child == mem.cache[at.node][Index(at.key, at.h)] IN
       /\ child # NULL
       /\ at' = [at EXCEPT !.node = child, !.key = NextKey(@, at.h), !.h = @ - 1]
  /\ UNCHANGED <<mem, t, fresh, op, pc, losses>>

\* Its leaf case: the value is stored in place; the flush is Commit.
SearchLeaf ==
  /\ pc = "search" /\ at.h = 1
  /\ LET slot == <<at.node, Index(at.key, 1)>> IN
       /\ mem' = Store(mem, Word(slot, op.value))
       /\ at' = [at EXCEPT !.slot = slot]
  /\ pc' = "commit"
  /\ UNCHANGED <<t, fresh, op, losses>>

\* Its missing-child case: a subtree is built off line.
SearchMissing ==
  /\ pc = "search" /\ at.h > 1
  /\ LET slot == <<at.node, Index(at.key, at.h)>> IN
       /\ mem.cache[at.node][slot[2]] = NULL
       /\ mem' = Store(mem, allocNode(fresh, at.node, slot[2]))
       /\ at' = [node |-> fresh, key |-> NextKey(at.key, at.h), h |-> at.h - 1,
                 slot |-> slot, sub |-> fresh]
  /\ fresh' = fresh + 1
  /\ pc' = "alloc"
  /\ UNCHANGED <<t, op, losses>>

\* recursive_alloc_nodes above the leaves.  The entry it tests is NULL: the
\* node is new, or is a new root and key lies right of what the root adopted.
AllocInner ==
  /\ pc = "alloc" /\ at.h > 1
  /\ LET slot == <<at.node, Index(at.key, at.h)>> IN
       /\ mem' = flush_buffer(
                   Store(Store(mem, allocNode(fresh, at.node, slot[2])), Word(slot, fresh)),
                   Words(at.node), FALSE)
       /\ at' = [at EXCEPT !.node = fresh, !.key = NextKey(@, at.h), !.h = @ - 1]
  /\ fresh' = fresh + 1
  /\ UNCHANGED <<t, op, pc, losses>>

\* Mutant: the leaf is not flushed before it is published.
AllocLeaf_NoFlush ==
  /\ pc = "alloc" /\ at.h = 1
  /\ mem' = Store(mem, Word(<<at.node, Index(at.key, 1)>>, op.value))
  /\ pc' = "publish"
  /\ UNCHANGED <<t, fresh, op, at, losses>>

\* recursive_alloc_nodes at a leaf.
AllocLeaf ==
  /\ pc = "alloc" /\ at.h = 1
  /\ mem' = flush_buffer(Store(mem, Word(<<at.node, Index(at.key, 1)>>, op.value)),
                         Words(at.node), FALSE)
  /\ pc' = "publish"
  /\ UNCHANGED <<t, fresh, op, at, losses>>

\* The delayed commit: one store makes the subtree, or the taller tree,
\* reachable.  A tree is published in the caller's handle, a local variable of
\* the driver: the model lets a restart begin from the handle's last value.
Publish ==
  /\ pc = "publish"
  /\ IF at.slot[1] = 0
       THEN t' = at.sub /\ UNCHANGED mem
       ELSE mem' = Store(mem, Word(at.slot, at.sub)) /\ UNCHANGED t
  /\ pc' = "commit"
  /\ UNCHANGED <<fresh, op, at, losses>>

\* Mutant: the flush an operation ends with is forgotten.
Commit_NoFlush ==
  /\ pc = "commit"
  /\ mem' = Mfence(mem)
  /\ pc' = "return"
  /\ UNCHANGED <<t, fresh, op, at, losses>>

\* The fenced flush every operation ends with.  (After a growth the superseded
\* tree struct is freed next.)
Commit ==
  /\ pc = "commit"
  /\ mem' = flush_buffer(mem, {at.slot}, TRUE)
  /\ pc' = "return"
  /\ UNCHANGED <<t, fresh, op, at, losses>>

Return ==
  /\ pc = "return"
  /\ op' = NoOp /\ pc' = "idle" /\ at' = Idle
  /\ UNCHANGED <<mem, t, fresh, losses>>

\* Update and Delete overwrite the entry of a key's leaf in place.  Their
\* callers pass keys they inserted: Delete follows the path without looking.
Overwrite(kind, key, value) ==
  /\ pc = "idle"
  /\ Lookup(mem.cache, t, key) # NULL
  /\ op' = [kind |-> kind, key |-> key, value |-> value]
  /\ LET slot == <<Leaf(mem.cache, t, key), Index(key % Span(1), 1)>> IN
       /\ mem' = Store(mem, Word(slot, value))
       /\ at' = [Idle EXCEPT !.slot = slot]
  /\ pc' = "commit"
  /\ UNCHANGED <<t, fresh, losses>>

Update(key, value) == Overwrite("Update", key, value)
Delete(key)        == Overwrite("Delete", key, NULL)

-----------------------------------------------------------------------------
(* The environment *)
Evict == /\ \E l \in Dirty(mem) : mem' = WriteBack(mem, {l})
         /\ UNCHANGED <<t, fresh, op, pc, at, losses>>

PowerLost == /\ losses < MaxLosses /\ pc # "down"
             /\ mem' = PowerLoss(mem)
             /\ op' = Down /\ pc' = "down" /\ at' = Idle
             /\ losses' = losses + 1
             /\ UNCHANGED <<t, fresh>>

\* No recovery code exists or is needed: the tree is used as it is found.
Restart == /\ pc = "down"
           /\ op' = NoOp /\ pc' = "idle"
           /\ UNCHANGED <<mem, t, fresh, at, losses>>

Step == \/ GrowRoot \/ GrowTree \/ SearchInner \/ SearchLeaf \/ SearchMissing
        \/ AllocInner \/ AllocLeaf \/ Publish \/ Commit \/ Return
        \/ Restart

Next == \/ \E k \in Keys, v \in Values : Insert(k, v) \/ Update(k, v)
        \/ \E k \in Keys : Delete(k)
        \/ Step \/ Evict \/ PowerLost

Spec == Init /\ [][Next]_vars /\ WF_vars(Step)

-----------------------------------------------------------------------------
(* Properties *)

\* The abstract map this tree implements: the content of the medium.
Map == INSTANCE DurableMap WITH kv <- Content(mem.nvm, t)

\* The memory, the locals and the control state have the shapes the C types
\* and the call structure give them.
TypeOK ==
  /\ t \in Trees /\ fresh \in 2 .. MaxNodes + 1 /\ losses \in 0 .. MaxLosses
  /\ pc \in {"idle", "grow", "search", "alloc", "publish", "commit", "return", "down"}
  /\ op \in Map!Ops \cup {NoOp, Down}
  /\ (pc = "idle") = (op = NoOp) /\ (pc = "down") = (op = Down)
  /\ \A c \in {mem.cache, mem.nvm} :
       /\ \A s \in Trees : Root(c, s) \in Nodes \cup {NULL} /\ Height(c, s) \in 0 .. MaxHeight
       /\ \A n \in Nodes : c[n][P_INDEX] \in 0 .. NUM_ENTRY - 1
       /\ \A n \in Nodes : c[n][PARENT_PTR] \in Nodes \cup {NULL}

\* Failure atomicity and durability: what a restart would find in the medium
\* changes only as the operation in progress would change it, in one step, and
\* no operation returns before its effect is there (delayed commit, 196 and
\* 250, with the fenced flushes 187, 206, 264, 300 and 462).
ImplementsDurableMap == Map!Spec

\* A call ends: with no power loss the loops of growth and descent terminate.
Returns == (pc = "search" \/ pc = "grow") ~> pc \in {"idle", "down"}

\* Every fenced return leaves nothing of the live tree in the cache alone, even
\* where clflush is ordered by mfence only.
DurableWhenIdle == pc = "idle" => Content(mem.nvm, t) = Content(mem.cache, t)
=============================================================================
