# Persistent-memory indexes, specified and checked

This directory holds TLA+ specifications of the index structures of this
repository: search trees that live in persistent memory, written with ordinary
stores and pushed to the medium with `clflush` and `mfence`.  A program that
crashes reads, at its next start, whatever the medium then holds.  What makes
such a tree right is therefore not only its algorithm but the order in which
its stores reach the medium, and that order is partly the cache's own choice.
No test of the repository crashes anything.  These models do, between any two
steps.

Everything here is sequential: one thread, no locks, no messages.  The only
other actors are the cache, which may write a dirty line back at any time, and
the power supply.

## 1. Inventory

| Component | Source | State | Operations | Modelled |
|---|---|---|---|---|
| Cache, medium, `flush_buffer` | every `.c` file, e.g. `space_solution/Default/Integer/art_d.c` 34-58 | lines in the cache, on the medium, on their way | store, flush with and without fence; replacement; power loss | `PMem` |
| Write-atomic radix tree (*Default*) | `write_atomic_radix_tree/space_solution/Default/Integer/art_d.c` | tree struct (root, height); nodes: entries, parent pointer, index in parent | Insert (with growth), Update, Delete, Lookup, Range_Lookup | `RadixTree`, `RadixRange` |
| Slot-only wB+tree | `wb+tree/slot_only/wbtree.c` | nodes: 8-byte slot word, unsorted entries, leftmost child or next leaf, parent | Insert (with leaf, inner and root split), Update, Delete, Lookup, Range_Lookup | `SlotNode`, `SlotLeaf`, `SlotTree` |
| Undo log | `add_log_entry` of the same file (76-132), copied in `bitmap_slot` and `FPTree` | ring of 64-byte entries, next offset | log an object, log a commit | `UndoLog` |
| wB+tree with bitmap and slot array | `wb+tree/bitmap_slot/{Integer,String}` | bitmap with one "slot array valid" bit, slot array of several words, entries, leftmost child or next leaf, parent | as slot-only | `BitmapNode`, `BitmapTree` (Integer) |
| FPTree | `FPTree/{Integer,String}` | unsorted leaves: bitmap, fingerprints, entries, next leaf; sorted volatile inner nodes | Insert, Update, Lookup, Range_Lookup (Delete is commented out) | `FPTree` (Integer) |
| NV-Tree | `NV_tree/{Integer,String}` | append-only leaves of (flag, key, value); parents of leaves; an array of inner nodes rebuilt as a whole | Insert, Update, Delete, Lookup, Range_Lookup, reconstruction | `NVLeaf`, `NVTree` (Integer) |
| Radix tree with lazy expansion and path compression | `space_solution/lazy_path/Pessimistic_Optimistic` (`art_lp.c`), `lazy_path/Optimistic` (`art_lpo.c`) | nodes with the digits of their path, or its length; leaves at any height | art_insert in four cases, art_search (Delete is commented out) | `ArtKeys`, `LazyPathTree` (Integer) |
| Adaptive radix tree PART | `space_solution/lazy_path_node/Persistent_ART/Order_8/flush/Integer` | nodes of 4, 16, 48 and 256 children with four different commit words | art_insert with growth, art_search, Range_Lookup | `PartNode`, `PersistentART` |
| Siblings of PART | `Order_7`, `Order_8/flush/{String,addition}`, `lazy_path_node/Integer`, `ART/ART_c` | as PART, other layouts and commit words | as PART | no |
| Lazy expansion alone | `space_solution/lazy/Integer/art_l.c` | as *Default* with leaves at any height | as *Default* | no |
| Earlier radix trees | `write_atomic_radix_tree/{original,multi_level,pptr_sptr,range_optimized,...}` | as *Default* | Insert, Lookup | no: superseded by *Default* |
| ART in C++, libart, bsnam, csb+, stx-btree, linux_btree | same directories | volatile | baselines of the evaluation | no: third-party |
| Drivers, measurements | `main.c` everywhere, `etc`, `evaluation_binary` | none | insert N keys, look each up, scan from the smallest, update each | read for how the trees are called |

How they interact.  A tree calls `flush_buffer` after its stores; the slot-only
tree, the bitmap tree and the FPTree call `add_log_entry` before a split changes
a live node; the driver holds the
handle of a tree in a local variable and calls one operation after another.
There are no callbacks.  The log is only ever written: no code of the
repository reads it back after a crash, and the radix trees need none.

What is hard here:

* **Failure atomicity.** An operation is many stores, of which any subset may
  be on the medium when power fails.  One 8-byte store must decide (the
  delayed commit of the radix tree, the slot word or bitmap of the wB+trees, the
  one pointer of the path-compressed trees, four different words of PART), or
  the undo log must.
* **Durability at return.** Most flushes are unfenced and lean on a later
  fence.
* **Leftovers.** A crash leaves half-done work that is never cleaned: stale
  parent pointers in a radix tree that did not get to grow, nodes no one points
  to.  Deletion leaves entries no slot names and leaves that are empty.  Later
  operations run over all of it.
* **Structure.** Splits over several levels, parent pointers and numbers
  maintained by hand, inner nodes addressed by arithmetic, a free-slot search by
  XOR, prefixes shortened by one digit more than they share, nodes copied from
  one layout's numbering to the next, a ring whose wrap test is missing in one
  place on purpose or by luck.
* **Memory given back.** The copying trees free the node they replaced; the
  medium may still lead to it.

What would make each component right: for all indexes, that they implement one
abstract map (section 2); for the trees, besides, that every stored key is
found, that a range scan returns the next keys in order, and that the pointers
a later split relies on lead where they should; for the log, that writes stay
in the area, that no open entry is overwritten, and that undoing the open
entries restores what was there.

`PROJECT.json` lists the hazards one by one with their lines and the property
that covers each.

## 2. The modules

    PMem            cache over persistent memory, flush_buffer
      PMem_proofs     what stores, flushes and fences do to dirty lines
    DurableMap      abstract specification: an atomic durable map
    RadixTree       radix tree on PMem, implements DurableMap
      RadixRange      its range scan
        MCRadixTree     TLC instance
      RadixTree_proofs
    SlotNode        one node of the slot-only tree: pure operators
      SlotLeaf        a node of the real size, on its own
        SlotLeaf_proofs
      SlotTree        the tree on PMem with its log, implements DurableMap
        MCSlotTree      TLC instance
    BitmapNode      one node of the bitmap tree: pure operators
      BitmapTree      the tree on PMem with its log, implements DurableMap
        MCBitmapTree    TLC instances
        BitmapTree_proofs
    FPTree          the FPTree on PMem with its log, implements DurableMap
        MCFPTree        TLC instance
        FPTree_proofs
    NVLeaf          the log in a leaf of the NV-tree: pure operators
      NVTree          the NV-tree
    ArtKeys         digits and prefixes of keys
      LazyPathTree    both path-compressed trees, implements DurableMap
        MCLazyPath      TLC instance
        LazyPath_proofs
      PartNode        the four node layouts of PART: pure operators
        PersistentART   PART on PMem, implements DurableMap
          MCPersistentART TLC instance
          PersistentART_proofs, on the lemmas of LazyPath_proofs
    UndoLog         the ring of undo entries
      MCUndoLog       TLC instance
      UndoLog_proofs

### PMem

A memory is a record of what the program reads (`cache`), what has reached the
medium (`nvm`) and which lines have a `clflush` under way (`pend`).  Memory is
cut into objects (nodes) and words; a line is a pair of the two.  The unit of
write-back in the models is one word or less than a real line, so the models
allow every partial write-back the machine allows and more.

`ClflushOrdered` chooses between two readings of the processor manual.  TRUE:
`clflush` is ordered with later stores, so that a flush is complete before the
next store, as on current processors.  FALSE: only `mfence` completes it.
Under the second reading the models assume that no store hits a line between
its flush and the fence.

### DurableMap

State: `kv`, the map a restart would find; `op`, the call in progress.  A call
begins, takes effect on `kv` in one step, and returns; power may fail at any
moment and the map stays what it is.  A call cannot return before its effect is
in `kv`.  So this says atomicity *and* durability.

Six modules implement it, each with its own reading of what a restart finds:

* `RadixTree`, `LazyPathTree`, `PersistentART`: what a lookup would answer from
  the *medium* alone;
* `SlotTree`: the same after the open transaction of the log is undone;
* `BitmapTree`: after that, and after the slot array of every node whose bitmap
  calls it invalid is rebuilt from the bitmap and the entries;
* `FPTree`: the leaves chained to the first one, after the log is undone, read
  by bitmap and fingerprint; the inner nodes are gone.

In the two wB+trees the map is what a range scan reads from a key on (`Content`,
by `Range_Lookup`): what the slot words name, which is what inserts, splits and
deletes change.  `Lookup` agrees with it on every key (`AllFound`) but where the
slot-only tree has emptied a leaf (section 3).

Two of the refinements have an exception, one step that the code gets wrong and
the property names: `LostInOverrun` of `BitmapTree` and `LostWhileExposed` of
`PersistentART`.  It is a loss of power in a window that is open for part of one
operation; the loss at any other moment, and every other step, is one of the map.
Without the exception TLC refutes either property (section 3).

### RadixTree, RadixRange

`mem` holds the two tree structs (object 0: the current one and the one growth
makes) and the nodes.  `pc` and `at` are the program counter and locals of
Insert and the functions it calls.

| Action | Code (`art_d.c`) |
|---|---|
| `Insert` | 221-250: decide whether to grow |
| `GrowRoot`, `GrowTree` | 111-129: one node per new level; `CoW_Tree` |
| `SearchInner`, `SearchLeaf`, `SearchMissing` | the three cases of `recursive_search_leaf` |
| `AllocInner`, `AllocLeaf` | the two cases of `recursive_alloc_nodes` |
| `Publish` | 205 and 263: the store that makes the work visible |
| `Commit`, `Return` | the fenced flush 187, 206, 264, 300, 462, and the return |
| `Update`, `Delete` | store in place; their flush is `Commit` |
| `Evict`, `PowerLost`, `Restart` | environment |

The loops of Lookup, Update, Delete and Range_Lookup read only and are
operators.  The caller's handle is a local variable of the driver; the code
flushes the struct it points to and not the handle, so where a restart would
find the root is not in the code.  The model lets it find the handle's last
value.

### SlotNode, SlotLeaf, SlotTree

`SlotNode` has every function of the code on one node as an operator
(`missingMin` for Append, `Search`, `Split`, `Lookup` ...).  `SlotLeaf` runs
them at the size of the code: 7 entries, 3 moved by a split, because the free
slot arithmetic depends on those numbers.  `SlotTree` uses them at node size 2
where whole trees of three levels are within reach.

| Action | Code (`slot_only/wbtree.c`) |
|---|---|
| `InsertEntry`, `InsertSlot`, `Commit` | `insert_in_leaf` 359-381: entry, flush; slot word; fenced flush |
| `InsertSplit`, `SplitLeaf` | 282-304: log the leaf, build the new one |
| `ParentEntry`, `ParentSlot` | `insert_in_parent` with room, 455-479 |
| `SplitParent` | `insert_in_parent` with a full parent, 480-516, and the recursion |
| `SplitRoot`, `NewRoot` | 433-450 |
| `LinkLeaf`, `LogCommit` | 308-313 |
| `Update`, `Delete` | 319-334, 567-606 |
| `Evict`, `PowerLost`, `Restart` | environment; `Restart` undoes the open transaction |

`Lookup` is modelled as it is written, with the clamp to `slot[0]` (158-159); an
insert, update or delete needs what the slot words say and nothing else.

Steps are separate where the order of write-backs matters.  Stores to lines the
log already covers, and to nodes nothing points to yet, are gathered: to the
map a rollback leaves, they are invisible whichever of them reach the medium.

Uninitialised memory: `allocNode` does not set the pointers of a node
(`leftmostPtr` of an inner node a split makes, `parent` and `leftmostPtr` of
the first leaf).  The models hold NULL there and every operator that would
follow such a pointer is undefined at NULL, so that a run would stop with an
error if one were followed.  None is, with one exception that is the caller's:
a scan asked for more keys than there are ends at the first leaf's
uninitialised `leftmostPtr`.  The scans checked ask for no more than there are,
as the drivers do.

### BitmapNode, BitmapTree

The slot array has more words than one store can write.  An insert or delete
therefore takes bit 0 off the bitmap and flushes it (`InsertBegin`,
`DeleteBegin`), changes the slot array, flushes it, and commits by the store
that sets bit 0 and the entry's bit together.  A slot is a word of its own in
the model, so a crash may leave any mixture of the old and the new array.

| Action | Code (`wb+tree/bitmap_slot/Integer/wbtree.c`) |
|---|---|
| `InsertBegin`, `InsertEntry`, `InsertValid`, `Commit` | `insert_in_leaf` 389-412 |
| `InsertSplit`, `SplitLeaf` | 322-355: log the leaf, build the new one |
| `ParentEntry`, `ParentSlots` | `insert_in_parent` with room, 479-503: the node is logged, closed by its bitmap, and gets its entry and slots |
| `SplitParent` | `insert_in_parent` with a full parent, 504-542, and the recursion |
| `SplitRoot`, `NewRoot` | 457-477 |
| `LinkLeaf`, `LogCommit` | 359-364 |
| `Update` | 545-561 |
| `DeleteBegin`, `DeleteSlots`, `DeleteValid`, `Commit` | `delete_in_leaf` 563-582 |
| `Evict`, `PowerLost`, `Restart` | environment; `Restart` undoes the log and rebuilds invalid slot arrays |

A parent with room has its header logged, 72 bytes, which `add_log_entry` cuts
into 48 and a remainder of 24 that it records as 48 (124).  `HeaderOnly` is the
node whose header is in the open log; undoing it restores the header and writes
24 bytes more, over entry 0 and the key of entry 1 (`Overwritten`).  `Restart` does
not go on from such a node.  Everything else the three trees log is a multiple of
48 bytes (nodes of 192 and 1152, leaves of 1104) or fits in one record.

A bitmap is an unsigned word: the code adds and subtracts bits, and a bit added
twice carries into the next (`Word64`).  `insert_in_inner` (with
flushes) is never called by the code and has no action.  `delete_in_leaf` is
modelled as it is written, wrong direction included (section 3), so an insert
after a delete may find no free entry; `HasFree` ends such a behaviour.

### FPTree

Leaves are persistent, with a word for each entry, fingerprint, the bitmap and
the next leaf; inner nodes are records of the volatile variable `inner`, and
`parent` holds the parent pointers of both.

| Action | Code (`FPTree/Integer/FPTree.c`) |
|---|---|
| `Insert`, `FlushEntry`, `Commit` | `insert_in_leaf` 433-448: all stores; flushes of entry and fingerprint; fenced flush of the bitmap |
| `Update` | 518-539; its flush is `Commit` |
| `InsertSplit`, `SplitLeaf` | 367-402: log the leaf, sort, refill both |
| `NewRoot`, `InsertInParent`, `SplitParent` | `insert_in_parent` 467-514 |
| `LinkLeaf`, `LogCommit` | 406-411 |
| `Evict`, `PowerLost` | environment |

There is no restart: no code of the repository rebuilds inner nodes from
leaves, so a behaviour ends at the power loss with the map that is then on the
medium.

### ArtKeys, LazyPathTree

One module for two programs: `pessimistic` is chosen at the beginning from
`Forms`.  They differ in what a node's header holds and in `prefix_mismatch`,
which the optimistic tree computes from the smallest leaf below.

| Action | Code (`art_lp.c`; `art_lpo.c` alike) |
|---|---|
| `InsertLeaf` | `recursive_insert` 394-400 and 499-505: an empty place takes a leaf |
| `Update` | 403-413: the leaf's value is overwritten and flushed |
| `InsertBeside` | 415-435: leaf against leaf, a node with the shared digits above both |
| `SplitPrefix` | 438-488: the node is copied with a shorter path under a new one |
| `Flush`, `Publish`, `Return` | 480-488: unfenced flushes, the fenced flush of the pointer, and the node the copy replaced is freed |
| `Evict`, `PowerLost`, `Restart` | environment |

The descents (`art_search`, `minimum`, the recursion of `recursive_insert`) are
written as loops of at most MAX_HEIGHT turns, one turn an operator of its own
(`Turn`, `Left`, `Deeper`): the proofs go along them.  `Paths` collects the inner
nodes' paths and depths level by level in the same way, and `Compressed` compares
them with `Forks` of the keys that `art_search` finds.  NULL, the missing child,
is no key and no value: the callers store no null pointer as a value, for a search
could not tell it from a miss.

Paths longer than MAX_PREFIX_LEN do not exist with the constants of the code
(the longest key has MAX_HEIGHT digits), so the branches for them are left out.

### PartNode, PersistentART

`PartNode` has the four layouts, each with its own way from digit to child and
its own commit word: the slot array of NODE4, the bitmap of NODE16, one of the
bitmaps of NODE48, the child pointer of NODE256; and the copies from one layout
to the next.

| Action | Code (`Order_8/flush/Integer/PART.c`) |
|---|---|
| `InsertRoot`, `Update`, `InsertBeside`, `SplitPrefix` | `recursive_insert` 814-940, in that order |
| `InsertBelow` | 942-952: the leaf is made and flushed, then `add_child` |
| `AddInPlace` | `add_child4` to `add_child256` with room: the child's words, unfenced, then the commit word |
| `Grow` | the same in a full node: 561-727 |
| `Flush`, `Publish`, `Return` | the flushes of new objects, the fenced flush of the pointer or commit word, and the return with its `free` |
| `Evict`, `PowerLost`, `Restart` | environment |

`Order` fixes part of the order of the inserts, as the input file of the driver
does (`InTurn`): eight children of one node come in one order, which is not
that of their digits, and two more keys at any time between them.
`SplitPrefix` frees the node it copied (`PART.c` 880) before it makes the new leaf
(924) and long before the pointer to the node is replaced (937).  The allocator
may hand the node out again for the leaf, whose flush overwrites it, or may not:
`SplitPrefix` has both outcomes.  `at.early` is the node if it was
overwritten, until the pointer's flush; its lines may be replaced at any
moment of that window (`Evict`), whatever `Evictions` says.
The descents are loops of at most MAX_HEIGHT turns here too (`Turn`, `Deeper`,
`Left`), and the words of a store or of a node are put together with `Word` and
`Both`, of which the provers can reason.

### NVLeaf, NVTree

`tree` is the handle with the array its root points to, as two functions on
node numbers: `pln`, the parents of leaves, and `in`, the keys of the inner
nodes above them.  `leaves` is what is allocated and not freed.  A call is one
action: nothing runs beside it, and no code reads the leaves after a crash, so
the order of flushes is left out.

| Definition | Code (`NV_tree/Integer/NV-tree.c`) |
|---|---|
| `valid_Element`, `insertion_sort`, `LowerHalf`, `UpperHalf` | `leaf_scan_divide` 358-400 |
| `find_leaf`, `binary_search` | 104-183 |
| `insert_to_PLN`, `reconstruct_PLN`, `WithHalves` | 484-682, the three cases of reconstruction in one |
| `reconstruct_from_PLN`, `index` | 402-482 |
| `leaf_split` | 702-779 and its copies for Update and Delete, 839-917 and 963-1040 |
| `Insert`, `Update`, `Delete` | the calls |

`inserted`, `deleted`, `skipped` and `changes` are history variables of the
caller.  `skipped` are the keys of the disagreement below.

Preconditions.  No key is inserted twice, and updates come before deletes, as in
the driver (its deletes are commented out, behind the updates).  A split uses the
invalid entries of its leaf up in the order they were written and waits for the one
whose turn it is (376): with entries withdrawn in another order than they were
written it keeps a key that was deleted, or the old value of an updated one, and
a key updated while it waits in vain is kept twice, one half perhaps on each side
of the split.  Nothing in the repository says what it should do.  Entries here have
no value; with updates before deletes every stored key is kept once, out of turn
or not.  A full leaf keeps
at least two entries when it splits (`Divisible`): of an empty half the code
reads the last key from before its array.  The tree has at most
MAX_NUM_ENTRY_IN squared PLNs (`MaxPLNs`): from three levels of inner nodes on,
the number of the first PLN (547) no longer fits the numbering of children in
`find_leaf` (160), and `WalkMatchesDirectory` fails.  With the constants of the
code that takes more than 259,081 PLNs; the 16 million keys of
the driver fill about a thousand.

### UndoLog

`log_data`, `next_offset` are the ring; `call` is the call being served, a
chunk at a time; `open`, `first`, `base` are history variables: what the open
transaction logged, where it began, and the memory it began with.  `bytes` is
the logged memory, which `Modify` changes once it is logged.  The code does not
check that a transaction fits the ring; the model makes it a precondition
(`Fits`): the ring has 65536 entries and a split logs a few dozen per level.

## 3. What TLC checks

| Run | Bounds | Distinct states | Shows |
|---|---|---|---|
| `radix_crash` | three keys of 3 bits, 1 bit per node, 2 values, 12 nodes, 1 power loss, replacement anywhere | 63,000 | `ImplementsDurableMap`, `DurableWhenIdle`, `RangeInOrder` over growth by one and two levels, deletions and half-done growths; `Returns`: inserts end |
| `undo_ring` | 4 entries of 2 bytes; objects of 1, 3 and 4 bytes | 2.3 million | `InArea`, `OpenIntact`, `RollbackRestores` |
| `slot_node` | 7 entries, 8 keys, 1 deletion | 635,000 | `NodesWellFormed`, `EntriesKept` through a split |
| `slot_crash_split` | node size 2, 5 keys, 1 update or delete, 1 power loss | 106,000 | `ImplementsDurableMap` through a parent split; `NodesSound`, `AllFound`, `RangeInOrder`, also after a rollback |
| `nv_insert` | 8 keys; 5 entries to a leaf, 2 to PLN and IN; 2 updates or deletes | 397,000 | `DirectoryParts`, `WalkMatchesDirectory`, `LeavesLinked`, `StoredKeysFound`, `RangeInOrder` |
| `nv_lost_key` | 5 keys, 2 entries to a leaf | | violation, see below |
| `bitmap_split` | node size 2, 5 keys, 1 power loss, replacement anywhere | 25,000 | `ImplementsDurableMap`, `NodesAgree`, `RangeInOrder` through leaf, inner and root splits |
| `bitmap_idle` | node size 3, 4 keys, 1 update, 1 delete, `clflush` unordered | 13,000 | `DurableWhenIdle` |
| `bitmap_delete` | the same, without the update | | violation, see below |
| `fptree_crash` | 2 entries to leaf and inner node, 5 keys, 2 fingerprints, 1 update, 1 power loss, replacement during splits | 62,000 | `ImplementsDurableMap`, `HalvesAgree`, `RangeInOrder` |
| `lazy_crash` | both trees, 4 one-bit digits, 4 keys, 1 update, 1 power loss, `clflush` unordered | 148,000 | `ImplementsDurableMap`, `Compressed`, `NodesAccounted` |
| `part_crash` | layouts of 3, 5, 7 and 16 children, 2 digits of 4 bits, 10 keys in a partial order, 1 update, 1 power loss, `clflush` unordered | 103,000 | `ImplementsDurableMap`, `Compressed`, `NodesAccounted`, `ScanAscends` |

Values: the drivers insert a key with its own address as its value, so in most
runs the value of a key is the key, and an update gives one key another.

Why the bounds are enough.  In the radix tree everything depends on a node's
height and on whether the entry is there: the three keys make the tree grow by
one and by two levels, fill a missing subtree, hit an existing leaf, and share
and part paths.  In the slot-only tree, the bitmap tree and the FPTree five
keys at node size 2 reach a split that goes through a parent to the root; in
the FPTree two fingerprints for five keys make every leaf hold colliding ones.
A delete needs a leaf of three to have a middle.  A second power loss adds nothing new to the first: a
restart begins from a state that is again one of a tree at rest, plus nodes no
one points to.  The log instance lets a call begin at every place of the ring
and wrap before its first chunk, between chunks, and after its remainder.

In the path-compressed trees the keys 0, 1, 2 and 7 of four digits share three
digits, two or one: prefixes are split in the middle and at their last digit,
and split again.  In PART nine children of one node pass through all
four layouts, and a key with another first digit splits its prefix at any time
on the way.

In the NV-tree eight keys in every order split leaves in every place, make three
PLNs, the first or the last of two being split, and grow the inner nodes twice.

Other bounds (`MaxNodes`, `MaxLeaves`, `MaxInner`, `MaxPLNs`, `MaxUpdates`,
`MaxChanges`, `MaxDeletes`, `MaxLosses`) only end the exploration and are stated
where they are declared.  `Evictions` names the program counters at which the
cache may replace a dirty line.  It leaves out those where a replacement
commutes with everything up to the next flush, and one window that the code
leaves open (below).  Deadlock is checked where a behaviour can go on for ever;
the other runs stop when the nodes, the keys or the changes are used up, or at
a power loss nothing restarts from.

Each property of each passing run has a mutant: a plausible slip in the code
(a flush left out, a parent pointer not set, a test off by one) under which the
property fails.  The mutants stand beside the definitions they replace.

### Fairness

`Returns` assumes weak fairness of `Step`, the program's own next step: a
single thread that is running goes on.  Nothing is assumed of callers, of the
cache or of the power supply.

### The disagreements found

`nv_lost_key`.  When the leaf that splits is the first one, and the tree has a
PLN, `leaf_split_and_insert` jumps to its end (`NV-tree.c` 731-732), past the
insertion of the key, and returns success.  The driver looks every inserted key
up (`main.c` 80-83).  `StoredKeysFound` says that nothing else is lost: a key is
found unless its own insert took that jump.  In the same place neither of the
two new leaves is flushed.

`bitmap_delete`.  `delete_in_leaf` of the bitmap tree closes the gap in the slot
array with a loop that runs down from the last slot (`wbtree.c` 572-573): every
slot from the deleted one on receives the last, and the keys between are no
longer found.  It then takes the bit of the slot's position off the bitmap
where the entry's is meant (579).  In the crash run of this tree nothing is
deleted; `bitmap_idle` deletes, because what it asks is only whether the same
nodes are in the cache and on the medium.

Two more are described here and have no run.  Lookup of the slot-only tree clamps
the position to `slot[0]` (`wbtree.c` 158-159), so that in a leaf whose last entry
was deleted it reads entry 0, where the deleted entry still is; the test meant to
prevent it (`loc > curr->slot[0]`, 161) can never be true after the clamp.  Of
leaves that hold an entry, `AllFound` says that Lookup answers for what the slots
name and for nothing else; of an emptied leaf TLC refutes it.  And the NODE4 loop
of PART's range scan runs while `i < ((slot[i].i_ptr != -1) && i < 4)` (`PART.c`
1249), that is while `i < 1`: it visits one child.  `ScanAscends` says of the scan
as it is that what it returns is in order and held by the tree.

Two windows are known to the properties by name.

* The overrun of a logged header (`wbtree.c` 484 and 124 of the bitmap tree).  If
  power fails between the header's record and the commit of the log, undoing the
  remainder overwrites the first entry of a live parent and the key of its second.
  `ImplementsDurableMap` of `bitmap_split` allows the loss there to change the map
  (`LostInOverrun`).
* PART's early free (880).  If power fails after the node was overwritten and
  before the pointer to it is replaced, the medium leads to it.
  `ImplementsDurableMap` of `part_crash` allows the loss there to change the map
  (`LostWhileExposed`), and no restart follows it.  While the window is open
  what is promised is read from the cache, without the key of the call
  (`MediumContent`); the commit that closes it has to put the same map on the medium.

### What the models stop short of

* `t->root` of the slot-only and the bitmap tree is neither logged nor flushed
  when the root splits (449).  Undoing a transaction that split the root sets the old root's parent back to what it
  was, while `t->root` may be the new root.  The repository has no recovery
  code, so there is no rule for choosing a root; `Restart` is not taken there.
* `next_offset` of the log is never flushed either, so recovery code would have
  to find the open transaction by other means.  The models take it as known.
* `initTree` of the slot-only tree flushes nothing, and that of the radix tree
  flushes the struct and not the root node.  The models begin with both on the
  medium.
* A remainder in the log records a size of LOG_DATA_SIZE (122): undoing it
  writes stale bytes behind the object.  `RollbackRestores` excludes exactly
  those bytes (`Overrun`); which objects of the trees it concerns is said above.
* A transaction that fills the ring overwrites its own first entries.  None of this
  code comes near: a split logs a few dozen entries per level, the ring has 65536.
* A commit word stored before what it commits is flushed.  The FPTree's
  `insert_in_leaf` stores entry, fingerprint and bitmap and only then flushes
  them (443), and the path-compressed trees store `*ref` before they flush the
  new objects (`art_lp.c` 428).  If the cache replaces just that line and power
  fails before the flushes, the medium commits to something never written.  With
  that replacement allowed TLC refutes `ImplementsDurableMap`; the runs allow
  every other one.

## 4. What is proved

All of it for nodes, keys and logs of any size, from the named assumptions on
the constants (`LogAssumption`, `RadixAssumption`, `FPTreeAssumption` ...) and,
where nothing else is said, for both orderings of `clflush`.

### The log: `UndoLog_proofs`

* `Typed`: `Spec => []TypeOK`
* `WritesInArea`: `Spec => []InArea`
* `Intact`: `Spec => []OpenIntact`
* `Restored`: `Spec => []RollbackRestores`

None of the first three is inductive alone.  The invariant `IInv` adds where
things stand: the i-th record of the open transaction is in the i-th entry from
`first`, round the ring (`Placed`); `next_offset` names the entry after the
last record, if need be by its other name, one past the end (`NextPlaced`); and
what is left of the call still fits in the room left (`RoomLeft`).  `OpenIntact`
then is that fewer than LogEntries consecutive positions are distinct
(`Positions`).  The lemma `OneMore` is the common part of the three logging
actions; each action has a lemma of its own, and `NextInv` joins them.

`Restored` has an invariant of its own, `RollInv`: a byte that differs from what
it was when the transaction began is covered by a record, and of the records
that cover it the first holds the old value.  A rollback, newest first, ends
with that one; `RollbackRestores` excludes the bytes a remainder's wrong size
reaches (section 3).

### Which lines are owed: `PMem_proofs` and the trees

`Sound(m, L)` says of a memory that every line outside `L` is on the medium or
has its `clflush` under way.  The lemmas of `PMem_proofs` say how it goes on: a
store owes the lines it names, and no more than those it changes
(`StoreSound`, `StoreChangesSound`); a flush takes its lines off (`FlushSound`);
a fence after which nothing is owed makes cache and medium equal (`FencedAll`,
`FencedFlush`); a replacement or a power loss owes nothing new.

Each tree then has a state function `Owed`, the lines that the operation in
progress still has to flush at each of its program counters, and the inductive
invariant `Sound(mem, Owed)` with what the program counter adds to it.  That the
fenced flush at the end of an operation is of all that is owed by then is where
a forgotten flush would show.  From it follow

* `DurableBetweenCalls` of `RadixTree_proofs`, `LazyPath_proofs`,
  `PersistentART_proofs`, `BitmapTree_proofs` and `FPTree_proofs`: when an
  operation has returned the medium holds every word the program stored.  For the radix and the bitmap tree
  it is the property `DurableWhenIdle` of `radix_crash` and `bitmap_idle`.
* `CommitsByOneWord` (RadixTree): when the word that makes an insert, update or
  delete visible is stored, every other word is on the medium or awaits the
  fence before its flush.
* `PublishedLast` (LazyPathTree, PersistentART): the same of the objects an insert
  built, or the words an addition in place stored, when the flush of the pointer
  or commit word that leads to them begins.
* `BitmapBeforeSlots` (BitmapTree): while a slot array changes, the medium
  already says that it is not to be trusted, whatever else was replaced.
* `RollbackUnmoved` (FPTree): from the logging of a leaf to the commit of the
  log no step, not a replacement and not a power loss, changes the leaves that a
  rollback would leave, but for the new one nothing leads to.

### The radix tree is an atomic durable map: `RadixTree_proofs`

* `Implements`: `Spec => ImplementsDurableMap`
* `Typed`: `Spec => []TypeOK`
* `Reachable`: the invariant both rest on

for any keys, node and word size, number of nodes and power losses, with any
dirty line replaced at any time.  The one hypothesis is `ClflushOrdered`, a
constant the run sets too.  It is needed: the flushes of the nodes an insert
builds are not fenced before `Publish` stores the word that leads to them (187
and 250), so where `clflush` is not ordered a replacement of that word can
overtake them.

The invariant `RInv` says that there are a height and a prefix of digits for
every node, fixed when it is allocated and never changed (`Marked`,
`Extended`), such that every entry in the cache and on the medium leads to a
node one lower whose prefix goes on with that entry's index (`Tidy`).  A walk for
a key then passes only nodes that were made for the key (`WalkPasses`), no two
walks part and meet again, and a word changed outside a walk cannot be noticed
by it (`ReadSame`).  Of the nodes built off line it says what they show: for
every key but the one inserted, what the tree shows (`Building`).  `Publish` and
`Commit` then change the map at one key, and every other step leaves it alone;
each action is a lemma that says so (`MapStep`).

### The path-compressed trees are atomic durable maps: `LazyPath_proofs`

* `Implements`: `Spec => ImplementsDurableMap`
* `Typed`: `Spec => []TypeOK`
* `NoNodeLost`: `Spec => []NodesAccounted`
* `PathsCompressed`: `Spec => []Compressed`

for both trees, any keys, digits, number of nodes, updates and power losses, and
either ordering of `clflush`.  Here no hypothesis on the ordering is needed: what
a publishing pointer leads to is flushed behind the store but before the
pointer's own flush, and the fence of that flush waits for all of it.  What is
needed is that the cache does not replace the pointer's line first, which `Evict`
leaves out (section 3).

A tree is a set S of objects with two labels each (`Shape`): the depth an object
hangs at, and a key that stands for the path to it.  Every object of S hangs
below exactly one pointer of S, its depth one more than where its parent's path
ends, and its key goes through that pointer; a header holds the key's digits
between the two; no inner node is childless, as `minimum` needs.  Each has two
children in fact (`Branching`), which the stores of an insert keep.  On any such tree:

* `Found`: `art_search` returns the value of the key's leaf, or NULL if S has
  none.  It stays among the objects above that leaf (`OnTheWay`) and its depth
  grows each turn.
* `MinimumIs`, `MismatchIs`: the leftmost leaf has the path of the node it is
  under, so both forms of `prefix_mismatch` find the same digit.
* `SiteIs`: the recursion of `recursive_insert` ends at a pointer that the key
  goes through, at its own leaf if there is one.
* `Interposed`: a node put between a pointer and what hung there, with the digits
  the key shares, leaves a tree.  What hung there is kept, or replaced by a copy
  that starts later: `InsertBeside` and `SplitPrefix` are its two uses, and
  `SplitPrefix`'s `partial_len -= prefix_diff + 1` is just what it asks for.
* `ReachableIs`: what a restart can reach is S.
* `PathsIs`, `PartingsAre`, `ForkDepthIs`: its paths are those after which two of
  its keys part, one node for each, and each node hangs just below the longest of
  those that begin its own.  Below each of a node's two children there is a key
  (`KeyBelow`), so two keys part at it; where two keys part, the last object both
  are under ends (`ForkNode`); and a key that agrees with a node up to where it
  hangs passes all of its path (`AllPass`), so nothing parts in between.  This is
  why the order of the inserts leaves no trace in the tree (`Compressed`).

The inductive invariant `RInv` has a tree S on the medium and a tree S2 in the
cache.  At rest they are the same, and `used` is the inner nodes of S.  While a
call runs, of the lines of S only the one to publish differs (`Still`), so that
replacements and flushes of all others leave the medium's map alone, and the
cache's map is the medium's with the call's key set; `Publish` exchanges the one
tree for the other.  `at.freed` is what S has and S2 lacks: from this
`NoNodeLost`.

`DigitsAssumption` states of `NODE_BITS` and `MAX_DEPTH` three facts about powers
of two that hold of all numbers and of which TLAPS has no laws: FAN is positive,
so are the divisors in `get_index`, and a key of MAX_HEIGHT digits is determined
by them.  TLC evaluates them in the run.

### A slot-only leaf keeps its entries: `SlotLeaf_proofs`

* `Sorted`: `Spec => []NodesWellFormed`
* `NothingLost`: `Spec => []EntriesKept`

for any node size and any keys.  The binary search over the slot word is proved
to return the place of a key, the free-slot search a slot no live entry uses,
and the split's loop to leave the entries below the split key in the old node
and the others, in order, in the new one.

The hypothesis `MIN_LIVE_ENTRIES \in 1 .. 3` is needed and the code meets it
(NODE_SIZE 7, MIN_LIVE_ENTRIES 3): the split's loop fills the slot array from
the top while `Append` looks for a free entry in the slots from the bottom, so
it reads slots that are not yet written.  With three moved entries it still
finds a free one; with NODE_SIZE = 7 and MIN_LIVE_ENTRIES = 4 TLC finds a split
that overwrites an entry it has just moved.

### A PART node adds a child by one word: `PersistentART_proofs`

* `AddsByOneWord`: whichever of the words that `add_child` stores have reached
  the medium, as long as the commit word is not among them a restart reads the
  node as it was.
* `AddsOneChild`: with all of them the node finds the new child and every other.
* `GrowsToTheNext`: the copy of a full node in the next layout finds the
  children of the original and the new one, and keeps the path.

for any fan-out and any capacities, in all four layouts.  `Live(nd)` are the words
that count: in a NODE4 slot[] and the children it names, in a NODE16 the bitmap
and the keys and children of its bits, in a NODE48 bits_arr[] and the keys and
children it marks, in a NODE256 the children.  What a node says depends on its
live words alone (`LiveSame`), and what an addition stores besides the commit word
is not live (`Adding`, a lemma for each layout): that is why those words may reach
the medium early and in any order.  `Laid(nd)` says that each child has a place of
its own and no place is taken in vain, so the lowest free place that the four
functions look for is one no child is read from.  A copy may move the children:
NODE4 and NODE16 keep the places, NODE48 to NODE256 gives each the place of its
digit (`Copied`, `Spread`).

### PART is an atomic durable map: `PersistentART_proofs`

* `Implements`: `Spec => ImplementsDurableMap`
* `Typed`: `Spec => []TypeOK`
* `NoNodeLost`: `Spec => []NodesAccounted`
* `PathsCompressed`: `Spec => []Compressed`

for any keys and digits, fan-out and capacities, order of the inserts, number of
nodes, updates and power losses, either ordering of `clflush` and replacements at
any program counter.  As in `LazyPathTree`, the cache does not replace the line that
commits first (`Evict`).  What the allocator does with a node that `SplitPrefix`
gives back (880) is left open; the exception for the window it opens is part of
the properties (section 3) and so of the theorems.

PART is the path-compressed tree with other nodes, and the proof says so.
`View(c)` reads a cache or medium c of PART as one of nodes with a word per digit
(`find_child` of each digit), and `Tree(c, S)` is that the view is a tree of the
objects S in the sense of `LazyPath_proofs` (`L!Tree`: `Shape` and `Branching`), that
every node is `Laid` out and that none is in a larger layout than its children need
(`Tight`).  The lemmas on search, leftmost leaf, mismatch, forks and what a restart
reaches are taken from there for the view (`SearchIs`, `MinimumSame`, `SiteIs`,
`ReachableIs`).  What is PART's own:

* an addition in place changes no live word but the commit word (`AddsByOneWord`),
  so the view of the medium's tree stays the same while the others go out, in any
  order, and then gains one child (`AddInPlace`);
* growth replaces a node by its copy in the next layout with one child more
  (`GrowsToTheNext`): in the view, a node that is renamed and has one more child.
  That a node can be replaced by another that reads the same is a lemma about trees
  (`Renamed`, `Replaced` in `LazyPath_proofs`);
* the pointer or the commit word is one word of the tree, at the place `Slot` has it
  in the layout of its node (`Pointer`), and storing it changes one digit of the
  view (`RepointedIs`).

The inductive invariant `RInv` is built like that of `LazyPathTree`: the lines of
`Owed` apart, cache and medium agree; there is a tree S on the medium and a tree S2
in the cache, with a value in every leaf; and `Phase` says how the two differ at
each program counter.  At rest and at a return they are the same and `used` is the
inner nodes of S.  Before `add_child` the new leaf is in the cache alone, below
nothing (`Add`).  Between a build and the publication the words of S are on the
medium as they are in the cache, the one word `at.ref` apart (`Still`), and the
cache's map is the medium's with the call's key set (`Begun`).  It cannot be weaker:
without S on the medium a replaced line might change what a restart finds, without
`Tight` a growth could not be told from a waste, without `at.freed` the free of
the outgrown node could not be shown to be the only one.  While a node given back
early has been overwritten there is no tree on the medium to speak of: `Risked` says
that the cache has one, all of whose lines but `at.ref` are flushed or owed, so that
`Publish` leaves it on the medium (`RiskyStep`); and a power loss in the window ends
in `Ruined`, where nothing goes on.  Each action has a lemma of
its own (`StepInsertRoot` to `StepRestart`) that it keeps `RInv` and is a step of
the durable map or none (`MapStep`).

### What the proofs cannot say

Induction over data is done here with sets of numbers: a set that contains 0 and
with each number the next contains all of them (`Ascent`, `Descent`, from the
least element that well-foundedness gives).  That reaches every recursion along
one path of a tree whose depth is bounded.

Model-checked only: the refinements of `DurableMap` by the slot-only tree, the
bitmap tree and the FPTree, the liveness property (liveness under fairness is out
of the prover's reach), and `NodesSound`, `AllFound`, `NodesAgree`, `HalvesAgree`,
`RangeInOrder`, PART's `ScanAscends`, `TypeOK` of the B+-trees, and the properties
of the NV-tree.  `NodesAgree` and `HalvesAgree` are about words of bits, sums of
powers of two, of which the provers have no laws; the range scans collect sequences
by folds.

## 5. Not modelled

* The String versions: the same control over keys of characters.
* PART's siblings: `Order_7`, `addition` and `lazy_path_node/Integer` have other
  layouts and commit words; `ART/ART_c` is libart with flushes added.
* `art_l.c`, lazy expansion without path compression, and the radix trees before
  *Default* (original, undo and redo log, delayed commit, range optimized, slot
  array, pointer variants, multi-level): predecessors of what is modelled.
* The third-party baselines, ART in C++, the drivers and the scripts.

Left to do, in this order: `DurableBetweenCalls` for `SlotTree`; the order of flushes in the NV-tree's append and
split, as a log that a reader of the medium could replay; PART's siblings as
further layouts of `PartNode`.
