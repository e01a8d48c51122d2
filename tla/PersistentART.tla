---------------------------- MODULE PersistentART ---------------------------
(***************************************************************************)
(* The adaptive radix tree in persistent memory, PART                      *)
(* (lazy_path_node/Persistent_ART/Order_8/flush/Integer/PART.c): lazy      *)
(* expansion and path compression as in LazyPathTree, nodes of four sizes  *)
(* as in PartNode.  A child is added by flushing its words and then the    *)
(* one word that makes them count; a full node is copied into a bigger     *)
(* one that a single pointer publishes.  Deletion is commented out.        *)
(*                                                                         *)
(* Persistent objects: 0, the tree's handle with its root pointer; inner   *)
(* nodes 1 .. MaxNodes; the leaf that make_leaf returns for a key.         *)
(***************************************************************************)
EXTENDS PartNode, PMem

CONSTANTS Keys, Values,
          Inserts, Updates,  \* the calls made: pairs of a key and a value
          Order,         \* pairs of keys: the input has the first before the second
          MaxNodes,      \* bound: inner nodes alive at a time
          Evictions,     \* the program counters at which dirty lines may be replaced
          MaxUpdates, MaxLosses \* bounds

ASSUME PARTAssumption ==
  /\ MaxNodes \in Nat \ {0} /\ Keys \subseteq 0 .. FAN ^ MAX_HEIGHT - 1
  /\ Inserts \cup Updates \subseteq Keys \X Values /\ Order \subseteq Keys \X Keys
  /\ NULL \notin Nat \cup Values

\* TLAPS has no laws of powers; these are true of any NODE_BITS and MAX_DEPTH.
ASSUME DigitsAssumption ==
  /\ FAN \in Nat \ {0}
  /\ \A d \in 0 .. MAX_DEPTH : 2 ^ ((MAX_DEPTH - d) * NODE_BITS) \in Nat \ {0}
  /\ \A j, k \in Keys : (\A d \in 0 .. MAX_DEPTH : get_index(j, d) = get_index(k, d)) => j = k

VARIABLES mem,     \* PMem
          used,    \* inner nodes malloc has handed out
          op,      \* the operation in progress, as in DurableMap
          pc, at,  \* what it does next: the lines it flushes first, the line
                   \* that publishes them and the node it then frees;
                   \* early, a node freed before that and overwritten since
          updates, losses
vars == <<mem, used, op, pc, at, updates, losses>>

Value  == <<"value", 0>>
Root   == <<0, Child(0)>>
INodes == 1 .. MaxNodes
Leaf(key) == MaxNodes + 1 + key
Leaves == {Leaf(k) : k \in Keys}
Nodes  == INodes \cup Leaves \cup {NULL}

NoOp == [kind |-> "none", key |-> NULL, value |-> NULL]
Down == [kind |-> "down", key |-> NULL, value |-> NULL]
NoLocals == [new |-> {}, ref |-> Root, freed |-> {}, early |-> {}]

MakeLeaf(key, value) == Both(Word(Value, value), Word(Key(0), key))
Object(o, content) == [l \in {o} \X DOMAIN content |-> content[l[2]]]
Lines1(o, type)    == {o} \X TypeWords(type)
LeafLines(key)     == {Leaf(key)} \X {Value, Key(0)}
Heads(N)           == N \X {Hdr}

-----------------------------------------------------------------------------
(* Reading c, the cache or what the medium holds *)
prefix_mismatch(nd, key, depth) == Agree(nd[Hdr].path, Digits(key, depth, Len(nd[Hdr].path)))

\* One turn of art_search's loop, from node s.n at s.depth.
Turn(c, key, s) ==
  LET path == c[s.n][Hdr].path
      d == s.depth + Len(path) IN
  IF s.n \notin INodes THEN s
  ELSE IF prefix_mismatch(c[s.n], key, s.depth) # Len(path) THEN [n |-> NULL, depth |-> d]
  ELSE [n |-> find_child(c[s.n], get_index(key, d)), depth |-> d + 1]

\* The loop: every turn goes down one digit at least.
art_search(c, key) ==
  LET turn == [s \in [n : Nodes, depth : Nat] |-> Turn(c, key, s)]
      after[j \in 0 .. MAX_HEIGHT] ==
        IF j = 0 THEN [n |-> c[0][Child(0)], depth |-> 0] ELSE turn[after[j - 1]]
      value == [n \in Nodes |-> IF n \in Leaves /\ c[n][Key(0)] = key THEN c[n][Value] ELSE NULL]
  IN  value[after[MAX_HEIGHT].n]

\* One call of recursive_insert, for the pointer s.ref to s.n at s.depth: the
\* arguments of the call it makes, or where it stays: at a null root, a leaf, a
\* node whose path the key leaves or one that has no child for its digit.
Deeper(c, key, s) ==
  LET path == c[s.n][Hdr].path
      d == s.depth + Len(path) IN
  IF \/ s.n \notin INodes
     \/ prefix_mismatch(c[s.n], key, s.depth) < Len(path)
     \/ find_child(c[s.n], get_index(key, d)) = NULL
  THEN s
  ELSE [ref |-> <<s.n, Slot(c[s.n], get_index(key, d))>>,
        n |-> find_child(c[s.n], get_index(key, d)), depth |-> d + 1]

\* The recursion of recursive_insert, and the pointer, node and depth it ends at.
Site(c, key) ==
  LET call[j \in 0 .. MAX_HEIGHT] ==
        IF j = 0 THEN [ref |-> Root, n |-> c[0][Child(0)], depth |-> 0] ELSE Deeper(c, key, call[j - 1])
  IN  call[MAX_HEIGHT]

\* Inner nodes below the root pointer of c, level by level.
Below(nd) == {find_child(nd, d) : d \in Present(nd)}
Reachable(c) ==
  LET level[j \in 0 .. MAX_HEIGHT] ==
        IF j = 0 THEN {c[0][Child(0)]} \cap INodes
        ELSE (UNION {Below(c[n]) : n \in level[j - 1]}) \cap INodes
  IN  UNION {level[j] : j \in 0 .. MAX_HEIGHT}

\* The leaves whose values recursive_lookup reads, from the root.
Range_Lookup(num) ==
  LET scan[n \in Nodes] ==
        IF n = NULL THEN <<>> ELSE IF n \in Leaves THEN <<n>>
        ELSE FlattenSeq([i \in DOMAIN Visited(mem.cache[n]) |-> scan[Visited(mem.cache[n])[i]]])
      all == scan[mem.cache[0][Child(0)]]
  IN  SubSeq(all, 1, IF num < Len(all) THEN num ELSE Len(all))

Fresh(taken) == CHOOSE n \in INodes \ taken : TRUE

-----------------------------------------------------------------------------
Blank(o) == IF o = 0 THEN Word(Child(0), NULL)
            ELSE IF o \in Leaves THEN MakeLeaf(NULL, NULL)
            ELSE Both(alloc_node(NODE4, <<>>),
                      [w \in NodeWords |-> IF w \in AllBits THEN [k |-> {}, p |-> {}] ELSE NULL])

Init == /\ mem = Formatted([o \in {0} \cup INodes \cup Leaves |-> Blank(o)])
        /\ used = {} /\ updates = 0 /\ losses = 0
        /\ op = NoOp /\ pc = "idle" /\ at = NoLocals

\* Stores, then flushes without fences of the lines first, if any, and then the
\* fenced flush of ref; next says which of the two comes first.
Build(stores, first, ref, freed, early, next) ==
  /\ mem' = Store(mem, stores)
  /\ at' = [new |-> first, ref |-> ref, freed |-> freed, early |-> early]
  /\ pc' = next

Begin(kind, key, value) == op' = [kind |-> kind, key |-> key, value |-> value]

\* An empty tree: the root pointer leads to the leaf.
InsertRoot(key, value) ==
  /\ pc = "idle" /\ mem.cache[0][Child(0)] = NULL
  /\ Begin("Insert", key, value)
  /\ Build(Both(Word(Root, Leaf(key)), Object(Leaf(key), MakeLeaf(key, value))), LeafLines(key), Root, {}, {}, "flush")
  /\ UNCHANGED <<used, updates, losses>>

\* The key's own leaf: the value is replaced in place.
Update(key, value) ==
  LET s == Site(mem.cache, key) IN
  /\ pc = "idle" /\ updates < MaxUpdates
  /\ s.n = Leaf(key)
  /\ Begin("Update", key, value)
  /\ Build(Word(<<s.n, Value>>, value), {}, <<s.n, Value>>, {}, {}, "publish")
  /\ updates' = updates + 1
  /\ UNCHANGED <<used, losses>>

\* A new NODE4 with the children a and then b.
Pair(path, a, b) ==
  LET one == Both(Added(alloc_node(NODE4, path), a[1], a[2]), alloc_node(NODE4, path))
  IN  Both(Added(one, b[1], b[2]), one)

\* Another key's leaf: a NODE4 over both, their common path compressed.
InsertBeside(key, value) ==
  LET s == Site(mem.cache, key)
      l == mem.cache[s.n][Key(0)]
      len == longest_common_prefix(l, key, s.depth)
      new == Fresh(used)
      node == Pair(Digits(key, s.depth, len), <<get_index(l, s.depth + len), s.n>>,
                   <<get_index(key, s.depth + len), Leaf(key)>>) IN
  /\ pc = "idle" /\ s.n \in Leaves /\ l # key /\ used # INodes
  /\ Begin("Insert", key, value)
  /\ Build(Both(Word(s.ref, new), Both(Object(new, node), Object(Leaf(key), MakeLeaf(key, value)))),
           Lines1(new, NODE4) \cup LeafLines(key), s.ref, {}, {}, "flush")
  /\ used' = used \cup {new}
  /\ UNCHANGED <<updates, losses>>

\* A node whose path the key leaves: a copy of it with the rest of its path and
\* the new leaf go under a NODE4 with the path so far.  The original is given
\* back before the leaf is allocated, and before ref stops leading to it on the
\* medium: free() may write into it, and malloc may hand it out again as the
\* leaf, which is flushed.  One word of another shape stands for either.
SplitPrefix(key, value) ==
  LET s    == Site(mem.cache, key)
      old  == mem.cache[s.n]
      type == old[Hdr].type
      path == old[Hdr].path
      diff == prefix_mismatch(old, key, s.depth)
      new  == Fresh(used)
      copy == Fresh(used \cup {new})
      node == Pair(SubSeq(path, 1, diff), <<path[diff + 1], copy>>,
                   <<get_index(key, s.depth + diff), Leaf(key)>>) IN
  /\ pc = "idle" /\ s.n \in INodes /\ diff < Len(path)
  /\ Cardinality(INodes \ used) >= 2
  /\ Begin("Insert", key, value)
  /\ \E early \in {{}, {s.n}} :
       Build(Both(Word(s.ref, new),
                  Both(Object(new, node),
                       Both(Object(copy, [w \in TypeWords(type) |->
                                            IF w = Hdr THEN Header(type, Rest(path, diff)) ELSE old[w]]),
                            Both(Object(Leaf(key), MakeLeaf(key, value)),
                                 [l \in Heads(early) |-> Header(NODE4, <<>>)])))),
             Lines1(new, NODE4) \cup Lines1(copy, type) \cup LeafLines(key) \cup Heads(early),
             s.ref, {}, early, "flush")
  /\ used' = (used \ {s.n}) \cup {new, copy}
  /\ UNCHANGED <<updates, losses>>

\* A node with no child for the digit: the leaf is built and flushed first.
InsertBelow(key, value) ==
  LET s == Site(mem.cache, key) IN
  /\ pc = "idle" /\ s.n \in INodes
  /\ prefix_mismatch(mem.cache[s.n], key, s.depth) = Len(mem.cache[s.n][Hdr].path)
  /\ Begin("Insert", key, value)
  /\ mem' = flush_buffer(Store(mem, Object(Leaf(key), MakeLeaf(key, value))), LeafLines(key), FALSE)
  /\ pc' = "add"
  /\ UNCHANGED <<used, at, updates, losses>>

\* add_child with room, ...
AddInPlace ==
  LET s  == Site(mem.cache, op.key)
      nd == mem.cache[s.n]
      c  == get_index(op.key, s.depth + Len(nd[Hdr].path))
      stores == Object(s.n, Added(nd, c, Leaf(op.key))) IN
  /\ pc = "add" /\ HasRoom(nd)
  /\ Build(stores, DOMAIN stores \ {<<s.n, CommitWord(nd, c)>>}, <<s.n, CommitWord(nd, c)>>, {}, {}, "entry")
  /\ UNCHANGED <<used, op, updates, losses>>

\* ... and in a full node, which a bigger one replaces.
Grow ==
  LET s   == Site(mem.cache, op.key)
      nd  == mem.cache[s.n]
      new == Fresh(used)
      big == Bigger(nd, get_index(op.key, s.depth + Len(nd[Hdr].path)), Leaf(op.key)) IN
  /\ pc = "add" /\ ~HasRoom(nd) /\ used # INodes
  /\ Build(Both(Word(s.ref, new), Object(new, big)), Lines1(new, big[Hdr].type), s.ref, {s.n}, {}, "flush")
  /\ used' = used \cup {new}
  /\ UNCHANGED <<op, updates, losses>>

\* Mutant: the digits are left in the cache.
Flush_NoKeys ==
  /\ pc \in {"flush", "entry"}
  /\ mem' = flush_buffer(mem, {l \in at.new : l[2][1] # "key"}, FALSE)
  /\ pc' = "publish"
  /\ UNCHANGED <<used, op, at, updates, losses>>

\* What must be on the medium first: one flush_buffer each and none fenced.
Flush ==
  /\ pc \in {"flush", "entry"}
  /\ mem' = flush_buffer(mem, at.new, FALSE)
  /\ pc' = "publish"
  /\ UNCHANGED <<used, op, at, updates, losses>>

\* The commit word, with fences.
Publish ==
  /\ pc = "publish"
  /\ mem' = flush_buffer(mem, {at.ref}, TRUE)
  /\ at' = [at EXCEPT !.early = {}]
  /\ pc' = "return"
  /\ UNCHANGED <<used, op, updates, losses>>

\* Mutant: the node that was outgrown is not freed.
Return_NoFree ==
  /\ pc = "return"
  /\ op' = NoOp /\ pc' = "idle" /\ at' = NoLocals
  /\ UNCHANGED <<mem, used, updates, losses>>

\* free(n) of a node that was outgrown, and back to the caller.
Return ==
  /\ pc = "return"
  /\ used' = used \ at.freed
  /\ op' = NoOp /\ pc' = "idle" /\ at' = NoLocals
  /\ UNCHANGED <<mem, updates, losses>>

(* The environment *)
\* As in LazyPathTree, any dirty line but the one that publishes; that of a node
\* given back early wherever the program is.
Evict == /\ \E l \in Dirty(mem) \ {at.ref} : /\ pc \in Evictions \/ l[1] \in at.early
                                             /\ mem' = WriteBack(mem, {l})
         /\ UNCHANGED <<used, op, pc, at, updates, losses>>

PowerLost == /\ losses < MaxLosses /\ pc # "down"
             /\ mem' = PowerLoss(mem)
             /\ losses' = losses + 1
             /\ op' = Down /\ pc' = "down"
             /\ at' = [NoLocals EXCEPT !.early = at.early]
             /\ UNCHANGED <<used, updates>>

\* The medium may lead to a node that holds something else by now.
Exposed == at.early # {}

\* The program goes on from a medium that leads to the tree's nodes.
Restart == /\ pc = "down" /\ ~Exposed
           /\ used' = Reachable(mem.cache)
           /\ op' = NoOp /\ pc' = "idle"
           /\ UNCHANGED <<mem, at, updates, losses>>

InTurn(key) == \A p \in Order : p[2] = key => art_search(mem.cache, p[1]) # NULL

Next == \/ \E c \in {i \in Inserts : InTurn(i[1])} :
             \/ InsertRoot(c[1], c[2]) \/ InsertBeside(c[1], c[2]) \/ SplitPrefix(c[1], c[2]) \/ InsertBelow(c[1], c[2])
        \/ \E c \in Updates : Update(c[1], c[2])
        \/ AddInPlace \/ Grow \/ Flush \/ Publish \/ Return
        \/ Evict \/ PowerLost \/ Restart

Spec == Init /\ [][Next]_vars

-----------------------------------------------------------------------------
(* Properties *)
\* The map that is promised: what the medium holds and, while a node it leads to
\* may be overwritten, what the program holds but for the key being inserted.
MediumContent ==
  [k \in Keys |-> IF ~Exposed \/ pc = "down" THEN art_search(mem.nvm, k)
                  ELSE IF k = op.key THEN NULL ELSE art_search(mem.cache, k)]
Durable == INSTANCE DurableMap WITH kv <- MediumContent

\* A node's shape: a place below the layout's capacity for each child, and each
\* place used once.
Shapely(nd) ==
  /\ nd[Hdr].type \in NODE4 .. NODE256 /\ Len(nd[Hdr].path) <= MAX_DEPTH
  /\ \A d \in Present(nd) : /\ Cardinality(PlaceOf(nd, d)) = 1
                            /\ PlaceOf(nd, d) \subseteq 0 .. Capacity(nd[Hdr].type) - 1
                            /\ find_child(nd, d) \in INodes \cup Leaves
  /\ nd[Hdr].type # NODE256 => Cardinality(Taken(nd)) = Cardinality(Present(nd))

\* Nodes have the shapes of their C types, in the cache and on the medium, also when
\* power is lost between the flushes of one addition.  A node that was overwritten
\* on the medium may have none, and a restart would read it there.
TypeOK ==
  /\ used \subseteq INodes /\ op \in Durable!Ops \cup {NoOp, Down}
  /\ at.freed \subseteq used /\ at.ref \in Lines(mem)
  /\ ~Exposed => \A n \in Reachable(mem.nvm) : Shapely(mem.nvm[n])
  /\ ~Exposed \/ pc # "down" => \A n \in Reachable(mem.cache) : Shapely(mem.cache[n])

\* Failure atomicity and durability, for an addition in place by its one commit
\* word and for every other insert by one pointer.  What the promise leaves out is
\* a loss of power between SplitPrefix's free and its commit.
LostWhileExposed == Exposed /\ op' = Down
ImplementsDurableMap ==
  Durable!Init /\ [][Durable!Next \/ LostWhileExposed]_(Durable!vars)

\* The leftmost leaf under n, and the paths of c's inner nodes, each with the depth
\* the node is reached at, found level by level.
Left(c, n) == IF n \in INodes THEN find_child(c[n], Min(Present(c[n]))) ELSE n
minimum(c, n) ==
  LET left[j \in 0 .. MAX_HEIGHT] == IF j = 0 THEN n ELSE Left(c, left[j - 1])
  IN  left[MAX_HEIGHT]
Inner(N) == {s \in N : s.n \in INodes}
Children(c, N) ==
  UNION {[n : Below(c[s.n]), depth : {s.depth + Len(c[s.n][Hdr].path) + 1}] : s \in N}
Paths(c) ==
  LET level[j \in 0 .. MAX_HEIGHT] ==
        IF j = 0 THEN Inner({[n |-> c[0][Child(0)], depth |-> 0]}) ELSE Inner(Children(c, level[j - 1]))
  IN  {<<s.depth, Digits(c[minimum(c, s.n)][Key(0)], 0, s.depth + Len(c[s.n][Hdr].path))>> :
         s \in UNION {level[j] : j \in 0 .. MAX_HEIGHT}}

\* The tree is the compressed radix tree of its keys, whatever the order they
\* came in and whatever their nodes grew through: an inner node for each path
\* after which two keys part, no other, in the smallest layout that holds its
\* children, which no other node shares.
Compressed ==
  pc = "idle" =>
    LET c == mem.cache IN
    /\ Paths(c) = Forks({k \in Keys : art_search(c, k) # NULL})
    /\ \A n \in Reachable(c) :
         /\ Cardinality(Below(c[n])) = Cardinality(Present(c[n]))
         /\ c[n][Hdr].type > NODE4 =>
              Cardinality(Present(c[n])) > Capacity(c[n][Hdr].type - 1)

\* No node the program can reach is free; between operations none is held in
\* vain.  (What the medium can reach is given back early by SplitPrefix.)
NodesAccounted ==
  /\ pc # "down" => Reachable(mem.cache) \subseteq used
  /\ pc = "idle" => used = Reachable(mem.cache)

\* A scan visits leaves in key order, none twice.
ScanAscends ==
  pc = "idle" =>
    LET got == Range_Lookup(Cardinality(Keys)) IN
    \A i, j \in DOMAIN got : i < j => got[i] < got[j]
=============================================================================
