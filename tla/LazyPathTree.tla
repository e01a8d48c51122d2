---------------------------- MODULE LazyPathTree ----------------------------
(***************************************************************************)
(* The radix tree with lazy expansion and path compression, in its two     *)
(* forms: lazy_path/Pessimistic_Optimistic/Integer/art_lp.c, whose nodes   *)
(* hold the digits of their compressed path, and                           *)
(* lazy_path/Optimistic/Integer/art_lpo.c, whose nodes hold its length     *)
(* only and which reads the digits off the leftmost leaf below.            *)
(*                                                                         *)
(* Nothing is logged.  An insert builds leaves and nodes aside, stores and *)
(* flushes them and then flushes one 8-byte pointer; a node whose path is  *)
(* split is copied, never changed.  Deletion is commented out.             *)
(*                                                                         *)
(* Persistent objects: 0, the tree's handle with its root pointer; inner   *)
(* nodes 1 .. MaxNodes; the leaf that make_leaf returns for a key.         *)
(***************************************************************************)
EXTENDS ArtKeys, PMem, FiniteSets, FiniteSetsExt

CONSTANTS Forms,         \* which of the two: TRUE pessimistic, FALSE optimistic
          Keys, Values, NULL,
          Inserts, Updates,  \* the calls made: pairs of a key and a value
          MaxNodes,      \* bound: inner nodes alive at a time
          Evictions,     \* the program counters at which dirty lines may be replaced
          MaxUpdates, MaxLosses \* bounds

ASSUME LazyPathAssumption ==
  /\ MaxNodes \in Nat \ {0}
  /\ Forms \subseteq BOOLEAN /\ Keys \subseteq 0 .. FAN ^ MAX_HEIGHT - 1
  /\ Inserts \cup Updates \subseteq Keys \X Values
  /\ NULL \notin Nat \cup Values

\* TLAPS has no laws of powers; these are true of any NODE_BITS and MAX_DEPTH.
ASSUME DigitsAssumption ==
  /\ FAN \in Nat \ {0}
  /\ \A d \in 0 .. MAX_DEPTH : 2 ^ ((MAX_DEPTH - d) * NODE_BITS) \in Nat \ {0}
  /\ \A j, k \in Keys : (\A d \in 0 .. MAX_DEPTH : get_index(j, d) = get_index(k, d)) => j = k

VARIABLES mem,     \* PMem
          used,    \* inner nodes calloc has handed out
          op,      \* the operation in progress, as in DurableMap
          pc, at,  \* what it does next: the lines of its new objects, the
                   \* line that publishes them and the node it then frees
          updates, losses,
          pessimistic    \* the program this behaviour is of: TRUE art_lp.c, FALSE art_lpo.c
vars == <<mem, used, op, pc, at, updates, losses, pessimistic>>

Root    == <<0, 0>>
INodes  == 1 .. MaxNodes
Leaf(key) == MaxNodes + 1 + key
Leaves  == {Leaf(k) : k \in Keys}
VALUE == 0
KEY   == 1
HDR   == FAN
Words(o) == {o} \X (IF o \in INodes THEN 0 .. FAN ELSE {VALUE, KEY})

NoOp == [kind |-> "none", key |-> NULL, value |-> NULL]
Down == [kind |-> "down", key |-> NULL, value |-> NULL]
NoLocals == [new |-> {}, ref |-> Root, freed |-> {}]

\* A node's header: the length of its path and, in art_lp.c, the path itself.
Header(path) == [partial_len |-> Len(path), partial |-> IF pessimistic THEN path ELSE <<>>]
NewNode(path, child) == [w \in 0 .. FAN |-> IF w = HDR THEN Header(path)
                                            ELSE IF w \in DOMAIN child THEN child[w] ELSE NULL]
MakeLeaf(key, value) == [w \in {VALUE, KEY} |-> IF w = VALUE THEN value ELSE key]
Object(o, content) == [l \in Words(o) |-> content[l[2]]]

\* One word, and two functions together.
Word(l, x) == [m \in {l} |-> x]
Both(f, g) == [l \in DOMAIN f \cup DOMAIN g |-> IF l \in DOMAIN f THEN f[l] ELSE g[l]]

-----------------------------------------------------------------------------
(* Reading c, the cache or what the medium holds *)
check_prefix(c, n, key, depth) == Agree(c[n][HDR].partial,
                                        Digits(key, depth, Len(c[n][HDR].partial)))

\* One turn of art_search's loop, from node s.n at s.depth.  Of the path only
\* the digits the node holds are compared, none in art_lpo.c.
Turn(c, key, s) ==
  LET d == s.depth + c[s.n][HDR].partial_len IN
  IF s.n \notin INodes THEN s
  ELSE IF check_prefix(c, s.n, key, s.depth) # Len(c[s.n][HDR].partial)
    THEN [n |-> NULL, depth |-> d]
    ELSE [n |-> c[s.n][get_index(key, d)], depth |-> d + 1]

\* The loop: every turn goes down one digit at least.
art_search(c, key) ==
  LET turn == [s \in [n : INodes \cup Leaves \cup {NULL}, depth : Nat] |-> Turn(c, key, s)]
      after[j \in 0 .. MAX_HEIGHT] ==
        IF j = 0 THEN [n |-> c[0][0], depth |-> 0] ELSE turn[after[j - 1]]
      value == [n \in INodes \cup Leaves \cup {NULL} |->
                  IF n \in Leaves /\ c[n][KEY] = key THEN c[n][VALUE] ELSE NULL]
  IN  value[after[MAX_HEIGHT].n]

\* The leftmost child, and the leftmost leaf under n.
Left(c, n) == IF n \in INodes THEN c[n][Min({i \in 0 .. FAN - 1 : c[n][i] # NULL})] ELSE n
minimum(c, n) ==
  LET left[j \in 0 .. MAX_HEIGHT] == IF j = 0 THEN n ELSE Left(c, left[j - 1])
  IN  left[MAX_HEIGHT]

\* Where key leaves the path of node n.
prefix_mismatch(c, n, key, depth) ==
  IF pessimistic THEN check_prefix(c, n, key, depth)
  ELSE longest_common_prefix(c[minimum(c, n)][KEY], key, depth)

\* One call of recursive_insert, for the pointer s.ref to s.n at s.depth: the
\* arguments of the call it makes, or where it stays.
Deeper(c, key, s) ==
  LET d == s.depth + c[s.n][HDR].partial_len IN
  IF s.n \notin INodes \/ prefix_mismatch(c, s.n, key, s.depth) < c[s.n][HDR].partial_len THEN s
  ELSE [ref |-> <<s.n, get_index(key, d)>>, n |-> c[s.n][get_index(key, d)], depth |-> d + 1]

\* The recursion of recursive_insert, and the pointer, node and depth it ends at.
Site(c, key) ==
  LET call[j \in 0 .. MAX_HEIGHT] ==
        IF j = 0 THEN [ref |-> Root, n |-> c[0][0], depth |-> 0] ELSE Deeper(c, key, call[j - 1])
  IN  call[MAX_HEIGHT]

\* Inner nodes below the root pointer of c, level by level.
Below(c, N) == {c[n][i] : n \in N, i \in 0 .. FAN - 1} \cap INodes
Reachable(c) ==
  LET level[j \in 0 .. MAX_HEIGHT] ==
        IF j = 0 THEN {c[0][0]} \cap INodes ELSE Below(c, level[j - 1])
  IN  UNION {level[j] : j \in 0 .. MAX_HEIGHT}

\* What alloc_node returns (calloc: any free node).
Fresh(taken) == CHOOSE n \in INodes \ taken : TRUE

-----------------------------------------------------------------------------
Blank(o) == IF o = 0 THEN [w \in {0} |-> NULL]
            ELSE IF o \in Leaves THEN MakeLeaf(NULL, NULL) ELSE NewNode(<<>>, <<>>)

Init == /\ pessimistic \in Forms
        /\ mem = Formatted([o \in {0} \cup INodes \cup Leaves |-> Blank(o)])
        /\ used = {} /\ updates = 0 /\ losses = 0
        /\ op = NoOp /\ pc = "idle" /\ at = NoLocals

\* What the three ways of inserting share: store, then flush the new objects.
Build(kind, key, value, stores, ref, freed) ==
  /\ mem' = Store(mem, stores)
  /\ at' = [new |-> DOMAIN stores \ {ref}, ref |-> ref, freed |-> freed]
  /\ op' = [kind |-> kind, key |-> key, value |-> value]
  /\ pc' = IF DOMAIN stores = {ref} THEN "publish" ELSE "flush"

\* No node in the way: the leaf goes under the root pointer or into a node.
InsertLeaf(key, value) ==
  LET s == Site(mem.cache, key) IN
  /\ pc = "idle" /\ s.n = NULL
  /\ Build("Insert", key, value,
           Both(Word(s.ref, Leaf(key)), Object(Leaf(key), MakeLeaf(key, value))), s.ref, {})
  /\ UNCHANGED <<used, updates, losses, pessimistic>>

\* The key's own leaf: the value is replaced in place.
Update(key, value) ==
  LET s == Site(mem.cache, key) IN
  /\ pc = "idle" /\ updates < MaxUpdates
  /\ s.n = Leaf(key)
  /\ Build("Update", key, value, Word(<<s.n, VALUE>>, value), <<s.n, VALUE>>, {})
  /\ updates' = updates + 1
  /\ UNCHANGED <<used, losses, pessimistic>>

\* Another key's leaf: a node over both, their common path compressed.
InsertBeside(key, value) ==
  LET s == Site(mem.cache, key)
      l == mem.cache[s.n][KEY]
      len == longest_common_prefix(l, key, s.depth)
      new == Fresh(used) IN
  /\ pc = "idle" /\ s.n \in Leaves /\ l # key /\ used # INodes
  /\ Build("Insert", key, value,
           Both(Word(s.ref, new),
                Both(Object(new, NewNode(Digits(key, s.depth, len),
                                         Both(Word(get_index(l, s.depth + len), s.n),
                                              Word(get_index(key, s.depth + len), Leaf(key))))),
                     Object(Leaf(key), MakeLeaf(key, value)))),
           s.ref, {})
  /\ used' = used \cup {new}
  /\ UNCHANGED <<updates, losses, pessimistic>>

\* A node whose path the key leaves: a copy of it with the rest of its path and
\* the new leaf go under a node with the path so far.
SplitPrefix(key, value) ==
  LET s    == Site(mem.cache, key)
      old  == mem.cache[s.n]
      diff == prefix_mismatch(mem.cache, s.n, key, s.depth)
      path == IF pessimistic THEN old[HDR].partial
              ELSE Digits(mem.cache[minimum(mem.cache, s.n)][KEY], s.depth, old[HDR].partial_len)
      new  == Fresh(used)
      copy == Fresh(used \cup {new}) IN
  /\ pc = "idle" /\ s.n \in INodes /\ Cardinality(INodes \ used) >= 2
  /\ Build("Insert", key, value,
           Both(Word(s.ref, new),
                Both(Object(new, NewNode(SubSeq(path, 1, diff),
                                         Both(Word(path[diff + 1], copy),
                                              Word(get_index(key, s.depth + diff), Leaf(key))))),
                     Both(Object(copy, [old EXCEPT ![HDR] = Header(Rest(path, diff))]),
                          Object(Leaf(key), MakeLeaf(key, value))))),
           s.ref, {s.n})
  /\ used' = used \cup {new, copy}
  /\ UNCHANGED <<updates, losses, pessimistic>>

\* The new objects, one flush_buffer each and none fenced ...
Flush ==
  /\ pc = "flush"
  /\ mem' = flush_buffer(mem, at.new, FALSE)
  /\ pc' = "publish"
  /\ UNCHANGED <<used, op, at, updates, losses, pessimistic>>

\* Mutant: the mfence after the pointer's clflush is missing.
Publish_NoFence ==
  /\ pc = "publish"
  /\ mem' = Clflush(Mfence(mem), {at.ref})
  /\ pc' = "return"
  /\ UNCHANGED <<used, op, at, updates, losses, pessimistic>>

\* ... and the pointer that leads to them, with fences.
Publish ==
  /\ pc = "publish"
  /\ mem' = flush_buffer(mem, {at.ref}, TRUE)
  /\ pc' = "return"
  /\ UNCHANGED <<used, op, at, updates, losses, pessimistic>>

\* Mutant: the node that was copied is not freed.
Return_NoFree ==
  /\ pc = "return"
  /\ op' = NoOp /\ pc' = "idle" /\ at' = NoLocals
  /\ UNCHANGED <<mem, used, updates, losses, pessimistic>>

\* Mutant: what was freed is remembered, to be freed again.
Return_KeepsFreed ==
  /\ pc = "return"
  /\ used' = used \ at.freed
  /\ op' = NoOp /\ pc' = "idle" /\ UNCHANGED at
  /\ UNCHANGED <<mem, updates, losses, pessimistic>>

\* free(n) of a node that was copied, and back to the caller.
Return ==
  /\ pc = "return"
  /\ used' = used \ at.freed
  /\ op' = NoOp /\ pc' = "idle" /\ at' = NoLocals
  /\ UNCHANGED <<mem, updates, losses, pessimistic>>

(* The environment *)
\* A replacement writes back any dirty line but the publishing pointer's: see
\* the README for what happens when that line goes first.
Evict == /\ pc \in Evictions
         /\ \E l \in Dirty(mem) \ {at.ref} : mem' = WriteBack(mem, {l})
         /\ UNCHANGED <<used, op, pc, at, updates, losses, pessimistic>>

PowerLost == /\ losses < MaxLosses /\ pc # "down"
             /\ mem' = PowerLoss(mem)
             /\ losses' = losses + 1
             /\ op' = Down /\ pc' = "down" /\ at' = NoLocals
             /\ UNCHANGED <<used, updates, pessimistic>>

\* The allocator knows again what the tree holds.
Restart == /\ pc = "down"
           /\ used' = Reachable(mem.cache)
           /\ op' = NoOp /\ pc' = "idle"
           /\ UNCHANGED <<mem, at, updates, losses, pessimistic>>

Next == \/ \E c \in Inserts : InsertLeaf(c[1], c[2]) \/ InsertBeside(c[1], c[2]) \/ SplitPrefix(c[1], c[2])
        \/ \E c \in Updates : Update(c[1], c[2])
        \/ Flush \/ Publish \/ Return
        \/ Evict \/ PowerLost \/ Restart

Spec == Init /\ [][Next]_vars

-----------------------------------------------------------------------------
(* Properties *)
MediumContent == [k \in Keys |-> art_search(mem.nvm, k)]
Map == INSTANCE DurableMap WITH kv <- MediumContent

\* Words have the shapes of their C types, and no path is longer than partial[].
TypeOK ==
  /\ used \subseteq INodes /\ op \in Map!Ops \cup {NoOp, Down}
  /\ at.new \subseteq Lines(mem) /\ at.ref \in Lines(mem) /\ at.freed \subseteq used
  /\ \A c \in {mem.cache, mem.nvm} :
       /\ c[0][0] \in INodes \cup Leaves \cup {NULL}
       /\ \A n \in INodes : /\ c[n][HDR].partial_len \in 0 .. MAX_DEPTH
                            /\ \A i \in 0 .. FAN - 1 : c[n][i] \in INodes \cup Leaves \cup {NULL}

\* Failure atomicity and durability: whatever way an insert takes, the medium's
\* tree is changed by one pointer, which goes out after all that it leads to.
ImplementsDurableMap == Map!Spec

\* The paths of c's inner nodes, each with the depth the node is reached at, found
\* level by level.
Inner(N) == {s \in N : s.n \in INodes}
Children(c, N) ==
  {[n |-> c[s.n][i], depth |-> s.depth + c[s.n][HDR].partial_len + 1] : s \in N, i \in 0 .. FAN - 1}
Paths(c) ==
  LET level[j \in 0 .. MAX_HEIGHT] ==
        IF j = 0 THEN Inner({[n |-> c[0][0], depth |-> 0]}) ELSE Inner(Children(c, level[j - 1]))
  IN  {<<s.depth, Digits(c[minimum(c, s.n)][KEY], 0, s.depth + c[s.n][HDR].partial_len)>> :
         s \in UNION {level[j] : j \in 0 .. MAX_HEIGHT}}

\* The tree is the compressed radix tree of its keys, whatever the order they
\* came in: an inner node for each path after which two keys part, no other,
\* and each reached at the depth its path says.
Compressed ==
  pc = "idle" => Paths(mem.cache) = Forks({k \in Keys : art_search(mem.cache, k) # NULL})

\* free(n) and alloc_node: no node that the program or a restart can reach is
\* free, and between operations none is allocated in vain.
NodesAccounted ==
  /\ pc # "down" => Reachable(mem.cache) \cup Reachable(mem.nvm) \subseteq used
  /\ pc = "idle" => used = Reachable(mem.cache)
=============================================================================
