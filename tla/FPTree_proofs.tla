--------------------------- MODULE FPTree_proofs ----------------------------
(***************************************************************************)
(* For leaves and inner nodes of any size, any keys, any fingerprints and  *)
(* either ordering of clflush: when an operation of the FPTree returns,    *)
(* the medium holds what the cache holds, and while a split is open what a *)
(* rollback of its log would leave is not changed by any step.             *)
(***************************************************************************)
EXTENDS FPTree, PMem_proofs

\* The lines the operation in progress still has to flush.
Owed == CASE pc = "entry" -> {<<at.leaf, at.index>>, <<at.leaf, Print8(at.index)>>} \cup at.lines
          [] pc = "commit" -> at.lines
          [] pc \in {"parent", "link"} -> Words(at.leaf) \cup Words(at.right)
          [] OTHER -> {}

\* From the moment the leaf is logged to the commit of the log.
Open == {"split", "parent", "link", "logcommit"}

NothingUnflushed == pc = "idle" => mem.nvm = mem.cache

\* What Insert's log_add relies on (FPTree.c 379 to 411): until the log commits,
\* whatever is flushed, replaced or lost, the leaves that a rollback leaves,
\* but for the new one that none of them leads to, stay what they are.
SplitUnseen ==
  [][(pc \in Open /\ pc' # "return") => \A n \in Leaves \ {at.right} : Recovered'[n] = Recovered[n]]_vars

\* A memory of leaves that owes the medium at most the lines L.
Kept(m, L) == /\ Sound(m, L)
              /\ DOMAIN m.cache = Leaves /\ \A n \in Leaves : DOMAIN m.cache[n] = LeafWords

\* Leaves a split does not touch have no word in the cache alone.
Untouched(m) == \A n \in Leaves \ {at.leaf, at.right} : m.nvm[n] = m.cache[n]

\* What a step leaves as it was on the medium.
OthersKept == \A n \in Leaves \ {at.leaf, at.right} : mem'.nvm[n] = mem.nvm[n]

IInv == /\ Kept(mem, Owed)
        /\ pc \in {"idle", "return", "down"} => mem.nvm = mem.cache
        /\ pc = "entry" => at.lines = {<<at.leaf, BITMAP>>}
        /\ pc \in Open => DOMAIN log = {at.leaf} /\ Untouched(mem)

-----------------------------------------------------------------------------
(* Memories of leaves *)
LEMMA StoreKept ==
  ASSUME NEW m, NEW L, NEW s, Kept(m, L)
  PROVE  Kept(Store(m, s), L \cup DOMAIN s)
<1>1. Sound(m, L)
  BY DEF Kept
<1>2. /\ Sound(Store(m, s), L \cup DOMAIN s)
      /\ DOMAIN Store(m, s).cache = DOMAIN m.cache
      /\ \A o \in DOMAIN m.cache : DOMAIN Store(m, s).cache[o] = DOMAIN m.cache[o]
  BY <1>1, StoreSound
<1> QED
  BY <1>2 DEF Kept

LEMMA FlushKept ==
  ASSUME NEW m, NEW L, NEW K, Kept(m, L)
  PROVE  Kept(flush_buffer(m, K, FALSE), L \ K) /\ flush_buffer(m, K, FALSE).cache = m.cache
<1>1. Sound(m, L)
  BY DEF Kept
<1>2. Sound(flush_buffer(m, K, FALSE), L \ K) /\ flush_buffer(m, K, FALSE).cache = m.cache
  BY <1>1, FlushSound
<1> QED
  BY <1>2 DEF Kept

LEMMA KeptMore ==
  ASSUME NEW m, NEW L, NEW K, Kept(m, L), L \subseteq K
  PROVE  Kept(m, K)
BY SoundMore DEF Kept

\* A leaf none of whose words is dirty stays so through a store elsewhere, a
\* write-back and a clflush.
LEMMA LeafStored ==
  ASSUME NEW m, NEW L, NEW s, NEW n \in Leaves, Kept(m, L), m.nvm[n] = m.cache[n],
         \A w : <<n, w>> \notin DOMAIN s
  PROVE  Store(m, s).nvm[n] = Store(m, s).cache[n]
<1>1. Sound(m, L) /\ n \in DOMAIN m.cache
  BY DEF Kept
<1>2. Store(m, s).nvm = m.nvm
  BY <1>1, StoreCache
<1>3. Store(m, s).cache[n] = [w \in DOMAIN m.cache[n] |-> m.cache[n][w]]
  BY <1>1 DEF Store, Sound, Shaped
<1>4. m.cache[n] = [w \in DOMAIN m.cache[n] |-> m.cache[n][w]]
  BY <1>1 DEF Sound, Shaped, IsFunction
<1> QED
  BY <1>2, <1>3, <1>4

LEMMA LeafWrittenBack ==
  ASSUME NEW m, NEW L, NEW K, NEW n \in Leaves, Kept(m, L), m.nvm[n] = m.cache[n]
  PROVE  WriteBack(m, K).nvm[n] = m.cache[n]
<1>1. Sound(m, L) /\ n \in DOMAIN m.nvm
  BY DEF Kept, Sound, Shaped
<1>2. WriteBack(m, K).nvm[n] = [w \in DOMAIN m.nvm[n] |-> IF <<n, w>> \in K THEN m.cache[n][w] ELSE m.nvm[n][w]]
  BY <1>1 DEF WriteBack, Sound, Shaped
<1>3. WriteBack(m, K).nvm[n] = [w \in DOMAIN m.nvm[n] |-> m.cache[n][w]]
  BY <1>2
<1>4. m.cache[n] = [w \in DOMAIN m.cache[n] |-> m.cache[n][w]]
  BY <1>1 DEF Sound, Shaped, IsFunction
<1> QED
  BY <1>3, <1>4

LEMMA LeafFlushed ==
  ASSUME NEW m, NEW L, NEW K, Kept(m, L)
  PROVE  \A n \in Leaves : m.nvm[n] = m.cache[n] => Clflush(m, K).nvm[n] = m.cache[n]
<1>1. CASE ClflushOrdered
  BY <1>1, LeafWrittenBack DEF Clflush
<1>2. CASE ~ClflushOrdered
  <2>1. [m EXCEPT !.pend = @ \cup K].nvm = m.nvm
    BY DEF Kept, Sound, Shaped
  <2> QED
    BY <1>2, <2>1 DEF Clflush
<1> QED
  BY <1>1, <1>2

-----------------------------------------------------------------------------
LEMMA InitIInv == Init => IInv
<1> SUFFICES ASSUME Init PROVE IInv
  OBVIOUS
<1> DEFINE c == [n \in Leaves |-> BlankLeaf]
<1>1. mem = Formatted(c) /\ pc = "idle"
  BY DEF Init
<1>2. IsFunction(c) /\ DOMAIN c = Leaves /\ \A n \in Leaves : IsFunction(c[n]) /\ DOMAIN c[n] = LeafWords
  BY DEF IsFunction, BlankLeaf
<1> HIDE DEF c
<1>3. Sound(mem, {}) /\ mem.nvm = mem.cache /\ mem.cache = c
  BY <1>1, <1>2, FormattedSound DEF Formatted
<1> QED
  BY <1>1, <1>2, <1>3 DEF IInv, Kept, Owed, Open

\* insert_in_leaf stores an entry, its fingerprint and the bitmap, no more.
LEMMA InsertIInv == ASSUME NEW k, NEW v, IInv, Insert(k, v) PROVE IInv'
<1> DEFINE n == find_leaf_node(k)
           i == FirstFree(Cached(n))
           lf == insert_in_leaf_noflush(Cached(n), k, v)
           s == Store1(n, lf)
           K == {<<n, i>>, <<n, Print8(i)>>, <<n, BITMAP>>}
<1>1. /\ pc = "idle" /\ pc' = "entry" /\ mem' = Store(mem, s)
      /\ at'.leaf = n /\ at'.index = i /\ at'.lines = {<<n, BITMAP>>}
  BY DEF Insert, NoLocals
<1>2. Kept(mem, {})
  BY <1>1 DEF IInv, Owed
<1>3. /\ DOMAIN s = Words(n)
      /\ \A w \in LeafWords : s[<<n, w>>] = lf[w]
  BY DEF Store1, Words
<1>4. \A w \in DOMAIN mem.cache[n] : w # i /\ w # Print8(i) /\ w # BITMAP => lf[w] = mem.cache[n][w]
  BY DEF insert_in_leaf_noflush, Placed, Cached
<1> HIDE DEF n, i, lf, s
<1>5. ASSUME NEW o \in DOMAIN mem.cache, NEW w \in DOMAIN mem.cache[o], <<o, w>> \in DOMAIN s \ K
      PROVE  s[<<o, w>>] = mem.cache[o][w]
  BY <1>2, <1>3, <1>4, <1>5 DEF Kept, Words
<1>6. Sound(mem', {} \cup K)
  <2>1. Sound(mem, {})
    BY <1>2 DEF Kept
  <2>2. \A o \in DOMAIN mem.cache : \A w \in DOMAIN mem.cache[o] :
          <<o, w>> \in DOMAIN s \ K => s[<<o, w>>] = mem.cache[o][w]
    BY <1>5
  <2> QED
    BY <1>1, <2>1, <2>2, StoreChangesSound
<1>7. Kept(mem', {} \cup DOMAIN s)
  BY <1>1, <1>2, StoreKept
<1>8. Kept(mem', {} \cup K)
  BY <1>6, <1>7 DEF Kept
<1>9. Owed' = {} \cup K
  BY <1>1 DEF Owed
<1> QED
  BY <1>1, <1>8, <1>9 DEF IInv, Open

LEMMA FlushEntryIInv == IInv /\ FlushEntry => IInv'
<1> SUFFICES ASSUME IInv, FlushEntry PROVE IInv'
  OBVIOUS
<1> DEFINE E == {<<at.leaf, at.index>>}
           P == {<<at.leaf, Print8(at.index)>>}
           m1 == flush_buffer(mem, E, FALSE)
<1>1. pc = "entry" /\ pc' = "commit" /\ at' = at /\ mem' = flush_buffer(m1, P, FALSE)
  BY DEF FlushEntry
<1>2. Kept(mem, {<<at.leaf, at.index>>, <<at.leaf, Print8(at.index)>>} \cup at.lines)
  BY <1>1 DEF IInv, Owed
<1>3. Kept(m1, ({<<at.leaf, at.index>>, <<at.leaf, Print8(at.index)>>} \cup at.lines) \ E)
  BY <1>2, FlushKept
<1> HIDE DEF m1
<1>4. Kept(mem', (({<<at.leaf, at.index>>, <<at.leaf, Print8(at.index)>>} \cup at.lines) \ E) \ P)
  BY <1>1, <1>3, FlushKept
<1>5. Kept(mem', at.lines)
  <2>1. (({<<at.leaf, at.index>>, <<at.leaf, Print8(at.index)>>} \cup at.lines) \ E) \ P \subseteq at.lines
    OBVIOUS
  <2> QED
    BY <1>4, <2>1, KeptMore
<1> QED
  BY <1>1, <1>5 DEF IInv, Owed, Open

LEMMA UpdateIInv == ASSUME NEW k, NEW v, IInv, Update(k, v) PROVE IInv'
<1> DEFINE n == find_leaf_node(k)
           i == Min(Hits(Cached(n), k))
           s == [l \in {<<n, i>>} |-> [key |-> k, ptr |-> v]]
<1>1. pc = "idle" /\ pc' = "commit" /\ mem' = Store(mem, s) /\ at'.lines = {<<n, i>>}
  BY DEF Update, NoLocals
<1>2. Kept(mem, {})
  BY <1>1 DEF IInv, Owed
<1>3. Kept(mem', {} \cup DOMAIN s) /\ DOMAIN s = at'.lines
  BY <1>1, <1>2, StoreKept
<1>4. Kept(mem', at'.lines)
  BY <1>3, KeptMore
<1> QED
  BY <1>1, <1>4 DEF IInv, Owed, Open

LEMMA CommitIInv == IInv /\ Commit => IInv'
<1> SUFFICES ASSUME IInv, Commit PROVE IInv'
  OBVIOUS
<1>1. Kept(mem, at.lines) /\ pc' = "return" /\ mem' = flush_buffer(mem, at.lines, TRUE)
  BY DEF IInv, Owed, Commit
<1>2. Sound(mem', {}) /\ mem'.nvm = mem'.cache /\ mem'.cache = mem.cache
  <2>1. Sound(mem, at.lines)
    BY <1>1 DEF Kept
  <2> QED
    BY <1>1, <2>1, FencedFlush
<1>3. Kept(mem', {})
  BY <1>1, <1>2 DEF Kept
<1> QED
  BY <1>1, <1>2, <1>3 DEF IInv, Owed, Open

LEMMA InsertSplitIInv == ASSUME NEW k, NEW v, IInv, InsertSplit(k, v) PROVE IInv'
<1>1. /\ pc = "idle" /\ pc' = "split" /\ mem' = mem /\ at'.leaf = find_leaf_node(k)
      /\ DOMAIN log' = {find_leaf_node(k)}
  BY DEF InsertSplit, NoLocals
<1>2. mem.nvm = mem.cache /\ Kept(mem, {})
  BY <1>1 DEF IInv, Owed
<1>3. Untouched(mem)'
  BY <1>1, <1>2 DEF Untouched
<1> QED
  BY <1>1, <1>2, <1>3 DEF IInv, Owed, Open

LEMMA SplitLeafIInv == IInv /\ SplitLeaf => IInv' /\ OthersKept
<1> SUFFICES ASSUME IInv, SplitLeaf PROVE IInv' /\ OthersKept
  OBVIOUS
<1>1. PICK low, high : /\ mem' = Store(Store(mem, Store1(at.leaf, low)), Store1(at.right, high))
                       /\ pc = "split" /\ pc' = "parent" /\ log' = log
                       /\ at'.leaf = at.leaf /\ at'.right = at.right
  BY DEF SplitLeaf
<1> DEFINE s == Store1(at.leaf, low)
           t == Store1(at.right, high)
           m1 == Store(mem, s)
<1>2. Kept(mem, {}) /\ Untouched(mem) /\ DOMAIN log = {at.leaf}
  BY <1>1 DEF IInv, Owed, Open
<1>3. DOMAIN s = Words(at.leaf) /\ DOMAIN t = Words(at.right)
  BY DEF Store1
<1> HIDE DEF s, t
<1>4. Kept(m1, {} \cup DOMAIN s)
  BY <1>2, StoreKept
<1>5. ASSUME NEW n \in Leaves \ {at.leaf, at.right} PROVE m1.nvm[n] = m1.cache[n]
  <2>1. mem.nvm[n] = mem.cache[n] /\ \A w : <<n, w>> \notin DOMAIN s
    BY <1>2, <1>3 DEF Untouched, Words
  <2>2. Store(mem, s).nvm[n] = Store(mem, s).cache[n]
    BY <1>2, <2>1, LeafStored
  <2> QED
    BY <2>2
<1>6. mem' = Store(m1, t)
  BY <1>1 DEF s, t
<1> HIDE DEF m1
<1>7. Kept(mem', ({} \cup DOMAIN s) \cup DOMAIN t)
  BY <1>4, <1>6, StoreKept
<1>8. ASSUME NEW n \in Leaves \ {at.leaf, at.right} PROVE mem'.nvm[n] = mem'.cache[n]
  <2>1. m1.nvm[n] = m1.cache[n] /\ \A w : <<n, w>> \notin DOMAIN t
    BY <1>3, <1>5 DEF Words
  <2>2. Store(m1, t).nvm[n] = Store(m1, t).cache[n]
    BY <1>4, <2>1, LeafStored
  <2> QED
    BY <1>6, <2>2
<1>9. Untouched(mem)'
  BY <1>1, <1>8 DEF Untouched
<1>10. Kept(mem', Words(at.leaf) \cup Words(at.right))
  BY <1>3, <1>7, KeptMore
<1>11. Sound(mem, {}) /\ Sound(m1, {} \cup DOMAIN s)
  BY <1>2, <1>4 DEF Kept
<1>12. mem'.nvm = mem.nvm
  BY <1>6, <1>11, StoreCache DEF m1
<1> QED
  BY <1>1, <1>2, <1>9, <1>10, <1>12 DEF IInv, Owed, Open, OthersKept

LEMMA LinkLeafIInv == IInv /\ LinkLeaf => IInv' /\ OthersKept
<1> SUFFICES ASSUME IInv, LinkLeaf PROVE IInv' /\ OthersKept
  OBVIOUS
<1> DEFINE s == [l \in {<<at.leaf, PNEXT>>} |-> at.right]
           A == Words(at.leaf)
           B == Words(at.right)
           m1 == Store(mem, s)
           m2 == flush_buffer(m1, A, FALSE)
<1>1. pc = "link" /\ pc' = "logcommit" /\ at' = at /\ log' = log /\ mem' = flush_buffer(m2, B, FALSE)
  BY DEF LinkLeaf
<1>2. Kept(mem, A \cup B) /\ Untouched(mem) /\ DOMAIN log = {at.leaf}
  BY <1>1 DEF IInv, Owed, Open
<1>3. DOMAIN s = {<<at.leaf, PNEXT>>} /\ <<at.leaf, PNEXT>> \in A
  BY FPTreeAssumption DEF Words, LeafWords, PNEXT, BITMAP
<1> HIDE DEF s
<1>4. Kept(m1, (A \cup B) \cup DOMAIN s)
  BY <1>2, StoreKept
<1>5. ASSUME NEW n \in Leaves \ {at.leaf, at.right}
      PROVE  m1.nvm[n] = m1.cache[n] /\ m1.nvm[n] = mem.nvm[n]
  <2>1. mem.nvm[n] = mem.cache[n] /\ \A w : <<n, w>> \notin DOMAIN s
    BY <1>2, <1>3 DEF Untouched
  <2>2. Store(mem, s).nvm[n] = Store(mem, s).cache[n]
    BY <1>2, <2>1, LeafStored
  <2>3. Sound(mem, A \cup B)
    BY <1>2 DEF Kept
  <2>4. Store(mem, s).nvm = mem.nvm
    BY <2>3, StoreCache
  <2> QED
    BY <2>2, <2>4
<1> HIDE DEF m1
<1>6. Kept(m2, ((A \cup B) \cup DOMAIN s) \ A) /\ m2.cache = m1.cache
  BY <1>4, FlushKept
<1>7. ASSUME NEW n \in Leaves \ {at.leaf, at.right}
      PROVE  m2.nvm[n] = m2.cache[n] /\ m2.nvm[n] = mem.nvm[n]
  <2> DEFINE L == (A \cup B) \cup DOMAIN s
  <2> HIDE DEF A, L
  <2>0. Kept(m1, L) /\ n \in Leaves /\ m1.nvm[n] = m1.cache[n] /\ m1.nvm[n] = mem.nvm[n]
    BY <1>4, <1>5 DEF L
  <2>1. Clflush(m1, A).nvm[n] = m1.cache[n]
    <3>1. \A x \in Leaves : m1.nvm[x] = m1.cache[x] => Clflush(m1, A).nvm[x] = m1.cache[x]
      BY <2>0, LeafFlushed
    <3> QED
      BY <2>0, <3>1
  <2>2. m2.nvm[n] = m1.cache[n]
    BY <2>1 DEF flush_buffer, A
  <2> QED
    BY <2>0, <1>6, <2>2
<1> HIDE DEF m2
<1>8. Kept(mem', (((A \cup B) \cup DOMAIN s) \ A) \ B) /\ mem'.cache = m2.cache
  BY <1>1, <1>6, FlushKept
<1>9. ASSUME NEW n \in Leaves \ {at.leaf, at.right}
      PROVE  mem'.nvm[n] = mem'.cache[n] /\ mem'.nvm[n] = mem.nvm[n]
  <2> DEFINE L == ((A \cup B) \cup DOMAIN s) \ A
  <2> HIDE DEF B, L
  <2>1. Kept(m2, L) /\ n \in Leaves /\ m2.nvm[n] = m2.cache[n]
    BY <1>6, <1>7 DEF L
  <2>2. Clflush(m2, B).nvm[n] = m2.cache[n]
    <3>1. \A x \in Leaves : m2.nvm[x] = m2.cache[x] => Clflush(m2, B).nvm[x] = m2.cache[x]
      BY <2>1, LeafFlushed
    <3> QED
      BY <2>1, <3>1
  <2>3. mem'.nvm[n] = m2.cache[n]
    BY <1>1, <2>2 DEF flush_buffer, B
  <2> QED
    BY <1>7, <1>8, <2>3
<1>10. Kept(mem', {})
  <2>1. (((A \cup B) \cup DOMAIN s) \ A) \ B \subseteq {}
    BY <1>3
  <2> QED
    BY <1>8, <2>1, KeptMore
<1> QED
  BY <1>1, <1>2, <1>9, <1>10 DEF IInv, Owed, Open, Untouched, OthersKept

LEMMA LogCommitIInv == IInv /\ LogCommit => IInv'
<1> SUFFICES ASSUME IInv, LogCommit PROVE IInv'
  OBVIOUS
<1>1. pc = "logcommit" /\ pc' = "return" /\ mem' = Mfence(mem)
  BY DEF LogCommit
<1>2. Kept(mem, {}) /\ Sound(mem, {})
  BY <1>1 DEF IInv, Owed, Kept
<1>3. Sound(mem', {}) /\ mem'.nvm = mem'.cache /\ mem'.cache = mem.cache
  BY <1>1, <1>2, FencedAll
<1>4. Kept(mem', {})
  BY <1>2, <1>3 DEF Kept
<1> QED
  BY <1>1, <1>3, <1>4 DEF IInv, Owed, Open

\* The inner nodes are not in this memory.
LEMMA InnerIInv == IInv /\ (NewRoot \/ InsertInParent \/ SplitParent) => IInv'
<1> SUFFICES ASSUME IInv, NewRoot \/ InsertInParent \/ SplitParent PROVE IInv'
  OBVIOUS
<1>1. /\ pc = "parent" /\ pc' \in {"parent", "link"} /\ mem' = mem /\ log' = log
      /\ at'.leaf = at.leaf /\ at'.right = at.right
  <2>1. CASE NewRoot
    BY <2>1 DEF NewRoot
  <2>2. CASE InsertInParent
    BY <2>2 DEF InsertInParent
  <2>3. CASE SplitParent
    <3>1. PICK c, k, s : at' = [at EXCEPT !.curr = c, !.key = k, !.split = s]
      BY <2>3 DEF SplitParent
    <3>2. at'.leaf = at.leaf /\ at'.right = at.right
      BY <3>1
    <3> QED
      BY <2>3, <3>2 DEF SplitParent
  <2> QED
    BY <2>1, <2>2, <2>3
<1> QED
  BY <1>1 DEF IInv, Owed, Open, Untouched

LEMMA EvictIInv == IInv /\ Evict => IInv' /\ (pc \in Open => OthersKept)
<1> SUFFICES ASSUME IInv, Evict PROVE IInv' /\ (pc \in Open => OthersKept)
  OBVIOUS
<1>1. PICK l \in Dirty(mem) : mem' = WriteBack(mem, {l})
  BY DEF Evict
<1>2. pc' = pc /\ at' = at /\ log' = log /\ pc \notin {"idle", "return", "down"}
  BY <1>1 DEF Evict, IInv, Dirty
<1>3. Sound(mem, Owed) /\ Kept(mem, Owed)
  BY DEF IInv, Kept
<1>4. Sound(mem', Owed \ {l}) /\ mem'.cache = mem.cache
  BY <1>1, <1>3, WriteBackSound
<1>5. Sound(mem', Owed) /\ Owed' = Owed
  BY <1>2, <1>4, SoundMore DEF Owed
<1>6. Kept(mem', Owed')
  BY <1>3, <1>4, <1>5 DEF Kept
<1>7. Untouched(mem) => Untouched(mem)'
  BY <1>1, <1>2, <1>3, <1>4, LeafWrittenBack DEF Untouched
<1>8. Untouched(mem) => OthersKept
  BY <1>1, <1>3, LeafWrittenBack DEF Untouched, OthersKept
<1> QED
  BY <1>2, <1>6, <1>7, <1>8 DEF IInv, Open

LEMMA PowerLostIInv == IInv /\ PowerLost => IInv' /\ OthersKept
<1> SUFFICES ASSUME IInv, PowerLost PROVE IInv' /\ OthersKept
  OBVIOUS
<1>1. mem' = PowerLoss(mem) /\ pc' = "down"
  BY DEF PowerLost
<1>2. Sound(mem, Owed)
  BY DEF IInv, Kept
<1>3. Sound(mem', {}) /\ mem'.nvm = mem'.cache /\ mem'.cache = mem.nvm
  BY <1>1, <1>2, PowerLossSound DEF PowerLoss
<1>4. Kept(mem', {})
  BY <1>2, <1>3 DEF IInv, Kept, Sound, Shaped
<1> QED
  BY <1>1, <1>3, <1>4 DEF IInv, Owed, Open, OthersKept

LEMMA NextIInv == IInv /\ [Next]_vars => IInv'
<1> SUFFICES ASSUME IInv, [Next]_vars PROVE IInv'
  OBVIOUS
<1>1. CASE UNCHANGED vars
  BY <1>1 DEF IInv, Owed, Open, Untouched, vars
<1>2. CASE Return
  BY <1>2 DEF Return, IInv, Owed, Open
<1> QED
  BY <1>1, <1>2, InsertIInv, FlushEntryIInv, UpdateIInv, CommitIInv, InsertSplitIInv, SplitLeafIInv,
     InnerIInv, LinkLeafIInv, LogCommitIInv, EvictIInv, PowerLostIInv DEF Next

\* Every state owes the medium at most the lines Owed names.
LEMMA OwedIsKnown == Spec => []IInv
BY InitIInv, NextIInv, PTL DEF Spec

\* What a power loss between operations may destroy: nothing (commit points of
\* insert_in_leaf, Update and Insert, FPTree.c 433 to 448, 518 to 536 and 411).
THEOREM DurableBetweenCalls == Spec => []NothingUnflushed
<1>1. IInv => NothingUnflushed
  BY DEF IInv, NothingUnflushed
<1> QED
  BY <1>1, OwedIsKnown, PTL

\* While a split is open a rollback would always find the same leaves.
THEOREM RollbackUnmoved == Spec => SplitUnseen
<1>1. ASSUME IInv, [Next]_vars, pc \in Open, pc' # "return"
      PROVE  \A n \in Leaves \ {at.right} : Recovered'[n] = Recovered[n]
  <2>1. log' = log /\ OthersKept
    <3>1. CASE UNCHANGED vars
      BY <3>1 DEF vars, OthersKept
    <3>2. CASE SplitLeaf
      BY <1>1, <3>2, SplitLeafIInv DEF SplitLeaf
    <3>3. CASE NewRoot \/ InsertInParent \/ SplitParent
      BY <3>3 DEF NewRoot, InsertInParent, SplitParent, OthersKept
    <3>4. CASE LinkLeaf
      BY <1>1, <3>4, LinkLeafIInv DEF LinkLeaf
    <3>5. CASE Evict
      BY <1>1, <3>5, EvictIInv DEF Evict
    <3>6. CASE PowerLost
      BY <1>1, <3>6, PowerLostIInv DEF PowerLost
    <3>7. CASE \/ \E c \in Inserts : Insert(c[1], c[2]) \/ InsertSplit(c[1], c[2])
               \/ \E c \in Updates : Update(c[1], c[2])
               \/ FlushEntry \/ Commit \/ Return \/ LogCommit
      BY <1>1, <3>7 DEF Insert, InsertSplit, Update, FlushEntry, Commit, Return, LogCommit, Open
    <3> QED
      BY <1>1, <3>1, <3>2, <3>3, <3>4, <3>5, <3>6, <3>7 DEF Next
  <2>2. DOMAIN log = {at.leaf}
    BY <1>1 DEF IInv
  <2> QED
    BY <2>1, <2>2 DEF Recovered, OthersKept
<1> QED
  BY <1>1, OwedIsKnown, PTL DEF Spec, SplitUnseen
=============================================================================
