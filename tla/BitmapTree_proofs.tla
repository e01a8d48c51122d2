------------------------- MODULE BitmapTree_proofs --------------------------
(***************************************************************************)
(* For nodes of any size, any keys, any number of nodes and either         *)
(* ordering of clflush: when an operation of the bitmap tree returns, the  *)
(* medium holds what the cache holds, and while a slot array changes the   *)
(* medium's bitmap is the one that declares it invalid.                    *)
(***************************************************************************)
EXTENDS BitmapTree, PMem_proofs

\* The lines the operation in progress still has to flush.
Owed ==
  CASE pc \in {"valid", "closed"} -> SlotWords(at.leaf)
    [] pc = "commit"              -> at.line
    [] pc = "parent"              -> ({at.leaf} \X Header) \cup Words(at.split)
    [] pc = "parentslot"          -> ({at.leaf} \X Header) \cup ({at.parent} \X Header)
    [] pc \in {"newroot", "link"} -> {at.leaf} \X Header
    [] OTHER                      -> {}

\* As long as a slot array is being changed outside a transaction, the medium's
\* bitmap is the one the program stored first, with bit 0 taken off.
InvalidFirst ==
  pc \in {"entry", "valid", "close", "closed"} /\ at.leaf \in Nodes =>
    mem.nvm[at.leaf][BITMAP] = mem.cache[at.leaf][BITMAP]

\* A memory of nodes that owes the medium at most the lines L.
Kept(m, L) == /\ Sound(m, L)
              /\ DOMAIN m.cache = Nodes /\ \A n \in Nodes : DOMAIN m.cache[n] = AllWords

IInv == /\ Kept(mem, Owed)
        /\ pc \in {"idle", "return", "down"} => mem.nvm = mem.cache
        /\ pc \in {"valid", "closed"} => at.line = BitmapWord(at.leaf)
        /\ InvalidFirst

-----------------------------------------------------------------------------
(* Words *)
LEMMA WordFacts ==
  /\ \A j \in Slots : Slot(j) \notin Entries /\ Slot(j) # BITMAP /\ Slot(j) - NODE_SIZE = j
  /\ \A w \in Header \ {BITMAP} : \E j \in Slots : w = Slot(j)
  /\ BITMAP \notin Entries /\ BITMAP \in AllWords /\ BITMAP \in Header
  /\ Entries \subseteq AllWords /\ Header \subseteq AllWords
  /\ PARENT \in AllWords /\ LEFTMOST \notin Entries \cup Header /\ PARENT \notin Entries \cup Header
BY NodeAssumption DEF Slots, Entries, Slot, BITMAP, LEFTMOST, PARENT, ISLEAF, AllWords, Header

LEMMA NodeWordsIs ==
  ASSUME NEW n, NEW nd
  PROVE  /\ DOMAIN NodeWords(n, nd) = {n} \X (Entries \cup Header)
         /\ \A i \in Entries : NodeWords(n, nd)[<<n, i>>] = nd.ent[i]
         /\ \A j \in Slots : NodeWords(n, nd)[<<n, Slot(j)>>] = nd.slot[j]
         /\ NodeWords(n, nd)[<<n, BITMAP>>] = nd.bitmap
<1>1. DOMAIN NodeWords(n, nd) = {n} \X (Entries \cup Header)
  BY DEF NodeWords
<1>2. ASSUME NEW i \in Entries PROVE NodeWords(n, nd)[<<n, i>>] = nd.ent[i]
  BY DEF NodeWords
<1>3. ASSUME NEW j \in Slots PROVE NodeWords(n, nd)[<<n, Slot(j)>>] = nd.slot[j]
  <2>1. Slot(j) \in Header
    BY DEF Header
  <2> QED
    BY <2>1, WordFacts DEF NodeWords
<1>4. NodeWords(n, nd)[<<n, BITMAP>>] = nd.bitmap
  BY WordFacts DEF NodeWords
<1> QED
  BY <1>1, <1>2, <1>3, <1>4

(* Memories of nodes *)
LEMMA StoreKept ==
  ASSUME NEW m, NEW L, NEW s, Kept(m, L)
  PROVE  Kept(Store(m, s), L \cup DOMAIN s)
<1>1. Sound(m, L)
  BY DEF Kept
<1>2. /\ Sound(Store(m, s), L \cup DOMAIN s)
      /\ DOMAIN Store(m, s).cache = DOMAIN m.cache
      /\ \A o \in DOMAIN m.cache : DOMAIN Store(m, s).cache[o] = DOMAIN m.cache[o]
  BY <1>1, StoreSound
<1> QED
  BY <1>2 DEF Kept

LEMMA FlushKept ==
  ASSUME NEW m, NEW L, NEW K, Kept(m, L)
  PROVE  Kept(flush_buffer(m, K, FALSE), L \ K) /\ flush_buffer(m, K, FALSE).cache = m.cache
<1>1. Sound(m, L)
  BY DEF Kept
<1>2. Sound(flush_buffer(m, K, FALSE), L \ K) /\ flush_buffer(m, K, FALSE).cache = m.cache
  BY <1>1, FlushSound
<1> QED
  BY <1>2 DEF Kept

LEMMA FenceKept ==
  ASSUME NEW m, NEW K, Kept(m, K)
  PROVE  LET f == flush_buffer(m, K, TRUE) IN Kept(f, {}) /\ f.nvm = f.cache
<1> DEFINE f == flush_buffer(m, K, TRUE)
<1>1. Sound(m, K)
  BY DEF Kept
<1>2. Sound(f, {}) /\ f.nvm = f.cache /\ f.cache = m.cache
  BY <1>1, FencedFlush
<1> QED
  BY <1>2 DEF Kept

LEMMA FlushStays ==
  ASSUME NEW m, NEW L, NEW K, NEW n \in Nodes, Kept(m, L), m.nvm[n][BITMAP] = m.cache[n][BITMAP]
  PROVE  flush_buffer(m, K, FALSE).nvm[n][BITMAP] = m.cache[n][BITMAP]
<1>1. Sound(m, L) /\ n \in DOMAIN m.cache /\ BITMAP \in DOMAIN m.cache[n]
  BY WordFacts DEF Kept
<1>2. \A o \in DOMAIN m.cache : \A w \in DOMAIN m.cache[o] :
        m.nvm[o][w] = m.cache[o][w] => Clflush(m, K).nvm[o][w] = m.cache[o][w]
  BY <1>1, ClflushKeeps
<1> QED
  BY <1>1, <1>2 DEF flush_buffer

LEMMA KeptMore ==
  ASSUME NEW m, NEW L, NEW K, Kept(m, L), L \subseteq K
  PROVE  Kept(m, K)
BY SoundMore DEF Kept

\* Storing a node dirties the words in which it differs from the cache.
LEMMA NodeStored ==
  ASSUME NEW m, NEW L, NEW n, NEW nd, NEW K, Kept(m, L),
         n \in Nodes => /\ \A i \in Entries \ K : nd.ent[i] = m.cache[n][i]
                        /\ \A j \in Slots : Slot(j) \in K \/ nd.slot[j] = m.cache[n][Slot(j)]
                        /\ BITMAP \in K \/ nd.bitmap = m.cache[n][BITMAP]
  PROVE  Kept(Store(m, NodeWords(n, nd)), L \cup ({n} \X K))
<1> DEFINE s == NodeWords(n, nd)
<1>1. /\ DOMAIN s = {n} \X (Entries \cup Header)
      /\ \A i \in Entries : s[<<n, i>>] = nd.ent[i]
      /\ \A j \in Slots : s[<<n, Slot(j)>>] = nd.slot[j]
      /\ s[<<n, BITMAP>>] = nd.bitmap
  BY NodeWordsIs
<1> HIDE DEF s
<1>2. ASSUME NEW o \in DOMAIN m.cache, NEW w, <<o, w>> \in DOMAIN s \ ({n} \X K)
      PROVE  s[<<o, w>>] = m.cache[o][w]
  <2>1. o = n /\ n \in Nodes /\ w \in Entries \cup Header /\ w \notin K
    BY <1>1, <1>2 DEF Kept
  <2>0. /\ \A i \in Entries \ K : nd.ent[i] = m.cache[n][i]
        /\ \A j \in Slots : Slot(j) \in K \/ nd.slot[j] = m.cache[n][Slot(j)]
        /\ BITMAP \in K \/ nd.bitmap = m.cache[n][BITMAP]
    BY <2>1
  <2>2. CASE w \in Entries
    BY <1>1, <2>0, <2>1, <2>2
  <2>3. CASE w = BITMAP
    BY <1>1, <2>0, <2>1, <2>3
  <2>4. CASE w \in Header \ {BITMAP}
    <3>1. PICK j \in Slots : w = Slot(j)
      BY <2>4, WordFacts
    <3> QED
      BY <1>1, <2>0, <2>1, <3>1
  <2> QED
    BY <2>1, <2>2, <2>3, <2>4
<1>3. Sound(m, L)
  BY DEF Kept
<1>4. \A o \in DOMAIN m.cache : \A w \in DOMAIN m.cache[o] :
        <<o, w>> \in DOMAIN s \ ({n} \X K) => s[<<o, w>>] = m.cache[o][w]
  BY <1>2
<1>5. Sound(Store(m, s), L \cup ({n} \X K))
  BY <1>3, <1>4, StoreChangesSound
<1>6. Kept(Store(m, s), L \cup DOMAIN s)
  BY StoreKept
<1> QED
  BY <1>5, <1>6 DEF Kept, s

\* ... and leaves its bitmap where it was on the medium if it does not change it.
LEMMA BitmapStays ==
  ASSUME NEW m, NEW L, NEW n \in Nodes, NEW nd, Kept(m, L),
         nd.bitmap = m.cache[n][BITMAP], m.nvm[n][BITMAP] = m.cache[n][BITMAP]
  PROVE  LET st == Store(m, NodeWords(n, nd)) IN st.nvm[n][BITMAP] = st.cache[n][BITMAP]
<1> DEFINE s == NodeWords(n, nd)
<1>1. s[<<n, BITMAP>>] = nd.bitmap
  BY NodeWordsIs
<1> HIDE DEF s
<1>2. /\ Store(m, s).nvm = m.nvm
      /\ \A o \in DOMAIN m.cache : \A w \in DOMAIN m.cache[o] :
           Store(m, s).cache[o][w] = IF <<o, w>> \in DOMAIN s THEN s[<<o, w>>] ELSE m.cache[o][w]
  <2>1. Sound(m, L)
    BY DEF Kept
  <2> QED
    BY <2>1, StoreCache
<1>3. n \in DOMAIN m.cache /\ BITMAP \in DOMAIN m.cache[n]
  BY WordFacts DEF Kept
<1>4. Store(m, s).nvm[n][BITMAP] = Store(m, s).cache[n][BITMAP]
  BY <1>1, <1>2, <1>3
<1> QED
  BY <1>4 DEF s

\* Which fields of a node the operators of BitmapNode change.
IsNode(nd) == nd = [slot |-> nd.slot, ent |-> nd.ent, bitmap |-> nd.bitmap]

LEMMA CachedIs ==
  ASSUME NEW n
  PROVE  /\ IsNode(Cached(n))
         /\ Cached(n).ent = mem.cache[n] /\ Cached(n).bitmap = mem.cache[n][BITMAP]
         /\ \A j \in Slots : Cached(n).slot[j] = mem.cache[n][Slot(j)]
BY DEF Cached, Node, IsNode

LEMMA InvalidatedIs ==
  ASSUME NEW nd, IsNode(nd)
  PROVE  IsNode(Invalidated(nd)) /\ Invalidated(nd).ent = nd.ent /\ Invalidated(nd).slot = nd.slot
BY DEF Invalidated, IsNode

LEMMA AppendIs ==
  ASSUME NEW nd, IsNode(nd), NEW key, NEW ptr
  PROVE  LET ad == AppendEntry(nd, key, ptr) IN
         /\ IsNode(ad) /\ ad.slot = nd.slot /\ ad.bitmap = nd.bitmap
         /\ \A i \in DOMAIN nd.ent : i # FreeEntry(nd) => ad.ent[i] = nd.ent[i]
BY DEF AppendEntry, IsNode

LEMMA SlotsInsertedIs ==
  ASSUME NEW nd, IsNode(nd), NEW key
  PROVE  LET sl == SlotsInserted(nd, key) IN IsNode(sl) /\ sl.ent = nd.ent /\ sl.bitmap = nd.bitmap
BY DEF SlotsInserted, IsNode

LEMMA SlotsDeletedIs ==
  ASSUME NEW nd, IsNode(nd), NEW key
  PROVE  LET sl == SlotsDeleted(nd, key) IN IsNode(sl) /\ sl.ent = nd.ent /\ sl.bitmap = nd.bitmap
BY DEF SlotsDeleted, IsNode

LEMMA CommittedIs ==
  ASSUME NEW nd, IsNode(nd), NEW pos
  PROVE  LET cm == Committed(nd, pos) IN IsNode(cm) /\ cm.ent = nd.ent /\ cm.slot = nd.slot
BY DEF Committed, IsNode

LEMMA BitDeletedIs ==
  ASSUME NEW nd, IsNode(nd), NEW pos
  PROVE  LET cm == BitDeleted(nd, pos) IN IsNode(cm) /\ cm.ent = nd.ent /\ cm.slot = nd.slot
BY DEF BitDeleted, IsNode

-----------------------------------------------------------------------------
LEMMA InitIInv == Init => IInv
<1> SUFFICES ASSUME Init PROVE IInv
  OBVIOUS
<1> DEFINE c == [n \in Nodes |-> [w \in AllWords |->
                   IF w \in Entries THEN NoEntry ELSE IF w \in Header \ {BITMAP} THEN 0
                   ELSE IF w = BITMAP THEN 1 ELSE IF w = ISLEAF /\ n = 1 THEN 1 ELSE NULL]]
<1>1. mem = Formatted(c) /\ pc = "idle"
  BY DEF Init
<1>2. IsFunction(c) /\ DOMAIN c = Nodes /\ \A n \in Nodes : IsFunction(c[n]) /\ DOMAIN c[n] = AllWords
  BY DEF IsFunction
<1> HIDE DEF c
<1>3. Sound(mem, {}) /\ mem.nvm = mem.cache /\ mem.cache = c
  BY <1>1, <1>2, FormattedSound DEF Formatted
<1> QED
  BY <1>1, <1>2, <1>3 DEF IInv, Kept, Owed, InvalidFirst

\* curr->bitmap - 1, flushed with fences: the medium knows.
LEMMA InvalidateIInv ==
  ASSUME NEW n, IInv, pc = "idle", mem' = Invalidate(n), at'.leaf = n, pc' \in {"entry", "close"}
  PROVE  IInv'
<1> DEFINE nd == Invalidated(Cached(n))
           m1 == Store(mem, NodeWords(n, nd))
<1>1. Kept(mem, {})
  BY DEF IInv, Owed
<1>2. nd.ent = mem.cache[n] /\ nd.slot = Cached(n).slot
  BY CachedIs, InvalidatedIs
<1>3. /\ \A i \in Entries : nd.ent[i] = mem.cache[n][i]
      /\ \A j \in Slots : nd.slot[j] = mem.cache[n][Slot(j)]
  BY <1>2, CachedIs
<1>4. mem' = flush_buffer(m1, BitmapWord(n), TRUE)
  BY DEF Invalidate
<1> HIDE DEF nd
<1>5. Kept(m1, {} \cup ({n} \X {BITMAP}))
  BY <1>1, <1>3, NodeStored
<1> HIDE DEF m1
<1>6. Kept(m1, BitmapWord(n))
  BY <1>5, KeptMore DEF BitmapWord
<1>7. Kept(mem', {}) /\ mem'.nvm = mem'.cache
  BY <1>4, <1>6, FenceKept
<1> QED
  BY <1>7 DEF IInv, Owed, InvalidFirst, Kept

LEMMA InsertEntryIInv == IInv /\ InsertEntry => IInv'
<1> SUFFICES ASSUME IInv, InsertEntry PROVE IInv'
  OBVIOUS
<1> DEFINE n == at.leaf
           loc == FreeEntry(Leaf)
           added == AppendEntry(Leaf, op.key, op.value)
           slots == SlotsInserted(added, op.key)
           m1 == Store(mem, NodeWords(n, added))
           m2 == flush_buffer(m1, EntryWord(n, loc), FALSE)
           m3 == Store(m2, NodeWords(n, slots))
           S == {Slot(j) : j \in Slots}
<1>1. /\ pc = "entry" /\ pc' = "valid" /\ mem' = m3
      /\ at'.leaf = n /\ at'.line = BitmapWord(n)
  BY DEF InsertEntry
<1>2. Kept(mem, {}) /\ InvalidFirst
  BY <1>1 DEF IInv, Owed
<1>3. /\ IsNode(added) /\ added.slot = Leaf.slot /\ added.bitmap = mem.cache[n][BITMAP]
      /\ \A i \in DOMAIN mem.cache[n] : i # loc => added.ent[i] = mem.cache[n][i]
  <2>1. IsNode(Leaf) /\ Leaf.ent = mem.cache[n] /\ Leaf.bitmap = mem.cache[n][BITMAP]
    BY CachedIs DEF Leaf
  <2>2. /\ IsNode(added) /\ added.slot = Leaf.slot /\ added.bitmap = Leaf.bitmap
        /\ \A i \in DOMAIN Leaf.ent : i # loc => added.ent[i] = Leaf.ent[i]
    BY <2>1, AppendIs
  <2> HIDE DEF added
  <2> QED
    BY <2>1, <2>2
<1>4. IsNode(slots) /\ slots.ent = added.ent /\ slots.bitmap = added.bitmap
  BY <1>3, SlotsInsertedIs
<1> HIDE DEF added, slots
<1>5. Kept(m1, {} \cup ({n} \X {loc}))
  <2>1. n \in Nodes => \A i \in Entries \ {loc} : added.ent[i] = mem.cache[n][i]
    BY <1>2, <1>3, WordFacts DEF Kept
  <2>2. \A j \in Slots : added.slot[j] = mem.cache[n][Slot(j)]
    BY <1>3, CachedIs DEF Leaf
  <2> QED
    BY <1>2, <1>3, <2>1, <2>2, NodeStored
<1>6. Kept(m2, {}) /\ m2.cache = m1.cache
  <2>1. Kept(m2, ({} \cup ({n} \X {loc})) \ EntryWord(n, loc)) /\ m2.cache = m1.cache
    BY <1>5, FlushKept
  <2>2. ({} \cup ({n} \X {loc})) \ EntryWord(n, loc) = {}
    BY DEF EntryWord
  <2> QED
    BY <2>1, <2>2
<1>7. n \in Nodes => /\ \A i \in Entries : m1.cache[n][i] = added.ent[i]
                     /\ m1.cache[n][BITMAP] = added.bitmap
  <2>1. Sound(mem, {}) /\ DOMAIN mem.cache = Nodes /\ \A o \in Nodes : DOMAIN mem.cache[o] = AllWords
    BY <1>2 DEF Kept
  <2>2. /\ m1.nvm = mem.nvm
        /\ \A o \in DOMAIN mem.cache : \A w \in DOMAIN mem.cache[o] :
             m1.cache[o][w] = IF <<o, w>> \in DOMAIN NodeWords(n, added)
                                THEN NodeWords(n, added)[<<o, w>>] ELSE mem.cache[o][w]
    BY <2>1, StoreCache
  <2>3. /\ DOMAIN NodeWords(n, added) = {n} \X (Entries \cup Header)
        /\ \A i \in Entries : NodeWords(n, added)[<<n, i>>] = added.ent[i]
        /\ NodeWords(n, added)[<<n, BITMAP>>] = added.bitmap
    BY NodeWordsIs
  <2> HIDE DEF m1
  <2> QED
    BY <2>1, <2>2, <2>3, WordFacts, ZenonT(60)
<1>8. Kept(m3, {} \cup ({n} \X S))
  <2> HIDE DEF m1, m2
  <2>1. n \in Nodes => /\ \A i \in Entries \ S : slots.ent[i] = m2.cache[n][i]
                       /\ \A j \in Slots : Slot(j) \in S
                       /\ slots.bitmap = m2.cache[n][BITMAP]
    BY <1>4, <1>6, <1>7
  <2> QED
    BY <1>6, <2>1, NodeStored
<1>9. Kept(mem', SlotWords(n))
  BY <1>1, <1>8, KeptMore DEF SlotWords
<1>10. n \in Nodes => m3.nvm[n][BITMAP] = m3.cache[n][BITMAP]
  <2> SUFFICES ASSUME n \in Nodes PROVE m3.nvm[n][BITMAP] = m3.cache[n][BITMAP]
    OBVIOUS
  <2>1. mem.nvm[n][BITMAP] = mem.cache[n][BITMAP]
    BY <1>1, <1>2 DEF InvalidFirst
  <2>2. m1.nvm[n][BITMAP] = m1.cache[n][BITMAP]
    BY <1>2, <1>3, <2>1, BitmapStays, SMTT(60)
  <2>3. m2.nvm[n][BITMAP] = m1.cache[n][BITMAP]
    BY <1>5, <2>2, FlushStays, ZenonT(60)
  <2> HIDE DEF m1, m2
  <2> QED
    BY <1>4, <1>6, <1>7, <2>3, BitmapStays
<1> HIDE DEF m3
<1> QED
  BY <1>1, <1>9, <1>10 DEF IInv, Owed, InvalidFirst
\* A node whose bitmap alone is stored, once its slot array has been flushed.
LEMMA BitStoredIInv ==
  ASSUME NEW nd, IInv, pc \in {"valid", "closed"}, pc' = "commit", at' = at,
         IsNode(nd), nd.ent = Leaf.ent, nd.slot = Leaf.slot,
         mem' = Store(flush_buffer(mem, SlotWords(at.leaf), FALSE), NodeWords(at.leaf, nd))
  PROVE  IInv'
<1> DEFINE n == at.leaf
           m1 == flush_buffer(mem, SlotWords(n), FALSE)
<1>1. Kept(mem, SlotWords(n)) /\ at.line = BitmapWord(n)
  BY DEF IInv, Owed
<1>2. Kept(m1, SlotWords(n) \ SlotWords(n)) /\ m1.cache = mem.cache
  BY <1>1, FlushKept
<1> HIDE DEF m1
<1>3. /\ \A i \in Entries : nd.ent[i] = m1.cache[n][i]
      /\ \A j \in Slots : nd.slot[j] = m1.cache[n][Slot(j)]
  BY <1>2, CachedIs DEF Leaf
<1>4. Kept(Store(m1, NodeWords(n, nd)), (SlotWords(n) \ SlotWords(n)) \cup ({n} \X {BITMAP}))
  <2>1. n \in Nodes => /\ \A i \in Entries \ {BITMAP} : nd.ent[i] = m1.cache[n][i]
                       /\ \A j \in Slots : Slot(j) \in {BITMAP} \/ nd.slot[j] = m1.cache[n][Slot(j)]
                       /\ BITMAP \in {BITMAP} \/ nd.bitmap = m1.cache[n][BITMAP]
    BY <1>3
  <2> QED
    BY <1>2, <2>1, NodeStored
<1>5. mem' = Store(m1, NodeWords(n, nd))
  BY DEF m1
<1>6. Kept(mem', BitmapWord(n))
  <2>1. (SlotWords(n) \ SlotWords(n)) \cup ({n} \X {BITMAP}) \subseteq BitmapWord(n)
    BY DEF BitmapWord
  <2> QED
    BY <1>4, <1>5, <2>1, KeptMore
<1> QED
  BY <1>1, <1>6 DEF IInv, Owed, InvalidFirst

LEMMA InsertValidIInv == IInv /\ InsertValid => IInv'
<1> SUFFICES ASSUME IInv, InsertValid PROVE IInv'
  OBVIOUS
<1>1. IsNode(Leaf)
  BY CachedIs DEF Leaf
<1>2. /\ IsNode(Committed(Leaf, at.pos))
      /\ Committed(Leaf, at.pos).ent = Leaf.ent /\ Committed(Leaf, at.pos).slot = Leaf.slot
  BY <1>1, CommittedIs
<1> QED
  BY <1>2, BitStoredIInv DEF InsertValid

LEMMA DeleteValidIInv == IInv /\ DeleteValid => IInv'
<1> SUFFICES ASSUME IInv, DeleteValid PROVE IInv'
  OBVIOUS
<1>1. IsNode(Leaf)
  BY CachedIs DEF Leaf
<1>2. /\ IsNode(BitDeleted(Leaf, at.pos))
      /\ BitDeleted(Leaf, at.pos).ent = Leaf.ent /\ BitDeleted(Leaf, at.pos).slot = Leaf.slot
  BY <1>1, BitDeletedIs
<1> QED
  BY <1>2, BitStoredIInv DEF DeleteValid

LEMMA DeleteSlotsIInv == IInv /\ DeleteSlots => IInv'
<1> SUFFICES ASSUME IInv, DeleteSlots PROVE IInv'
  OBVIOUS
<1> DEFINE n == at.leaf
           nd == SlotsDeleted(Leaf, op.key)
           S == {Slot(j) : j \in Slots}
<1>1. /\ pc = "close" /\ pc' = "closed" /\ mem' = Store(mem, NodeWords(n, nd))
      /\ at'.leaf = n /\ at'.line = BitmapWord(n)
  BY DEF DeleteSlots
<1>2. Kept(mem, {}) /\ InvalidFirst
  BY <1>1 DEF IInv, Owed
<1>3. nd.ent = mem.cache[n] /\ nd.bitmap = mem.cache[n][BITMAP]
  <2>1. IsNode(Leaf) /\ Leaf.ent = mem.cache[n] /\ Leaf.bitmap = mem.cache[n][BITMAP]
    BY CachedIs DEF Leaf
  <2>2. nd.ent = Leaf.ent /\ nd.bitmap = Leaf.bitmap
    BY <2>1, SlotsDeletedIs
  <2> QED
    BY <2>1, <2>2
<1> HIDE DEF nd
<1>4. Kept(mem', {} \cup ({n} \X S))
  <2>1. n \in Nodes => /\ \A i \in Entries \ S : nd.ent[i] = mem.cache[n][i]
                       /\ \A j \in Slots : Slot(j) \in S
                       /\ nd.bitmap = mem.cache[n][BITMAP]
    BY <1>3
  <2> QED
    BY <1>1, <1>2, <2>1, NodeStored
<1>5. Kept(mem', SlotWords(n))
  BY <1>4, KeptMore DEF SlotWords
<1>6. n \in Nodes => mem'.nvm[n][BITMAP] = mem'.cache[n][BITMAP]
  <2> SUFFICES ASSUME n \in Nodes PROVE mem'.nvm[n][BITMAP] = mem'.cache[n][BITMAP]
    OBVIOUS
  <2>1. mem.nvm[n][BITMAP] = mem.cache[n][BITMAP]
    BY <1>1, <1>2 DEF InvalidFirst
  <2>2. LET st == Store(mem, NodeWords(n, nd)) IN st.nvm[n][BITMAP] = st.cache[n][BITMAP]
    BY <1>2, <1>3, <2>1, BitmapStays, SMTT(60)
  <2> QED
    BY <1>1, <2>2
<1> QED
  BY <1>1, <1>5, <1>6 DEF IInv, Owed, InvalidFirst

LEMMA UpdateIInv == ASSUME NEW k, NEW v, IInv, Update(k, v) PROVE IInv'
<1> DEFINE n == LeafOf(k)
           i == Cached(n).slot[Search(Cached(n), k)]
           s == Pointer(n, i, [key |-> k, ptr |-> v])
<1>1. /\ pc = "idle" /\ pc' = "commit" /\ mem' = Store(mem, s) /\ at'.line = EntryWord(n, i)
  BY DEF Update
<1>2. Kept(mem, {})
  BY <1>1 DEF IInv, Owed
<1>3. Kept(mem', {} \cup DOMAIN s) /\ DOMAIN s = EntryWord(n, i)
  BY <1>1, <1>2, StoreKept DEF Pointer, EntryWord
<1>4. Kept(mem', at'.line)
  BY <1>1, <1>3, KeptMore
<1> QED
  BY <1>1, <1>4 DEF IInv, Owed, InvalidFirst

LEMMA CommitIInv == IInv /\ Commit => IInv'
<1> SUFFICES ASSUME IInv, Commit PROVE IInv'
  OBVIOUS
<1>1. Kept(mem, at.line) /\ pc' = "return" /\ mem' = flush_buffer(mem, at.line, TRUE)
  BY DEF IInv, Owed, Commit
<1>2. Kept(mem', {}) /\ mem'.nvm = mem'.cache
  BY <1>1, FenceKept
<1> QED
  BY <1>1, <1>2 DEF IInv, Owed, InvalidFirst

-----------------------------------------------------------------------------
(* Splits *)
LEMMA SplitLeafIInv == IInv /\ SplitLeaf => IInv'
<1> SUFFICES ASSUME IInv, SplitLeaf PROVE IInv'
  OBVIOUS
<1> DEFINE n == at.leaf
           parts == SplitBoth(Leaf, op.key, op.value)
           new == NewNode(fresh, parts.right, Leftmost(mem.cache, n), NULL, 1)
           m1 == Store(mem, new)
           m2 == Store(m1, NodeWords(n, parts.left))
           E == {n} \X Entries
<1>1. /\ pc = "split" /\ pc' = "parent" /\ at'.leaf = n /\ at'.split = fresh
      /\ mem' = flush_buffer(m2, E, FALSE)
  BY DEF SplitLeaf
<1>2. Kept(mem, {})
  BY <1>1 DEF IInv, Owed
<1>3. DOMAIN new = Words(fresh) /\ DOMAIN NodeWords(n, parts.left) = {n} \X (Entries \cup Header)
  BY NodeWordsIs DEF NewNode
<1> HIDE DEF new, parts
<1>4. Kept(m1, {} \cup DOMAIN new)
  BY <1>2, StoreKept
<1> HIDE DEF m1
<1>5. Kept(m2, ({} \cup DOMAIN new) \cup DOMAIN NodeWords(n, parts.left))
  BY <1>4, StoreKept
<1> HIDE DEF m2
<1>6. Kept(mem', (({} \cup DOMAIN new) \cup DOMAIN NodeWords(n, parts.left)) \ E)
  BY <1>1, <1>5, FlushKept
<1>7. Kept(mem', ({n} \X Header) \cup Words(fresh))
  <2>1. (({} \cup DOMAIN new) \cup DOMAIN NodeWords(n, parts.left)) \ E
          \subseteq ({n} \X Header) \cup Words(fresh)
    BY <1>3
  <2> QED
    BY <1>6, <2>1, KeptMore
<1> QED
  BY <1>1, <1>7 DEF IInv, Owed, InvalidFirst

LEMMA SplitRootIInv == IInv /\ SplitRoot => IInv'
<1> SUFFICES ASSUME IInv, SplitRoot PROVE IInv'
  OBVIOUS
<1> DEFINE nd == [EmptyBitmapNode EXCEPT !.slot[0] = 1, !.bitmap = @ + Bit(1),
                                         !.ent[0] = [key |-> at.key, ptr |-> at.split]]
           new == NewNode(fresh, nd, at.curr, NULL, 0)
           up == Pointer(at.split, PARENT, fresh)
           F == Words(fresh) \cup Words(at.split)
           m1 == Store(mem, new)
           m2 == Store(m1, up)
           m3 == flush_buffer(m2, F, FALSE)
           own == Pointer(at.curr, PARENT, fresh)
           m4 == Store(m3, own)
           H == {at.leaf} \X Header
<1>1. /\ pc = "parent" /\ pc' = "newroot" /\ at' = at
      /\ mem' = flush_buffer(m4, {<<at.curr, PARENT>>}, FALSE)
  BY DEF SplitRoot
<1>2. Kept(mem, H \cup Words(at.split))
  BY <1>1 DEF IInv, Owed
<1> HIDE DEF nd
<1>3. /\ DOMAIN new = Words(fresh) /\ DOMAIN up \subseteq Words(at.split)
      /\ DOMAIN own = {<<at.curr, PARENT>>}
  BY WordFacts DEF NewNode, Pointer, Words
<1> HIDE DEF new, up, own
<1>4. Kept(m1, (H \cup Words(at.split)) \cup DOMAIN new)
  BY <1>2, StoreKept
<1> HIDE DEF m1
<1>5. Kept(m2, ((H \cup Words(at.split)) \cup DOMAIN new) \cup DOMAIN up)
  BY <1>4, StoreKept
<1> HIDE DEF m2
<1>6. Kept(m3, (((H \cup Words(at.split)) \cup DOMAIN new) \cup DOMAIN up) \ F)
  BY <1>5, FlushKept
<1> HIDE DEF m3
<1>7. Kept(m3, H)
  <2>1. (((H \cup Words(at.split)) \cup DOMAIN new) \cup DOMAIN up) \ F \subseteq H
    BY <1>3
  <2> QED
    BY <1>6, <2>1, KeptMore
<1>8. Kept(m4, H \cup DOMAIN own)
  BY <1>7, StoreKept
<1> HIDE DEF m4
<1>9. Kept(mem', (H \cup DOMAIN own) \ {<<at.curr, PARENT>>})
  BY <1>1, <1>8, FlushKept
<1>10. Kept(mem', H)
  <2>1. (H \cup DOMAIN own) \ {<<at.curr, PARENT>>} \subseteq H
    BY <1>3
  <2> QED
    BY <1>9, <2>1, KeptMore
<1> QED
  BY <1>1, <1>10 DEF IInv, Owed, InvalidFirst
\* In ParentEntry only the bitmap and one entry differ from the cache.
LEMMA ParentEntryIInv == IInv /\ ParentEntry => IInv'
<1> SUFFICES ASSUME IInv, ParentEntry PROVE IInv'
  OBVIOUS
<1> DEFINE p == ParentOf
           inv == Invalidated(Cached(p))
           nd == AppendEntry(inv, at.key, at.split)
           up == Pointer(at.split, PARENT, p)
           H == {at.leaf} \X Header
           loc == FreeEntry(inv)
           D == Header \cup {loc}
           m1 == Store(mem, NodeWords(p, nd))
           m2 == Store(m1, up)
           F == Words(at.split) \cup EntryWord(p, loc)
<1>1. /\ pc = "parent" /\ pc' = "parentslot" /\ at'.leaf = at.leaf /\ at'.parent = p
      /\ mem' = flush_buffer(m2, F, FALSE)
  BY DEF ParentEntry
<1>2. Kept(mem, H \cup Words(at.split))
  BY <1>1 DEF IInv, Owed
<1>3. /\ nd.slot = Cached(p).slot
      /\ \A i \in DOMAIN mem.cache[p] : i # loc => nd.ent[i] = mem.cache[p][i]
  <2>1. IsNode(inv) /\ inv.ent = mem.cache[p] /\ inv.slot = Cached(p).slot
    BY CachedIs, InvalidatedIs
  <2> HIDE DEF inv
  <2>2. /\ nd.slot = inv.slot
        /\ \A i \in DOMAIN inv.ent : i # loc => nd.ent[i] = inv.ent[i]
    BY <2>1, AppendIs
  <2> HIDE DEF nd
  <2> QED
    BY <2>1, <2>2
<1>4. DOMAIN up \subseteq Words(at.split)
  BY WordFacts DEF Pointer, Words
<1> HIDE DEF inv, nd, up, loc
<1>5. Kept(m1, (H \cup Words(at.split)) \cup ({p} \X D))
  <2>1. p \in Nodes => /\ \A i \in Entries \ D : nd.ent[i] = mem.cache[p][i]
                       /\ \A j \in Slots : Slot(j) \in D \/ nd.slot[j] = mem.cache[p][Slot(j)]
                       /\ BITMAP \in D \/ nd.bitmap = mem.cache[p][BITMAP]
    BY <1>2, <1>3, WordFacts DEF Kept, Header
  <2> QED
    BY <1>2, <2>1, NodeStored
<1> HIDE DEF m1
<1>6. Kept(m2, ((H \cup Words(at.split)) \cup ({p} \X D)) \cup DOMAIN up)
  BY <1>5, StoreKept
<1> HIDE DEF m2
<1>7. Kept(mem', (((H \cup Words(at.split)) \cup ({p} \X D)) \cup DOMAIN up) \ F)
  BY <1>1, <1>6, FlushKept
<1>8. Kept(mem', H \cup ({p} \X Header))
  <2>1. (((H \cup Words(at.split)) \cup ({p} \X D)) \cup DOMAIN up) \ F \subseteq H \cup ({p} \X Header)
    BY <1>4 DEF EntryWord
  <2> QED
    BY <1>7, <2>1, KeptMore
<1> QED
  BY <1>1, <1>8 DEF IInv, Owed, InvalidFirst

LEMMA ParentSlotsIInv == IInv /\ ParentSlots => IInv'
<1> SUFFICES ASSUME IInv, ParentSlots PROVE IInv'
  OBVIOUS
<1> DEFINE p == at.parent
           loc == FreeEntry(Cached(p))
           in == SlotsInserted(Cached(p), at.key)
           nd == Committed(in, loc)
           H == {at.leaf} \X Header
           m1 == Store(mem, NodeWords(p, nd))
           F == {p} \X Header
<1>1. pc = "parentslot" /\ pc' = "link" /\ at' = at /\ mem' = flush_buffer(m1, F, FALSE)
  BY DEF ParentSlots
<1>2. Kept(mem, H \cup F)
  BY <1>1 DEF IInv, Owed
<1>3. nd.ent = mem.cache[p]
  <2>1. IsNode(in) /\ in.ent = mem.cache[p]
    BY CachedIs, SlotsInsertedIs
  <2> HIDE DEF in
  <2>2. nd.ent = in.ent
    BY <2>1, CommittedIs
  <2> QED
    BY <2>1, <2>2
<1> HIDE DEF in, nd, loc
<1>4. Kept(m1, (H \cup F) \cup ({p} \X Header))
  <2>1. p \in Nodes => /\ \A i \in Entries \ Header : nd.ent[i] = mem.cache[p][i]
                       /\ \A j \in Slots : Slot(j) \in Header \/ nd.slot[j] = mem.cache[p][Slot(j)]
                       /\ BITMAP \in Header \/ nd.bitmap = mem.cache[p][BITMAP]
    BY <1>3 DEF Header
  <2> QED
    BY <1>2, <2>1, NodeStored
<1> HIDE DEF m1
<1>5. Kept(mem', ((H \cup F) \cup ({p} \X Header)) \ F)
  BY <1>1, <1>4, FlushKept
<1>6. Kept(mem', H)
  <2>1. ((H \cup F) \cup ({p} \X Header)) \ F \subseteq H
    OBVIOUS
  <2> QED
    BY <1>5, <2>1, KeptMore
<1> QED
  BY <1>1, <1>6 DEF IInv, Owed, InvalidFirst

LEMMA SplitParentIInv == IInv /\ SplitParent => IInv'
<1> SUFFICES ASSUME IInv, SplitParent PROVE IInv'
  OBVIOUS
<1> DEFINE p == ParentOf
           node == Cached(p)
           parts == SplitBoth(node, at.key, at.split)
           moved == {e.ptr : e \in Stored(Upper(node))}
           home == IF Key(Upper(node), 1) > at.key THEN p ELSE fresh
           new == NewNode(fresh, parts.right, NULL, NULL, 0)
           ad == Adopted(moved, fresh)
           up == Pointer(at.split, PARENT, home)
           low == NodeWords(p, parts.left)
           H == {at.leaf} \X Header
           P == {p} \X (Entries \cup Header)
           F == (moved \X {PARENT}) \cup Words(at.split) \cup P
           m1 == Store(mem, new)
           m2 == Store(m1, ad)
           m3 == Store(m2, up)
           m4 == Store(m3, low)
<1>1. /\ pc = "parent" /\ pc' = "parent" /\ at'.leaf = at.leaf /\ at'.split = fresh
      /\ mem' = flush_buffer(m4, F, FALSE)
  BY DEF SplitParent
<1>2. Kept(mem, H \cup Words(at.split))
  BY <1>1 DEF IInv, Owed
<1> HIDE DEF parts, moved, home
<1>3. /\ DOMAIN new = Words(fresh) /\ DOMAIN ad = moved \X {PARENT}
      /\ DOMAIN up \subseteq Words(at.split) /\ DOMAIN low = P
  <2>1. DOMAIN low = P
    BY NodeWordsIs
  <2>2. DOMAIN new = Words(fresh)
    BY DEF NewNode
  <2> QED
    BY <2>1, <2>2, WordFacts DEF Pointer, Words, Adopted
<1> HIDE DEF new, ad, up, low
<1>4. Kept(m1, (H \cup Words(at.split)) \cup DOMAIN new)
  BY <1>2, StoreKept
<1> HIDE DEF m1
<1>5. Kept(m2, ((H \cup Words(at.split)) \cup DOMAIN new) \cup DOMAIN ad)
  BY <1>4, StoreKept
<1> HIDE DEF m2
<1>6. Kept(m3, (((H \cup Words(at.split)) \cup DOMAIN new) \cup DOMAIN ad) \cup DOMAIN up)
  BY <1>5, StoreKept
<1> HIDE DEF m3
<1>7. Kept(m4, ((((H \cup Words(at.split)) \cup DOMAIN new) \cup DOMAIN ad) \cup DOMAIN up) \cup DOMAIN low)
  BY <1>6, StoreKept
<1> HIDE DEF m4
<1>8. Kept(mem', (((((H \cup Words(at.split)) \cup DOMAIN new) \cup DOMAIN ad) \cup DOMAIN up) \cup DOMAIN low) \ F)
  BY <1>1, <1>7, FlushKept
<1>9. Kept(mem', H \cup Words(fresh))
  <2>1. (((((H \cup Words(at.split)) \cup DOMAIN new) \cup DOMAIN ad) \cup DOMAIN up) \cup DOMAIN low) \ F
          \subseteq H \cup Words(fresh)
    BY <1>3
  <2> QED
    BY <1>8, <2>1, KeptMore
<1> QED
  BY <1>1, <1>9 DEF IInv, Owed, InvalidFirst

LEMMA LinkLeafIInv == IInv /\ LinkLeaf => IInv'
<1> SUFFICES ASSUME IInv, LinkLeaf PROVE IInv'
  OBVIOUS
<1> DEFINE s == Pointer(at.leaf, LEFTMOST, at.right)
           H == {at.leaf} \X Header
           F == {at.leaf} \X (Header \cup {LEFTMOST})
           m1 == Store(mem, s)
<1>1. pc = "link" /\ pc' = "logcommit" /\ at' = at /\ mem' = flush_buffer(m1, F, FALSE)
  BY DEF LinkLeaf
<1>2. Kept(mem, H)
  BY <1>1 DEF IInv, Owed
<1>3. DOMAIN s \subseteq F
  BY DEF Pointer
<1> HIDE DEF s
<1>4. Kept(m1, H \cup DOMAIN s)
  BY <1>2, StoreKept
<1> HIDE DEF m1
<1>5. Kept(mem', (H \cup DOMAIN s) \ F)
  BY <1>1, <1>4, FlushKept
<1>6. Kept(mem', {})
  <2>1. (H \cup DOMAIN s) \ F \subseteq {}
    BY <1>3
  <2> QED
    BY <1>5, <2>1, KeptMore
<1> QED
  BY <1>1, <1>6 DEF IInv, Owed, InvalidFirst

\* The fences of the log's commit are the last of the split's flushes as well.
LEMMA LogCommitIInv == IInv /\ LogCommit => IInv'
<1> SUFFICES ASSUME IInv, LogCommit PROVE IInv'
  OBVIOUS
<1>1. pc = "logcommit" /\ pc' = "return" /\ mem' = Mfence(mem)
  BY DEF LogCommit
<1>2. Kept(mem, {})
  BY <1>1 DEF IInv, Owed
<1>3. Sound(mem', {}) /\ mem'.cache = mem.cache /\ mem'.nvm = mem'.cache
  <2>1. Sound(mem, {})
    BY <1>2 DEF Kept
  <2> QED
    BY <1>1, <2>1, FencedAll
<1>4. Kept(mem', {})
  BY <1>2, <1>3 DEF Kept
<1> QED
  BY <1>1, <1>3, <1>4 DEF IInv, Owed, InvalidFirst
-----------------------------------------------------------------------------
LEMMA EvictIInv == IInv /\ Evict => IInv'
<1> SUFFICES ASSUME IInv, Evict PROVE IInv'
  OBVIOUS
<1>1. PICK l \in Dirty(mem) : mem' = WriteBack(mem, {l})
  BY DEF Evict
<1>2. pc' = pc /\ at' = at /\ pc \notin {"idle", "return", "down"}
  BY <1>1 DEF Evict, IInv, Dirty
<1>3. Sound(mem, Owed)
  BY DEF IInv, Kept
<1>4. Sound(mem', Owed \ {l}) /\ mem'.cache = mem.cache
  BY <1>1, <1>3, WriteBackSound
<1>5. Sound(mem', Owed) /\ Owed' = Owed
  BY <1>2, <1>4, SoundMore DEF Owed
<1>6. Kept(mem', Owed')
  BY <1>4, <1>5 DEF IInv, Kept
<1>7. InvalidFirst'
  <2> SUFFICES ASSUME pc \in {"entry", "valid", "close", "closed"}, at.leaf \in Nodes
               PROVE  mem'.nvm[at.leaf][BITMAP] = mem'.cache[at.leaf][BITMAP]
    BY <1>2 DEF InvalidFirst
  <2>1. mem.nvm[at.leaf][BITMAP] = mem.cache[at.leaf][BITMAP]
    BY DEF IInv, InvalidFirst
  <2>2. at.leaf \in DOMAIN mem.nvm /\ BITMAP \in DOMAIN mem.nvm[at.leaf]
    BY <1>3, WordFacts DEF IInv, Kept, Sound, Shaped
  <2>3. mem'.nvm[at.leaf][BITMAP] = mem.cache[at.leaf][BITMAP]
    BY <1>1, <1>3, <2>1, <2>2 DEF WriteBack, Sound, Shaped
  <2> QED
    BY <1>4, <2>3
<1> QED
  BY <1>2, <1>6, <1>7 DEF IInv

LEMMA PowerLostIInv == IInv /\ PowerLost => IInv'
<1> SUFFICES ASSUME IInv, PowerLost PROVE IInv'
  OBVIOUS
<1>1. mem' = PowerLoss(mem) /\ pc' = "down"
  BY DEF PowerLost
<1>2. Sound(mem, Owed)
  BY DEF IInv, Kept
<1>3. Sound(mem', {}) /\ mem'.nvm = mem'.cache /\ mem'.cache = mem.nvm
  BY <1>1, <1>2, PowerLossSound DEF PowerLoss
<1>4. Kept(mem', {})
  BY <1>2, <1>3 DEF IInv, Kept, Sound, Shaped
<1> QED
  BY <1>1, <1>3, <1>4 DEF IInv, Owed, InvalidFirst

\* What a restart makes of the medium is a memory of nodes again.
LEMMA RestartIInv == IInv /\ Restart => IInv'
<1> SUFFICES ASSUME IInv, Restart PROVE IInv'
  OBVIOUS
<1> DEFINE c == RepairedAll(Overwritten(Undone))
<1>1. Recovered = c
  BY DEF Recovered, With
<1>2. pc' = "idle" /\ mem' = Formatted(c)
  BY <1>1 DEF Restart
<1>3. \A n \in Nodes : /\ IsFunction(Overwritten(Undone)[n])
                       /\ DOMAIN Overwritten(Undone)[n] = AllWords
  <2>1. \A n \in Nodes : IsFunction(Undone[n]) /\ DOMAIN Undone[n] = AllWords
    BY DEF Undone, IsFunction
  <2> QED
    BY <2>1 DEF Overwritten, IsFunction
<1>4. /\ IsFunction(c) /\ DOMAIN c = Nodes
      /\ \A n \in Nodes : IsFunction(c[n]) /\ DOMAIN c[n] = AllWords
  BY <1>3, ZenonT(60) DEF RepairedAll, With, IsFunction
<1> HIDE DEF c
<1>5. Sound(mem', {}) /\ mem'.nvm = mem'.cache
  BY <1>2, <1>4, FormattedSound
<1>6. mem'.cache = c
  BY <1>2 DEF Formatted
<1>7. Kept(mem', {})
  BY <1>4, <1>5, <1>6 DEF Kept
<1> QED
  BY <1>2, <1>5, <1>7 DEF IInv, Owed, InvalidFirst
LEMMA NextIInv == IInv /\ [Next]_vars => IInv'
<1> SUFFICES ASSUME IInv, [Next]_vars PROVE IInv'
  OBVIOUS
<1>1. CASE UNCHANGED vars
  BY <1>1 DEF IInv, Owed, InvalidFirst, vars
<1>2. ASSUME NEW k, NEW v, InsertBegin(k, v) PROVE IInv'
  BY <1>2, InvalidateIInv DEF InsertBegin
<1>3. ASSUME NEW k, DeleteBegin(k) PROVE IInv'
  BY <1>3, InvalidateIInv DEF DeleteBegin
<1>4. ASSUME NEW k, NEW v, InsertSplit(k, v) PROVE IInv'
  BY <1>4 DEF InsertSplit, IInv, Owed, InvalidFirst
<1>5. CASE Return
  BY <1>5 DEF Return, IInv, Owed, InvalidFirst
<1>6. CASE NewRoot
  BY <1>6 DEF NewRoot, IInv, Owed, InvalidFirst
<1> QED
  BY <1>1, <1>2, <1>3, <1>4, <1>5, <1>6, InsertEntryIInv, InsertValidIInv, UpdateIInv,
     DeleteSlotsIInv, DeleteValidIInv, CommitIInv, SplitLeafIInv, SplitRootIInv, ParentEntryIInv,
     ParentSlotsIInv, SplitParentIInv, LinkLeafIInv, LogCommitIInv, EvictIInv, PowerLostIInv,
     RestartIInv DEF Next

-----------------------------------------------------------------------------
LEMMA OwedIsKnown == Spec => []IInv
BY InitIInv, NextIInv, PTL DEF Spec

\* When an insert, update, delete or a whole split has returned, the medium
\* holds every word of the tree the program reads (the flushes of wbtree.c,
\* fenced only where they say so).
THEOREM DurableBetweenCalls == Spec => []DurableWhenIdle
<1>1. IInv => DurableWhenIdle
  BY DEF IInv, DurableWhenIdle
<1> QED
  BY <1>1, OwedIsKnown, PTL

\* insert_in_leaf and delete_in_leaf: the bitmap with bit 0 taken off is on the
\* medium before the first slot changes and until the last one was flushed.
THEOREM BitmapBeforeSlots == Spec => []InvalidFirst
<1>1. IInv => InvalidFirst
  BY DEF IInv
<1> QED
  BY <1>1, OwedIsKnown, PTL
=============================================================================
