---------------------------- MODULE PMem_proofs ----------------------------
(***************************************************************************)
(* What a store, a flush and a fence do to the lines that are not yet on   *)
(* the medium, for memories of any size.  The proofs about the indexes     *)
(* rest on these lemmas, and on the one about numbers at the end.          *)
(***************************************************************************)
EXTENDS PMem, WellFoundedInduction, TLAPS

IsFunction(f) == f = [x \in DOMAIN f |-> f[x]]

\* A memory: the cache and the medium have the same words.
Shaped(m) ==
  /\ m \in [cache : {m.cache}, nvm : {m.nvm}, pend : {m.pend}]
  /\ IsFunction(m.cache) /\ IsFunction(m.nvm) /\ DOMAIN m.nvm = DOMAIN m.cache
  /\ \A o \in DOMAIN m.cache : /\ IsFunction(m.cache[o]) /\ IsFunction(m.nvm[o])
                               /\ DOMAIN m.nvm[o] = DOMAIN m.cache[o]

\* The lines outside L are on the medium, or on their way to it.
CleanBut(m, L) ==
  \A o \in DOMAIN m.cache : \A w \in DOMAIN m.cache[o] :
    m.cache[o][w] = m.nvm[o][w] \/ <<o, w>> \in m.pend \/ <<o, w>> \in L

\* Where clflush is ordered nothing is ever on its way.
Settled(m) == ClflushOrdered => m.pend = {}

Sound(m, L) == Shaped(m) /\ Settled(m) /\ CleanBut(m, L)

-----------------------------------------------------------------------------
\* More lines may be owed than are.
LEMMA SoundMore ==
  ASSUME NEW m, NEW L, NEW K, Sound(m, L), L \subseteq K
  PROVE  Sound(m, K)
BY DEF Sound, CleanBut

\* A store dirties the lines it names.
LEMMA StoreSound ==
  ASSUME NEW m, NEW L, NEW s, Sound(m, L)
  PROVE  /\ Sound(Store(m, s), L \cup DOMAIN s)
         /\ DOMAIN Store(m, s).cache = DOMAIN m.cache
         /\ \A o \in DOMAIN m.cache : DOMAIN Store(m, s).cache[o] = DOMAIN m.cache[o]
<1> DEFINE c == [o \in DOMAIN m.cache |-> [w \in DOMAIN m.cache[o] |->
                   IF <<o, w>> \in DOMAIN s THEN s[<<o, w>>] ELSE m.cache[o][w]]]
<1>1. /\ Store(m, s).cache = c /\ Store(m, s).nvm = m.nvm /\ Store(m, s).pend = m.pend
      /\ Store(m, s) \in [cache : {c}, nvm : {m.nvm}, pend : {m.pend}]
  BY DEF Sound, Shaped, Store
<1>2. Shaped(Store(m, s))
  BY <1>1 DEF Sound, Shaped, IsFunction
<1>3. CleanBut(Store(m, s), L \cup DOMAIN s)
  <2> SUFFICES ASSUME NEW o \in DOMAIN m.cache, NEW w \in DOMAIN m.cache[o],
                      <<o, w>> \notin DOMAIN s
               PROVE  c[o][w] = m.nvm[o][w] \/ <<o, w>> \in m.pend \/ <<o, w>> \in L
    BY <1>1 DEF CleanBut
  <2>1. c[o][w] = m.cache[o][w]
    OBVIOUS
  <2>2. m.cache[o][w] = m.nvm[o][w] \/ <<o, w>> \in m.pend \/ <<o, w>> \in L
    BY DEF Sound, CleanBut
  <2> HIDE DEF c
  <2> QED
    BY <2>1, <2>2
<1> QED
  BY <1>1, <1>2, <1>3 DEF Sound, Settled

\* Where a store repeats what the cache holds it dirties nothing.
LEMMA StoreChangesSound ==
  ASSUME NEW m, NEW L, NEW s, NEW K, Sound(m, L),
         \A o \in DOMAIN m.cache : \A w \in DOMAIN m.cache[o] :
           <<o, w>> \in DOMAIN s \ K => s[<<o, w>>] = m.cache[o][w]
  PROVE  Sound(Store(m, s), L \cup K)
<1> DEFINE c == [o \in DOMAIN m.cache |-> [w \in DOMAIN m.cache[o] |->
                   IF <<o, w>> \in DOMAIN s THEN s[<<o, w>>] ELSE m.cache[o][w]]]
<1>1. Store(m, s).cache = c /\ Store(m, s).nvm = m.nvm /\ Store(m, s).pend = m.pend
  BY DEF Sound, Shaped, Store
<1>2. Sound(Store(m, s), L \cup DOMAIN s)
  BY StoreSound
<1>3. ASSUME NEW o \in DOMAIN m.cache, NEW w \in DOMAIN m.cache[o]
      PROVE  c[o][w] = m.nvm[o][w] \/ <<o, w>> \in m.pend \/ <<o, w>> \in L \cup K
  <2>1. CASE <<o, w>> \in K
    BY <2>1
  <2>2. CASE <<o, w>> \notin K
    <3>1. c[o][w] = m.cache[o][w]
      BY <2>2
    <3> HIDE DEF c
    <3> QED
      BY <3>1 DEF Sound, CleanBut
  <2> QED
    BY <2>1, <2>2
<1>4. DOMAIN c = DOMAIN m.cache /\ \A o \in DOMAIN m.cache : DOMAIN c[o] = DOMAIN m.cache[o]
  OBVIOUS
<1> HIDE DEF c
<1>5. CleanBut(Store(m, s), L \cup K)
  BY <1>1, <1>3, <1>4 DEF CleanBut
<1> QED
  BY <1>2, <1>5 DEF Sound

\* What a store leaves in the cache.
LEMMA StoreCache ==
  ASSUME NEW m, NEW L, NEW s, Sound(m, L)
  PROVE  /\ Store(m, s).nvm = m.nvm
         /\ \A o \in DOMAIN m.cache : \A w \in DOMAIN m.cache[o] :
              Store(m, s).cache[o][w] = IF <<o, w>> \in DOMAIN s THEN s[<<o, w>>] ELSE m.cache[o][w]
BY DEF Sound, Shaped, Store

\* A write-back cleans the lines it takes.
LEMMA WriteBackSound ==
  ASSUME NEW m, NEW L, NEW K, Sound(m, L)
  PROVE  /\ Sound(WriteBack(m, K), L \ K)
         /\ WriteBack(m, K).cache = m.cache /\ WriteBack(m, K).pend = m.pend
<1> DEFINE n == [o \in DOMAIN m.nvm |-> [w \in DOMAIN m.nvm[o] |->
                   IF <<o, w>> \in K THEN m.cache[o][w] ELSE m.nvm[o][w]]]
<1>1. /\ WriteBack(m, K).cache = m.cache /\ WriteBack(m, K).nvm = n /\ WriteBack(m, K).pend = m.pend
      /\ WriteBack(m, K) \in [cache : {m.cache}, nvm : {n}, pend : {m.pend}]
  BY DEF Sound, Shaped, WriteBack
<1>2. Shaped(WriteBack(m, K))
  <2>1. /\ DOMAIN n = DOMAIN m.cache /\ IsFunction(n)
        /\ \A o \in DOMAIN m.cache : IsFunction(n[o]) /\ DOMAIN n[o] = DOMAIN m.cache[o]
    BY DEF Sound, Shaped, IsFunction
  <2> HIDE DEF n
  <2> QED
    BY <1>1, <2>1 DEF Sound, Shaped
<1>3. CleanBut(WriteBack(m, K), L \ K)
  <2> SUFFICES ASSUME NEW o \in DOMAIN m.cache, NEW w \in DOMAIN m.cache[o]
               PROVE  m.cache[o][w] = n[o][w] \/ <<o, w>> \in m.pend \/ <<o, w>> \in L \ K
    BY <1>1 DEF CleanBut
  <2>1. n[o][w] = IF <<o, w>> \in K THEN m.cache[o][w] ELSE m.nvm[o][w]
    BY DEF Sound, Shaped
  <2>2. m.cache[o][w] = m.nvm[o][w] \/ <<o, w>> \in m.pend \/ <<o, w>> \in L
    BY DEF Sound, CleanBut
  <2> HIDE DEF n
  <2> QED
    BY <2>1, <2>2
<1> QED
  BY <1>1, <1>2, <1>3 DEF Sound, Settled

\* Whichever way clflush is ordered, its lines are on their way after it.
LEMMA ClflushSound ==
  ASSUME NEW m, NEW L, NEW K, Sound(m, L)
  PROVE  Sound(Clflush(m, K), L \ K) /\ Clflush(m, K).cache = m.cache
<1>1. CASE ClflushOrdered
  BY <1>1, WriteBackSound DEF Clflush
<1>2. CASE ~ClflushOrdered
  <2> DEFINE f == [m EXCEPT !.pend = @ \cup K]
  <2>1. /\ f.cache = m.cache /\ f.nvm = m.nvm /\ f.pend = m.pend \cup K
        /\ f \in [cache : {m.cache}, nvm : {m.nvm}, pend : {m.pend \cup K}]
    BY DEF Sound, Shaped
  <2>2. Shaped(f) /\ CleanBut(f, L \ K) /\ Settled(f)
    BY <1>2, <2>1 DEF Sound, Shaped, IsFunction, CleanBut, Settled
  <2> QED
    BY <1>2, <2>1, <2>2 DEF Sound, Clflush
<1> QED
  BY <1>1, <1>2

\* A fence empties what is on its way.
LEMMA MfenceSound ==
  ASSUME NEW m, NEW L, Sound(m, L)
  PROVE  Sound(Mfence(m), L) /\ Mfence(m).cache = m.cache /\ Mfence(m).pend = {}
<1> DEFINE b == WriteBack(m, m.pend)
           f == [b EXCEPT !.pend = {}]
<1>1. Sound(b, L \ m.pend) /\ b.cache = m.cache /\ b.pend = m.pend
  BY WriteBackSound
<1>2. /\ f.cache = b.cache /\ f.nvm = b.nvm /\ f.pend = {}
      /\ f \in [cache : {b.cache}, nvm : {b.nvm}, pend : {{}}]
  BY <1>1 DEF Sound, Shaped
<1>3. \A o \in DOMAIN m.cache : \A w \in DOMAIN m.cache[o] :
        <<o, w>> \in m.pend => b.nvm[o][w] = m.cache[o][w]
  BY DEF Sound, Shaped, WriteBack
<1>4. CleanBut(f, L)
  <2> SUFFICES ASSUME NEW o \in DOMAIN m.cache, NEW w \in DOMAIN m.cache[o]
               PROVE  m.cache[o][w] = b.nvm[o][w] \/ <<o, w>> \in L
    BY <1>1, <1>2 DEF CleanBut
  <2>1. b.cache[o][w] = b.nvm[o][w] \/ <<o, w>> \in b.pend \/ <<o, w>> \in L \ m.pend
    BY <1>1 DEF Sound, CleanBut
  <2> HIDE DEF b
  <2> QED
    BY <1>1, <1>3, <2>1
<1>5. Shaped(f) /\ Settled(f)
  BY <1>1, <1>2 DEF Sound, Shaped, IsFunction, Settled
<1> QED
  BY <1>1, <1>2, <1>4, <1>5 DEF Sound, Mfence

\* clflush leaves a line alone that is on the medium already.
LEMMA ClflushKeeps ==
  ASSUME NEW m, NEW L, NEW K, Sound(m, L)
  PROVE  \A o \in DOMAIN m.cache : \A w \in DOMAIN m.cache[o] :
           m.nvm[o][w] = m.cache[o][w] => Clflush(m, K).nvm[o][w] = m.cache[o][w]
<1>1. \A o \in DOMAIN m.cache : \A w \in DOMAIN m.cache[o] :
        m.nvm[o][w] = m.cache[o][w] => WriteBack(m, K).nvm[o][w] = m.cache[o][w]
  BY DEF Sound, Shaped, WriteBack
<1>2. [m EXCEPT !.pend = @ \cup K].nvm = m.nvm
  BY DEF Sound, Shaped
<1> QED
  BY <1>1, <1>2 DEF Clflush

\* flush_buffer takes its lines off those the program still owes the medium ...
LEMMA FlushSound ==
  ASSUME NEW m, NEW L, NEW K, NEW fence \in BOOLEAN, Sound(m, L)
  PROVE  /\ Sound(flush_buffer(m, K, fence), L \ K)
         /\ flush_buffer(m, K, fence).cache = m.cache
<1>1. CASE fence = FALSE
  BY <1>1, ClflushSound DEF flush_buffer
<1>2. CASE fence = TRUE
  <2>1. Sound(Mfence(m), L) /\ Mfence(m).cache = m.cache
    BY MfenceSound
  <2>2. /\ Sound(Clflush(Mfence(m), K), L \ K)
        /\ Clflush(Mfence(m), K).cache = m.cache
    BY <2>1, ClflushSound
  <2> QED
    BY <1>2, <2>2, MfenceSound DEF flush_buffer
<1> QED
  BY <1>1, <1>2

\* A fence after which nothing is owed makes cache and medium agree ...
LEMMA FencedAll ==
  ASSUME NEW m, Sound(m, {})
  PROVE  LET f == Mfence(m) IN Sound(f, {}) /\ f.nvm = f.cache /\ f.cache = m.cache
<1> DEFINE f == Mfence(m)
<1>1. Sound(f, {}) /\ f.cache = m.cache /\ f.pend = {}
  BY MfenceSound
<1> HIDE DEF f
<1>2. \A o \in DOMAIN f.cache : f.nvm[o] = f.cache[o]
  <2> SUFFICES ASSUME NEW o \in DOMAIN f.cache
               PROVE  f.nvm[o] = f.cache[o]
    OBVIOUS
  <2>1. \A w \in DOMAIN f.cache[o] : f.cache[o][w] = f.nvm[o][w]
    BY <1>1 DEF Sound, CleanBut
  <2>2. /\ f.cache[o] = [w \in DOMAIN f.cache[o] |-> f.cache[o][w]]
        /\ f.nvm[o] = [w \in DOMAIN f.cache[o] |-> f.nvm[o][w]]
    BY <1>1 DEF Sound, Shaped, IsFunction
  <2> QED
    BY <2>1, <2>2
<1>3. f.nvm = f.cache
  BY <1>1, <1>2 DEF Sound, Shaped, IsFunction
<1> QED
  BY <1>1, <1>3 DEF f

\* ... and so does a fenced flush of all that is owed.
LEMMA FencedFlush ==
  ASSUME NEW m, NEW K, Sound(m, K)
  PROVE  LET f == flush_buffer(m, K, TRUE) IN Sound(f, {}) /\ f.nvm = f.cache /\ f.cache = m.cache
<1> DEFINE c == Clflush(Mfence(m), K)
<1>1. Sound(Mfence(m), K) /\ Mfence(m).cache = m.cache
  BY MfenceSound
<1>2. Sound(c, K \ K) /\ c.cache = m.cache
  BY <1>1, ClflushSound
<1> HIDE DEF c
<1>3. Sound(c, {})
  BY <1>2, SoundMore
<1>4. LET f == Mfence(c) IN Sound(f, {}) /\ f.nvm = f.cache /\ f.cache = m.cache
  BY <1>2, <1>3, FencedAll
<1> QED
  BY <1>4 DEF flush_buffer, c

\* After a power loss, and in fresh memory, there is nothing to lose.
LEMMA PowerLossSound ==
  ASSUME NEW m, NEW L, Sound(m, L)
  PROVE  LET f == PowerLoss(m) IN Sound(f, {}) /\ f.nvm = f.cache
BY DEF Sound, Shaped, Settled, CleanBut, IsFunction, PowerLoss

LEMMA FormattedSound ==
  ASSUME NEW c, IsFunction(c), \A o \in DOMAIN c : IsFunction(c[o])
  PROVE  Sound(Formatted(c), {}) /\ Formatted(c).nvm = Formatted(c).cache
BY DEF Sound, Shaped, Settled, CleanBut, IsFunction, Formatted
-----------------------------------------------------------------------------
\* A non-empty set of naturals has a least element.
LEMMA LeastOf ==
  ASSUME NEW S, S \subseteq Nat, S # {}
  PROVE  \E k \in S : \A m \in S : k <= m
<1> DEFINE R == OpToRel(<, Nat)
<1>1. \A x, y \in Nat : <<y, x>> \in R <=> y < x
  BY DEF OpToRel
<1>2. IsWellFoundedOn(R, Nat)
  BY NatLessThanWellFounded
<1> HIDE DEF R
<1>3. PICK k \in S : \A m \in S : ~(<<m, k>> \in R)
  BY <1>2, WFMin
<1>4. k \in Nat /\ \A m \in S : m \in Nat
  OBVIOUS
<1>5. \A m \in S : ~(m < k)
  BY <1>1, <1>3, <1>4
<1> QED BY <1>4, <1>5

=============================================================================
