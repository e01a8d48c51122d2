-------------------------- MODULE RadixTree_proofs --------------------------
(***************************************************************************)
(* The write-atomic radix tree, for any keys, any number of nodes and any  *)
(* number of power losses.                                                 *)
(*                                                                         *)
(* First, for either ordering of clflush: when a call returns, the medium  *)
(* holds every word the program has stored.  The invariant IInv says which *)
(* lines the operation in progress still owes the medium: while nodes are  *)
(* being built, those of the node in hand; while a commit is pending, the  *)
(* line committed; otherwise none.                                         *)
(*                                                                         *)
(* Then, where clflush is ordered: the tree implements the durable map.    *)
(* The invariant RInv gives every node the place it was made for, a height *)
(* and the digits above it, so that a walk passes only nodes made for its  *)
(* key and a word changed elsewhere cannot be noticed; and it says what    *)
(* the nodes built off line show: what the tree shows, but for the key     *)
(* inserted.                                                               *)
(***************************************************************************)
EXTENDS RadixTree, PMem_proofs

Offsets == 0 .. P_INDEX

\* No object has more words than a node.
Framed(m) == \A o \in DOMAIN m.cache : DOMAIN m.cache[o] \subseteq Offsets

Owes(m, L) == Sound(m, L) /\ Framed(m)

Owed(p, a) == IF p \in {"grow", "alloc"} THEN Words(a.node)
              ELSE IF p = "commit" THEN {a.slot} ELSE {}

Quiet == {"idle", "return", "down"}

IInv == /\ Owes(mem, Owed(pc, at))
        /\ pc \in Quiet => mem.nvm = mem.cache
        /\ at = [node |-> at.node, key |-> at.key, h |-> at.h,
                 slot |-> at.slot, sub |-> at.sub]

\* The delayed commit: when a subtree is published all of it is on the medium,
\* or its clflush was issued and the commit's first mfence waits for it; from
\* then on the word committed is the only one of which the cache knows more.
WriteAtomic ==
  pc \in {"publish", "commit"} =>
    \A o \in DOMAIN mem.cache : \A w \in DOMAIN mem.cache[o] :
      \/ mem.cache[o][w] = mem.nvm[o][w]
      \/ <<o, w>> \in mem.pend /\ ~ClflushOrdered
      \/ pc = "commit" /\ <<o, w>> = at.slot

-----------------------------------------------------------------------------
(* The lemmas of PMem_proofs, for memories of this frame. *)

LEMMA StoreOwes ==
  ASSUME NEW m, NEW L, NEW s, Owes(m, L)
  PROVE  Owes(Store(m, s), L \cup DOMAIN s)
<1> DEFINE f == Store(m, s)
<1>1. /\ Sound(f, L \cup DOMAIN s) /\ DOMAIN f.cache = DOMAIN m.cache
      /\ \A o \in DOMAIN m.cache : DOMAIN f.cache[o] = DOMAIN m.cache[o]
  BY StoreSound DEF Owes
<1> HIDE DEF f
<1>2. Framed(f)
  BY <1>1 DEF Owes, Framed
<1> QED
  BY <1>1, <1>2 DEF Owes, f

LEMMA FlushOwes ==
  ASSUME NEW m, NEW L, NEW K, NEW fence \in BOOLEAN, Owes(m, L)
  PROVE  Owes(flush_buffer(m, K, fence), L \ K)
BY FlushSound DEF Owes, Framed

\* A line outside the frame is no line: it need not be owed.
LEMMA OwesMore ==
  ASSUME NEW m, NEW L, NEW K, Owes(m, L),
         \A o, w : w \in Offsets /\ <<o, w>> \in L => <<o, w>> \in K
  PROVE  Owes(m, K)
BY DEF Owes, Sound, CleanBut, Framed

LEMMA WordsDomains ==
  ASSUME NEW n
  PROVE  /\ \A p, i : DOMAIN allocNode(n, p, i) = Words(n)
         /\ \A w \in Offsets : <<n, w>> \in Words(n)
         /\ {0, PARENT_PTR} \subseteq Offsets
BY RadixAssumption DEF allocNode, Words, Offsets, PARENT_PTR, P_INDEX

LEMMA StoreWordOwes ==
  ASSUME NEW m, NEW L, NEW l, NEW x, Owes(m, L)
  PROVE  Owes(Store(m, Word(l, x)), L \cup {l})
<1> DEFINE s == Word(l, x)
<1>1. DOMAIN s = {l}
  BY DEF Word
<1> HIDE DEF s
<1>2. Owes(Store(m, s), L \cup DOMAIN s)
  BY StoreOwes
<1> QED
  BY <1>1, <1>2 DEF s

-----------------------------------------------------------------------------
LEMMA InitIInv == Init => IInv
<1> SUFFICES ASSUME Init PROVE IInv
  OBVIOUS
<1> DEFINE c == [Blank EXCEPT ![0][1] = [root |-> 1, height |-> 1]]
<1>0. /\ IsFunction(Blank) /\ \A o \in DOMAIN Blank : IsFunction(Blank[o])
      /\ \A o \in DOMAIN Blank : DOMAIN Blank[o] \subseteq Offsets
  <2>1. IsFunction(Blank) /\ DOMAIN Blank = {0} \cup Nodes
    BY DEF IsFunction, Blank
  <2>2. IsFunction(Blank[0]) /\ DOMAIN Blank[0] = Trees
    BY DEF IsFunction, Blank
  <2>3. \A o \in Nodes \ {0} : IsFunction(Blank[o]) /\ DOMAIN Blank[o] = Offsets
    BY DEF IsFunction, Blank, Offsets
  <2>4. Trees \subseteq Offsets
    BY RadixAssumption DEF Trees, Offsets, P_INDEX
  <2> QED
    BY <2>1, <2>2, <2>3, <2>4
<1>1. /\ IsFunction(c) /\ \A o \in DOMAIN c : IsFunction(c[o])
      /\ \A o \in DOMAIN c : DOMAIN c[o] \subseteq Offsets
  <2>1. /\ DOMAIN c = DOMAIN Blank /\ IsFunction(c)
        /\ \A o \in DOMAIN Blank : DOMAIN c[o] = DOMAIN Blank[o]
        /\ \A o \in DOMAIN Blank : IsFunction(c[o])
    BY <1>0 DEF IsFunction
  <2> HIDE DEF c
  <2> QED
    BY <1>0, <2>1
<1>2. mem = Formatted(c) /\ pc = "idle" /\ at = Idle
  BY DEF Init
<1>3. Formatted(c).cache = c
  BY DEF Formatted
<1> HIDE DEF c
<1>4. Sound(mem, {}) /\ mem.nvm = mem.cache
  BY <1>1, <1>2, FormattedSound
<1>5. Framed(mem)
  BY <1>1, <1>2, <1>3 DEF Framed
<1> QED
  BY <1>2, <1>4, <1>5 DEF IInv, Owes, Owed, Idle

LEMMA NextIInv == IInv /\ [Next]_vars => IInv'
<1> SUFFICES ASSUME IInv, [Next]_vars PROVE IInv'
  OBVIOUS
<1>0. CASE UNCHANGED vars
  BY <1>0 DEF IInv, vars
<1>1. ASSUME NEW k, NEW v, Insert(k, v) PROVE IInv'
  <2>1. Owes(mem, {}) /\ mem' = mem /\ pc' \in {"grow", "search"}
    BY <1>1 DEF Insert, IInv, Owed
  <2>2. Owes(mem', Owed(pc', at'))
    BY <2>1, OwesMore
  <2> QED
    BY <1>1, <2>1, <2>2 DEF Insert, IInv, Quiet, Idle
<1>2. CASE GrowRoot
  <2> DEFINE a  == at.node
             m1 == Store(mem, allocNode(fresh, NULL, 0))
             m2 == Store(m1, Word(<<fresh, 0>>, a))
             m3 == Store(m2, Word(<<a, PARENT_PTR>>, fresh))
             L3 == Words(a) \cup Words(fresh) \cup {<<fresh, 0>>} \cup {<<a, PARENT_PTR>>}
  <2>1. /\ mem' = flush_buffer(m3, Words(a), FALSE) /\ pc = "grow" /\ pc' = "grow"
        /\ at'.node = fresh
    BY <1>2 DEF GrowRoot, IInv
  <2>2. Owes(m1, Words(a) \cup Words(fresh))
    BY <2>1, StoreOwes, WordsDomains DEF IInv, Owed
  <2>3. Owes(m2, Words(a) \cup Words(fresh) \cup {<<fresh, 0>>})
    BY <2>2, StoreWordOwes
  <2>4. Owes(m3, L3)
    BY <2>3, StoreWordOwes
  <2> HIDE DEF m3
  <2>5. Owes(mem', L3 \ Words(a))
    BY <2>1, <2>4, FlushOwes
  <2>6. Owes(mem', Words(fresh))
    BY <2>5, OwesMore, WordsDomains
  <2> QED
    BY <1>2, <2>1, <2>6 DEF GrowRoot, IInv, Owed, Quiet
<1>3. CASE GrowTree
  <2> DEFINE a  == at.node
             l  == TreeLine(3 - t)
             m1 == flush_buffer(mem, Words(a), FALSE)
             m2 == Store(m1, Word(l, [root |-> a, height |-> at.h]))
  <2>1. /\ mem' = flush_buffer(m2, {l}, FALSE) /\ pc = "grow" /\ pc' = "alloc"
    BY <1>3 DEF GrowTree
  <2>2. Owes(m1, Words(a) \ Words(a))
    BY <2>1, FlushOwes DEF IInv, Owed
  <2>3. Owes(m2, (Words(a) \ Words(a)) \cup {l})
    BY <2>2, StoreWordOwes
  <2> HIDE DEF m2
  <2>4. Owes(mem', ((Words(a) \ Words(a)) \cup {l}) \ {l})
    BY <2>1, <2>3, FlushOwes
  <2>5. Owes(mem', Owed(pc', at'))
    BY <2>4, OwesMore
  <2> QED
    BY <1>3, <2>1, <2>5 DEF GrowTree, IInv, Quiet
<1>4. CASE SearchInner
  BY <1>4 DEF SearchInner, IInv, Owed, Quiet
<1>5. CASE SearchLeaf
  <2>1. /\ pc = "search" /\ pc' = "commit"
        /\ mem' = Store(mem, Word(at'.slot, op.value)) /\ Owes(mem, {})
    BY <1>5 DEF SearchLeaf, IInv, Owed
  <2>2. Owes(mem', {} \cup {at'.slot})
    BY <2>1, StoreWordOwes
  <2>3. Owes(mem', Owed(pc', at'))
    BY <2>1, <2>2, OwesMore DEF Owed
  <2> QED
    BY <1>5, <2>1, <2>3 DEF SearchLeaf, IInv, Quiet
<1>6. CASE SearchMissing
  <2>1. /\ pc = "search" /\ pc' = "alloc" /\ at'.node = fresh
        /\ mem' = Store(mem, allocNode(fresh, at.node, Index(at.key, at.h)))
    BY <1>6 DEF SearchMissing
  <2>2. Owes(mem', {} \cup Words(fresh))
    BY <2>1, StoreOwes, WordsDomains DEF IInv, Owed
  <2>3. Owes(mem', Owed(pc', at'))
    BY <2>1, <2>2, OwesMore DEF Owed
  <2> QED
    BY <1>6, <2>1, <2>3 DEF SearchMissing, IInv, Quiet
<1>7. CASE AllocInner
  <2> DEFINE a  == at.node
             s  == <<a, Index(at.key, at.h)>>
             m1 == Store(mem, allocNode(fresh, a, Index(at.key, at.h)))
             m2 == Store(m1, Word(s, fresh))
             L2 == Words(a) \cup Words(fresh) \cup {s}
  <2>1. /\ mem' = flush_buffer(m2, Words(a), FALSE) /\ pc = "alloc" /\ pc' = "alloc"
        /\ at'.node = fresh
    BY <1>7 DEF AllocInner, IInv
  <2>2. Owes(m1, Words(a) \cup Words(fresh))
    BY <2>1, StoreOwes, WordsDomains DEF IInv, Owed
  <2>3. Owes(m2, L2)
    BY <2>2, StoreWordOwes
  <2> HIDE DEF m2
  <2>4. Owes(mem', L2 \ Words(a))
    BY <2>1, <2>3, FlushOwes
  <2>5. Owes(mem', Words(fresh))
    BY <2>4, OwesMore, WordsDomains
  <2> QED
    BY <1>7, <2>1, <2>5 DEF AllocInner, IInv, Owed, Quiet
<1>8. CASE AllocLeaf
  <2> DEFINE a  == at.node
             s  == <<a, Index(at.key, 1)>>
             m1 == Store(mem, Word(s, op.value))
  <2>1. /\ mem' = flush_buffer(m1, Words(a), FALSE) /\ pc = "alloc" /\ pc' = "publish"
    BY <1>8 DEF AllocLeaf
  <2>2. Owes(m1, Words(a) \cup {s})
    BY <2>1, StoreWordOwes DEF IInv, Owed
  <2> HIDE DEF m1
  <2>3. Owes(mem', (Words(a) \cup {s}) \ Words(a))
    BY <2>1, <2>2, FlushOwes
  <2>4. Owes(mem', {})
    BY <2>3, OwesMore, WordsDomains
  <2> QED
    BY <1>8, <2>1, <2>4 DEF AllocLeaf, IInv, Owed, Quiet
<1>9. CASE Publish
  <2>1. /\ pc = "publish" /\ pc' = "commit" /\ at' = at /\ Owes(mem, {})
    BY <1>9 DEF Publish, IInv, Owed
  <2>2. mem' = mem \/ mem' = Store(mem, Word(at.slot, at.sub))
    BY <1>9 DEF Publish
  <2>3. Owes(Store(mem, Word(at.slot, at.sub)), {} \cup {at.slot})
    BY <2>1, StoreWordOwes
  <2>4. Owes(mem', {at.slot})
    BY <2>1, <2>2, <2>3, OwesMore
  <2> QED
    BY <2>1, <2>4 DEF IInv, Owed, Quiet
<1>10. CASE Commit
  <2>1. /\ pc = "commit" /\ pc' = "return" /\ at' = at
        /\ mem' = flush_buffer(mem, {at.slot}, TRUE)
    BY <1>10 DEF Commit
  <2>2. Owes(mem, {at.slot})
    BY <2>1 DEF IInv, Owed
  <2>3. Owes(mem', {at.slot} \ {at.slot})
    BY <2>1, <2>2, FlushOwes
  <2>4. mem'.nvm = mem'.cache
    BY <2>1, <2>2, FencedFlush DEF Owes
  <2>5. Owes(mem', {})
    BY <2>3, OwesMore
  <2> QED
    BY <2>1, <2>4, <2>5 DEF IInv, Owed
<1>11. CASE Return
  BY <1>11 DEF Return, IInv, Owed, Quiet, Idle
<1>12. CASE Restart
  BY <1>12 DEF Restart, IInv, Owed, Quiet
<1>13. ASSUME NEW kind, NEW k, NEW v, Overwrite(kind, k, v) PROVE IInv'
  <2>1. /\ pc = "idle" /\ pc' = "commit"
        /\ mem' = Store(mem, Word(at'.slot, v)) /\ Owes(mem, {})
    BY <1>13 DEF Overwrite, Idle, IInv, Owed
  <2>2. Owes(mem', {} \cup {at'.slot})
    BY <2>1, StoreWordOwes
  <2>3. Owes(mem', Owed(pc', at'))
    BY <2>1, <2>2, OwesMore DEF Owed
  <2> QED
    BY <1>13, <2>1, <2>3 DEF Overwrite, IInv, Quiet, Idle
<1>14. CASE Evict
  <2>1. PICK l \in Dirty(mem) : mem' = WriteBack(mem, {l})
    BY <1>14 DEF Evict
  <2>2. pc' = pc /\ at' = at /\ pc \notin Quiet
    BY <1>14, <2>1 DEF Evict, IInv, Dirty
  <2>3. Owes(mem', Owed(pc, at) \ {l})
    BY <2>1, WriteBackSound DEF IInv, Owes, Framed
  <2>4. Owes(mem', Owed(pc, at))
    BY <2>3, OwesMore
  <2> QED
    BY <2>2, <2>4 DEF IInv
<1>15. CASE PowerLost
  <2>1. mem' = PowerLoss(mem) /\ pc' = "down" /\ at' = Idle
    BY <1>15 DEF PowerLost
  <2>2. Sound(mem', {}) /\ mem'.nvm = mem'.cache
    BY <2>1, PowerLossSound DEF IInv, Owes
  <2>3. Framed(mem')
    BY <2>1 DEF PowerLoss, IInv, Owes, Sound, Shaped, Framed
  <2> QED
    BY <2>1, <2>2, <2>3 DEF IInv, Owes, Owed, Idle
<1> QED
  BY <1>0, <1>1, <1>2, <1>3, <1>4, <1>5, <1>6, <1>7, <1>8, <1>9, <1>10, <1>11,
     <1>12, <1>13, <1>14, <1>15 DEF Next, Step, Update, Delete

\* What the operation in progress owes the medium is known at every step
\* (the flush_buffer calls of Insert, Update and Delete, 171 to 462).
THEOREM OwedIsKnown == Spec => []IInv
BY InitIInv, NextIInv, PTL DEF Spec

\* Every Insert, Update and Delete becomes visible by one word, all others being
\* out before it (art_d.c 187, 206, 264, 299 and 461), so a power loss keeps the old
\* map or the new one.
THEOREM CommitsByOneWord == Spec => []WriteAtomic
<1>1. IInv => WriteAtomic
  BY DEF IInv, Owes, Owed, Sound, Settled, CleanBut, WriteAtomic
<1> QED
  BY <1>1, OwedIsKnown, PTL

\* Between calls the tree a restart finds is the tree the program reads, even
\* where only mfence orders clflush (Insert 187 to 264, Update 300, Delete 462).
THEOREM DurableBetweenCalls == Spec => []DurableWhenIdle
<1>1. IInv => DurableWhenIdle
  BY DEF IInv, Quiet, DurableWhenIdle
<1> QED
  BY <1>1, OwedIsKnown, PTL

Slots == 0 .. NUM_ENTRY - 1

\* The digits of a key above height h, and the one a node of height h reads.
Above(k, h) == k \div Span(h)
Digit(k, h) == Index(k % Span(h), h)

-----------------------------------------------------------------------------
\* What passes from each number to the next holds all the way up.
LEMMA Ascent ==
  ASSUME NEW a \in Nat, NEW b \in Nat, NEW T, a \in T,
         \A j \in a .. b - 1 : j \in T => j + 1 \in T
  PROVE  \A j \in a .. b : j \in T
<1> DEFINE S == {i \in a .. b : i \notin T}
<1>1. S \subseteq Nat
  OBVIOUS
<1>2. ASSUME NEW i \in S, \A m \in S : i <= m PROVE FALSE
  <2>1. i \in a .. b /\ i # a /\ i \notin T
    BY <1>2
  <2>2. i - 1 \in a .. b - 1 /\ i - 1 \notin S
    BY <1>2, <2>1
  <2> QED BY <2>1, <2>2
<1> HIDE DEF S
<1>3. S = {}
  BY <1>1, <1>2, LeastOf
<1> QED BY <1>3 DEF S

\* ... and what passes from each to the one before, all the way down.
LEMMA Descent ==
  ASSUME NEW a \in Nat, NEW b \in Nat, NEW T, b \in T,
         \A j \in a .. b - 1 : j + 1 \in T => j \in T
  PROVE  \A j \in a .. b : j \in T
<1> DEFINE U == {i \in 0 .. b - a : b - i \in T}
<1>1. CASE b < a
  BY <1>1
<1>2. CASE a <= b
  <2>1. 0 \in U
    BY <1>2
  <2>2. \A i \in 0 .. (b - a) - 1 : i \in U => i + 1 \in U
    <3> SUFFICES ASSUME NEW i \in 0 .. (b - a) - 1, i \in U PROVE i + 1 \in U
      OBVIOUS
    <3>1. b - i \in T /\ b - (i + 1) \in a .. b - 1 /\ (b - (i + 1)) + 1 = b - i
      BY <1>2
    <3>2. b - (i + 1) \in T
      BY <3>1
    <3> QED BY <3>2
  <2> HIDE DEF U
  <2>3. b - a \in Nat
    BY <1>2
  <2>4. \A i \in 0 .. b - a : i \in U
    BY <2>1, <2>2, <2>3, Ascent
  <2> SUFFICES ASSUME NEW j \in a .. b PROVE j \in T
    OBVIOUS
  <2>5. b - j \in 0 .. b - a /\ b - (b - j) = j
    OBVIOUS
  <2> QED BY <2>4, <2>5 DEF U
<1> QED BY <1>1, <1>2

-----------------------------------------------------------------------------
\* Quotient and remainder.
LEMMA DivMod ==
  ASSUME NEW a \in Nat, NEW d \in Nat, d > 0
  PROVE  a = d * (a \div d) + (a % d) /\ a % d \in 0 .. d - 1 /\ a \div d \in Nat
<1>1. a = d * (a \div d) + (a % d)
  OBVIOUS
<1>2. a % d \in 0 .. d - 1
  OBVIOUS
<1>3. a \div d \in Nat
  OBVIOUS
<1> QED BY <1>1, <1>2, <1>3

\* Multiples of d lie d apart.
LEMMA ProductOrder ==
  ASSUME NEW d \in Nat, d > 0, NEW p \in Int, NEW q \in Int
  PROVE  p < q => d * p + d <= d * q
<1>1. p < q => d * (p + 1) <= d * q
  OBVIOUS
<1>2. d * (p + 1) = d * p + d
  OBVIOUS
<1> QED BY <1>1, <1>2

\* Quotient and remainder are unique.
LEMMA QuotientUnique ==
  ASSUME NEW d \in Nat, d > 0, NEW p \in Int, NEW q \in Int, NEW e \in 0 .. d - 1, NEW f \in 0 .. d - 1,
         d * p + e = d * q + f
  PROVE  p = q /\ e = f
<1>1. ~(p < q) /\ ~(q < p)
  <2> DEFINE x == d * p
             y == d * q
  <2>1. x \in Int /\ y \in Int
    OBVIOUS
  <2>2. (p < q => x + d <= y) /\ (q < p => y + d <= x)
    BY ProductOrder
  <2>3. x + e = y + f
    OBVIOUS
  <2> HIDE DEF x, y
  <2> QED BY <2>1, <2>2, <2>3
<1> QED BY <1>1

\* A remainder by b * s splits at s: one digit of base b, and the rest.
LEMMA Digits3 ==
  ASSUME NEW k \in Nat, NEW s \in Nat, s > 0, NEW b \in Nat, b > 0, NEW S \in Nat, S = b * s
  PROVE  /\ (k % S) \div s \in 0 .. b - 1
         /\ k \div s = (k \div S) * b + ((k % S) \div s)
         /\ (k % S) % s = k % s
<1> DEFINE q == k \div S
           r == k % S
           e == r \div s
           f == r % s
<1>0. S \in Nat /\ S > 0
  OBVIOUS
<1>1. k = S * q + r /\ r \in 0 .. S - 1 /\ q \in Nat
  BY <1>0, DivMod
<1>2. r = s * e + f /\ f \in 0 .. s - 1 /\ e \in Nat
  BY <1>1, DivMod
<1>3. k = s * (k \div s) + (k % s) /\ k % s \in 0 .. s - 1 /\ k \div s \in Nat
  BY DivMod
<1> HIDE DEF q, r, e, f
<1>4. S * q + s * e = s * (q * b + e)
  BY <1>1, <1>2
<1>5. k = s * (q * b + e) + f
  <2> DEFINE x == S * q
             y == s * e
  <2>1. x + y = s * (q * b + e) /\ k = x + r /\ r = y + f /\ x \in Int /\ y \in Int /\ s * (q * b + e) \in Int
    BY <1>1, <1>2, <1>4
  <2> DEFINE z == s * (q * b + e)
  <2> HIDE DEF x, y, z
  <2>2. x + y = z /\ z \in Int
    BY <2>1 DEF z
  <2>3. k = z + f
    BY <2>1, <2>2, <1>1, <1>2
  <2> QED BY <2>3 DEF z
<1>6. q * b + e \in Int
  BY <1>1, <1>2
<1>7. k \div s = q * b + e /\ k % s = f
  <2> DEFINE g == q * b + e
             u == k \div s
             v == k % s
  <2>0. k = s * g + f
    BY <1>5
  <2>1. g \in Int /\ u \in Int /\ v \in 0 .. s - 1 /\ k = s * u + v
    BY <1>3, <1>6
  <2> HIDE DEF g, u, v
  <2>2. u = g /\ v = f
    BY <2>0, <2>1, <1>2, QuotientUnique
  <2> QED BY <2>2 DEF g, u, v
<1>8. e < b
  <2> SUFFICES ASSUME b <= e PROVE FALSE
    BY <1>2
  <2>1. s * b <= s * e
    BY <1>2
  <2>2. s * b = S
    OBVIOUS
  <2> DEFINE y == s * e
  <2>3. y \in Int /\ S <= y /\ r = y + f
    BY <1>2, <2>1, <2>2
  <2> HIDE DEF y
  <2> QED BY <2>3, <1>0, <1>1, <1>2
<1> QED
  BY <1>2, <1>7, <1>8 DEF q, r, e, f

-----------------------------------------------------------------------------
(* Heights, spans and digits *)

\* The sizes of a node and of a tree, and what the spans of the heights are.
LEMMA RadixSizes ==
  /\ NUM_ENTRY \in Nat /\ NUM_ENTRY > 0
  /\ MaxHeight \in Nat /\ MaxHeight > 0
  /\ \A h \in 0 .. MaxHeight : Span(h) \in Nat /\ Span(h) > 0
  /\ \A h \in 1 .. MaxHeight : Span(h) = NUM_ENTRY * Span(h - 1) /\ Span(h - 1) <= Span(h)
  /\ Span(0) = 1
  /\ \A k \in Keys : k \in Nat /\ k < Span(MaxHeight)
<1>1. NUM_ENTRY \in Nat /\ NUM_ENTRY > 0
  BY RadixAssumption
<1>2. MaxHeight \in Nat /\ MaxHeight > 0
  <2> DEFINE s == META_NODE_SHIFT
             a == WORD_BITS + META_NODE_SHIFT - 1
  <2>1. s \in Nat /\ s > 0 /\ a \in Nat /\ a >= s /\ MaxHeight = a \div s
    BY RadixAssumption DEF MaxHeight
  <2> HIDE DEF s, a
  <2>2. a = s * (a \div s) + (a % s) /\ a % s \in 0 .. s - 1 /\ a \div s \in Nat
    BY <2>1, DivMod
  <2>3. a \div s # 0
    BY <2>1, <2>2
  <2> QED BY <2>1, <2>2, <2>3
<1>3. \A h \in 0 .. MaxHeight : Span(h) \in Nat /\ Span(h) > 0
  BY SpanAssumption
<1>4. ASSUME NEW h \in 1 .. MaxHeight
      PROVE  Span(h) = NUM_ENTRY * Span(h - 1) /\ Span(h - 1) <= Span(h)
  <2>1. h - 1 \in 0 .. MaxHeight - 1 /\ (h - 1) + 1 = h /\ h - 1 \in 0 .. MaxHeight
    BY <1>2
  <2>2. Span(h) = NUM_ENTRY * Span(h - 1)
    BY <2>1, SpanAssumption
  <2>3. Span(h - 1) \in Nat
    BY <1>3, <2>1
  <2> DEFINE s == Span(h - 1)
             b == NUM_ENTRY
  <2>4. s \in Nat /\ b \in Nat /\ b > 0
    BY <1>1, <2>3
  <2> HIDE DEF s, b
  <2>5. s <= b * s
    BY <2>4
  <2> QED BY <2>2, <2>5 DEF s, b
<1>5. Span(0) = 1
  <2>1. 0 * META_NODE_SHIFT = 0
    BY RadixAssumption
  <2>2. 2 ^ 0 = 1
    OBVIOUS
  <2> QED BY <2>1, <2>2 DEF Span
<1>6. \A k \in Keys : k \in Nat /\ k < Span(MaxHeight)
  <2> DEFINE w == 2 ^ WORD_BITS
  <2> SUFFICES ASSUME NEW k \in Keys PROVE k \in Nat /\ k < Span(MaxHeight)
    OBVIOUS
  <2>1. k \in 0 .. w - 1 /\ w <= Span(MaxHeight) /\ Span(MaxHeight) \in Nat
    BY <1>2, <1>3, RadixAssumption, SpanAssumption
  <2> HIDE DEF w
  <2>2. w \in Int
    BY <2>1, SpanAssumption, RadixAssumption DEF w
  <2> QED BY <2>1, <2>2
<1> QED BY <1>1, <1>2, <1>3, <1>4, <1>5, <1>6

\* A height's digit, with the digits above, makes the digits above the height below.
LEMMA DigitOfKey ==
  ASSUME NEW k \in Nat, NEW h \in 1 .. MaxHeight
  PROVE  /\ Digit(k, h) \in Slots
         /\ Above(k, h - 1) = Above(k, h) * NUM_ENTRY + Digit(k, h)
         /\ NextKey(k % Span(h), h) = k % Span(h - 1)
         /\ Above(k, h) \in Nat /\ Above(k, h - 1) \in Nat
<1> DEFINE s == Span(h - 1)
           S == Span(h)
           b == NUM_ENTRY
<1>1. s \in Nat /\ s > 0 /\ S \in Nat /\ S > 0 /\ b \in Nat /\ b > 0 /\ S = b * s
  BY RadixSizes
<1> HIDE DEF s, S, b
<1>2. /\ (k % S) \div s \in 0 .. b - 1
      /\ k \div s = (k \div S) * b + ((k % S) \div s)
      /\ (k % S) % s = k % s
  BY <1>1, Digits3
<1>3. k \div S \in Nat /\ k \div s \in Nat
  BY <1>1, DivMod
<1> QED BY <1>2, <1>3 DEF s, S, b, Digit, Slots, Above, NextKey, Index

\* Keys that agree above a height agree above the next and in its digit.
LEMMA SameAbove ==
  ASSUME NEW k \in Nat, NEW l \in Nat, NEW h \in 1 .. MaxHeight
  PROVE  Above(k, h - 1) = Above(l, h - 1) <=>
           Above(k, h) = Above(l, h) /\ Digit(k, h) = Digit(l, h)
<1> DEFINE p == Above(k, h)
           q == Above(l, h)
           e == Digit(k, h)
           f == Digit(l, h)
           b == NUM_ENTRY
<1>1. /\ e \in 0 .. b - 1 /\ f \in 0 .. b - 1 /\ p \in Nat /\ q \in Nat
      /\ Above(k, h - 1) = p * b + e /\ Above(l, h - 1) = q * b + f
      /\ b \in Nat /\ b > 0
  BY DigitOfKey, RadixSizes DEF Slots
<1> HIDE DEF p, q, e, f, b
<1>2. p * b = b * p /\ q * b = b * q
  BY <1>1
<1>3. p * b + e = q * b + f => p = q /\ e = f
  <2> SUFFICES ASSUME p * b + e = q * b + f PROVE p = q /\ e = f
    OBVIOUS
  <2>1. b * p + e = b * q + f
    BY <1>2
  <2> QED BY <1>1, <2>1, QuotientUnique
<1> QED BY <1>1, <1>3 DEF p, q, e, f

\* Keys that agree above a height agree above every greater one.
LEMMA SameAboveHigher ==
  ASSUME NEW k \in Nat, NEW l \in Nat, NEW g \in 0 .. MaxHeight, Above(k, g) = Above(l, g)
  PROVE  \A h \in g .. MaxHeight : Above(k, h) = Above(l, h)
<1> DEFINE T == {h \in g .. MaxHeight : Above(k, h) = Above(l, h)}
<1>1. g \in T /\ MaxHeight \in Nat /\ g \in Nat
  BY RadixSizes
<1>2. ASSUME NEW h \in g .. MaxHeight - 1, h \in T PROVE h + 1 \in T
  <2>1. h + 1 \in 1 .. MaxHeight /\ (h + 1) - 1 = h /\ h + 1 \in g .. MaxHeight
    BY <1>1
  <2>2. Above(k, (h + 1) - 1) = Above(l, (h + 1) - 1)
    BY <1>2, <2>1
  <2>3. Above(k, h + 1) = Above(l, h + 1)
    BY <2>1, <2>2, SameAbove
  <2> QED BY <2>1, <2>3
<1> HIDE DEF T
<1>3. \A h \in g .. MaxHeight : h \in T
  BY <1>1, <1>2, Ascent
<1> QED BY <1>3 DEF T

\* The keys a tree of height h has room for have no digit above h.
LEMMA BelowSpan ==
  ASSUME NEW k \in Nat, NEW h \in 0 .. MaxHeight
  PROVE  Above(k, h) = 0 <=> k < Span(h)
<1> DEFINE s == Span(h)
           q == k \div s
<1>1. s \in Nat /\ s > 0
  BY RadixSizes
<1> HIDE DEF s
<1>2. k = s * q + (k % s) /\ k % s \in 0 .. s - 1 /\ q \in Nat
  BY <1>1, DivMod
<1> HIDE DEF q
<1>3. q = 0 => k < s
  BY <1>1, <1>2
<1>4. ASSUME q > 0 PROVE k >= s
  <2>1. s * 0 + s <= s * q
    BY <1>1, <1>2, <1>4, ProductOrder
  <2> DEFINE x == s * q
  <2>2. x \in Int /\ s <= x /\ k = x + (k % s)
    BY <1>1, <1>2, <2>1
  <2> HIDE DEF x
  <2> QED BY <1>1, <1>2, <2>2
<1>5. q = 0 <=> k < s
  BY <1>1, <1>2, <1>3, <1>4
<1> QED BY <1>5 DEF Above, q, s

\* A taller tree has room for as many keys at least.
LEMMA SpanMonotone ==
  ASSUME NEW g \in 0 .. MaxHeight
  PROVE  \A h \in g .. MaxHeight : Span(g) <= Span(h)
<1> DEFINE T == {h \in g .. MaxHeight : Span(g) <= Span(h)}
<1>1. g \in T /\ MaxHeight \in Nat /\ g \in Nat
  BY RadixSizes
<1>2. ASSUME NEW h \in g .. MaxHeight - 1, h \in T PROVE h + 1 \in T
  <2>1. h + 1 \in 1 .. MaxHeight /\ (h + 1) - 1 = h /\ h + 1 \in g .. MaxHeight /\ h \in 0 .. MaxHeight
    BY <1>1
  <2>2. Span((h + 1) - 1) <= Span(h + 1)
    BY <2>1, RadixSizes
  <2>3. Span(g) <= Span(h) /\ Span(h) \in Nat /\ Span(g) \in Nat /\ Span(h + 1) \in Nat
    BY <1>2, <2>1, RadixSizes
  <2> QED BY <2>1, <2>2, <2>3
<1> HIDE DEF T
<1>3. \A h \in g .. MaxHeight : h \in T
  BY <1>1, <1>2, Ascent
<1> QED BY <1>3 DEF T

-----------------------------------------------------------------------------
(* Walks *)

\* A height and a prefix for every node: the place in the tree it was made for.
Marked(ht, px) == ht \in [Nodes -> 1 .. MaxHeight] /\ px \in [Nodes -> Nat]

\* An entry of a node of N leads to the node of N that continues its prefix.
Leads(c, ht, px, N) ==
  \A n \in N, i \in Slots :
    ht[n] > 1 /\ c[n][i] # NULL =>
      c[n][i] \in N /\ ht[c[n][i]] = ht[n] - 1 /\ px[c[n][i]] = px[n] * NUM_ENTRY + i

\* What a walk from node n finds for key.
Read(c, n, h, key) ==
  LET leaf == Walk(c, n, h, key)[1]
  IN  IF leaf = NULL THEN NULL ELSE c[leaf][Digit(key, 1)]

\* w is the walk: one turn of the loop per height.
Turns(c, n, h, k, w) ==
  \A j \in 1 .. MaxHeight :
    w[j] = IF j >= h THEN n
           ELSE IF w[j + 1] = NULL THEN NULL ELSE c[w[j + 1]][Digit(k, j + 1)]

\* The null pointer leads to no node.
LEMMA NullIsNoNode == NULL \notin Nodes
BY RadixAssumption DEF Nodes

\* The loop's equation.
LEMMA WalkStep ==
  ASSUME NEW c, NEW n, NEW h \in 1 .. MaxHeight, NEW k
  PROVE  Turns(c, n, h, k, Walk(c, n, h, k))
<1> DEFINE Turn(d, j) == IF j >= h THEN n
                         ELSE IF d[j + 1] = NULL THEN NULL
                              ELSE c[d[j + 1]][Index(k % Span(j + 1), j + 1)]
           T == {j \in 1 .. MaxHeight : \E d : \A i \in j .. MaxHeight : d[i] = Turn(d, i)}
<1>0. MaxHeight \in Nat /\ MaxHeight > 0
  BY RadixSizes
<1>1. MaxHeight \in T
  <2> DEFINE e == [j \in {MaxHeight} |-> n]
  <2>1. \A i \in MaxHeight .. MaxHeight : e[i] = Turn(e, i)
    BY <1>0
  <2>2. MaxHeight \in 1 .. MaxHeight
    BY <1>0
  <2> HIDE DEF e, Turn
  <2> QED BY <2>1, <2>2
<1>2. ASSUME NEW j \in 1 .. MaxHeight - 1, j + 1 \in T PROVE j \in T
  <2>1. PICK d : \A i \in j + 1 .. MaxHeight : d[i] = Turn(d, i)
    BY <1>2
  <2> DEFINE e == [i \in 1 .. MaxHeight |-> IF i = j THEN Turn(d, j) ELSE d[i]]
  <2>2. ASSUME NEW i \in j .. MaxHeight PROVE Turn(e, i) = Turn(d, i)
    BY <1>0
  <2>3. ASSUME NEW i \in j .. MaxHeight PROVE e[i] = Turn(d, i)
    <3>1. CASE i = j
      BY <1>0, <3>1
    <3>2. CASE i # j
      <4>1. e[i] = d[i] /\ i \in j + 1 .. MaxHeight
        BY <1>0, <3>2
      <4> HIDE DEF e, Turn
      <4> QED BY <2>1, <4>1
    <3> QED BY <3>1, <3>2
  <2>4. j \in 1 .. MaxHeight
    BY <1>0
  <2>5. \A i \in j .. MaxHeight : e[i] = Turn(e, i)
    <3> HIDE DEF e, Turn
    <3> QED BY <2>2, <2>3
  <2> HIDE DEF e
  <2> QED BY <2>4, <2>5
<1>3. 1 \in T
  <2> HIDE DEF T
  <2> QED BY <1>0, <1>1, <1>2, Descent
<1>4. PICK d : \A i \in 1 .. MaxHeight : d[i] = Turn(d, i)
  BY <1>3
<1> DEFINE e == [j \in 1 .. MaxHeight |-> d[j]]
<1>5. \A j \in 1 .. MaxHeight : Turn(e, j) = Turn(d, j)
  BY <1>0
<1>6. e = [j \in 1 .. MaxHeight |-> Turn(e, j)]
  <2> HIDE DEF Turn
  <2> QED BY <1>4, <1>5
<1> HIDE DEF e
<1> DEFINE w == Walk(c, n, h, k)
<1>7. w = [j \in 1 .. MaxHeight |-> Turn(w, j)]
  BY <1>6 DEF Walk
<1> HIDE DEF w
<1>8. \A j \in 1 .. MaxHeight : w[j] = Turn(w, j)
  <2> HIDE DEF Turn
  <2> QED BY <1>7
<1> QED BY <1>8 DEF w, Digit, Turns

\* Key k's way through the nodes of N, from node n of height h.
Way(c, ht, px, N, n, h, k) ==
  /\ Marked(ht, px) /\ N \in SUBSET Nodes /\ Leads(c, ht, px, N)
  /\ n \in N /\ h = ht[n] /\ k \in Nat /\ px[n] = Above(k, h)

\* At height j it may pass m: it has no other node of N to pass.
Passes(ht, px, N, k, j, m) == m = NULL \/ (m \in N /\ ht[m] = j /\ px[m] = Above(k, j))

\* From height h down to g, b has c's words on the way.
Agrees(b, c, ht, px, N, k, g, h) ==
  \A m \in N : ht[m] \in g .. h /\ px[m] = Above(k, ht[m])
               => b[m][Digit(k, ht[m])] = c[m][Digit(k, ht[m])]

\* A way begins at a height there is.
LEMMA WayHeight ==
  ASSUME NEW c, NEW ht, NEW px, NEW N, NEW n, NEW h, NEW k, Way(c, ht, px, N, n, h, k)
  PROVE  h \in 1 .. MaxHeight /\ MaxHeight \in Nat /\ n # NULL
<1>1. ht \in [Nodes -> 1 .. MaxHeight] /\ n \in Nodes /\ h = ht[n]
  BY DEF Way, Marked
<1> QED BY <1>1, RadixSizes, NullIsNoNode

\* The loop of Lookup (304 to 325) passes nodes made for the key only.
LEMMA WalkPasses ==
  ASSUME NEW c, NEW ht, NEW px, NEW N, NEW n, NEW h, NEW k, Way(c, ht, px, N, n, h, k),
         NEW w, w = Walk(c, n, h, k)
  PROVE  \A j \in 1 .. h : Passes(ht, px, N, k, j, w[j])
<1> DEFINE T == {j \in 1 .. h : Passes(ht, px, N, k, j, w[j])}
<1> USE DEF Passes
<1>0. /\ Marked(ht, px) /\ N \in SUBSET Nodes /\ Leads(c, ht, px, N)
      /\ n \in N /\ h = ht[n] /\ k \in Nat /\ px[n] = Above(k, h)
  BY DEF Way
<1>1. h \in 1 .. MaxHeight /\ MaxHeight \in Nat
  BY WayHeight
<1>2. Turns(c, n, h, k, w)
  BY <1>1, WalkStep
<1>3. h \in T
  BY <1>0, <1>1, <1>2 DEF Turns
<1>4. ASSUME NEW j \in 1 .. h - 1, j + 1 \in T PROVE j \in T
  <2>1. j \in 1 .. MaxHeight /\ j \in 1 .. h /\ ~(j >= h) /\ j + 1 \in 1 .. MaxHeight /\ (j + 1) - 1 = j
    BY <1>1
  <2>2. CASE w[j + 1] = NULL
    <3>1. w[j] = NULL
      BY <1>2, <2>1, <2>2 DEF Turns
    <3> QED BY <2>1, <3>1
  <2>3. CASE w[j + 1] \in N /\ ht[w[j + 1]] = j + 1 /\ px[w[j + 1]] = Above(k, j + 1)
    <3> DEFINE m == w[j + 1]
               i == Digit(k, j + 1)
    <3>1. m # NULL
      BY <1>0, <2>3, NullIsNoNode
    <3>2. w[j] = c[m][i]
      BY <1>2, <2>1, <3>1 DEF Turns
    <3>3. i \in Slots /\ Above(k, j) = Above(k, j + 1) * NUM_ENTRY + i
      BY <1>0, <2>1, DigitOfKey
    <3>4. m \in N /\ ht[m] = j + 1 /\ px[m] = Above(k, j + 1) /\ ht[m] > 1 /\ ht[m] - 1 = j
      BY <2>1, <2>3
    <3> HIDE DEF m, i
    <3>5. w[j] # NULL => w[j] \in N /\ ht[w[j]] = ht[m] - 1 /\ px[w[j]] = px[m] * NUM_ENTRY + i
      BY <1>0, <3>2, <3>3, <3>4 DEF Leads
    <3> QED BY <2>1, <3>3, <3>4, <3>5
  <2> QED BY <1>4, <2>2, <2>3
<1> HIDE DEF T
<1>5. \A j \in 1 .. h : j \in T
  <2>1. 1 \in Nat /\ h \in Nat
    BY <1>1
  <2> QED BY <1>3, <1>4, <2>1, Descent
<1> QED BY <1>5 DEF T

\* Two memories lead a key the same way down to height g if they agree in the
\* entries on its way above g.
LEMMA WalkSame ==
  ASSUME NEW c, NEW ht, NEW px, NEW N, NEW n, NEW h, NEW k, Way(c, ht, px, N, n, h, k),
         NEW g \in 1 .. h, NEW b, Agrees(b, c, ht, px, N, k, g + 1, h)
  PROVE  Walk(b, n, h, k)[g] = Walk(c, n, h, k)[g]
<1> DEFINE w == Walk(c, n, h, k)
           v == Walk(b, n, h, k)
           T == {j \in g .. h : v[j] = w[j]}
<1>1. h \in 1 .. MaxHeight /\ MaxHeight \in Nat
  BY WayHeight
<1>0. \A j \in 1 .. h : Passes(ht, px, N, k, j, w[j])
  BY WalkPasses
<1>2. Turns(c, n, h, k, w)
  BY <1>1, WalkStep
<1>3. Turns(b, n, h, k, v)
  BY <1>1, WalkStep
<1> HIDE DEF w, v
<1>4. h \in T
  BY <1>1, <1>2, <1>3 DEF Turns
<1>5. ASSUME NEW j \in g .. h - 1, j + 1 \in T PROVE j \in T
  <2>1. /\ j \in 1 .. MaxHeight /\ j \in g .. h /\ ~(j >= h) /\ j + 1 \in 1 .. h
        /\ j + 1 \in g + 1 .. h
    BY <1>1
  <2>2. v[j + 1] = w[j + 1]
    BY <1>5
  <2>3. CASE w[j + 1] = NULL
    BY <1>2, <1>3, <2>1, <2>2, <2>3 DEF Turns
  <2>4. CASE w[j + 1] # NULL
    <3> DEFINE m == w[j + 1]
    <3>1. m \in N /\ ht[m] = j + 1 /\ px[m] = Above(k, j + 1)
      BY <1>0, <2>1, <2>4 DEF Passes
    <3>2. w[j] = c[m][Digit(k, j + 1)] /\ v[j] = b[m][Digit(k, j + 1)]
      BY <1>2, <1>3, <2>1, <2>2, <2>4 DEF Turns
    <3> HIDE DEF m
    <3> QED BY <2>1, <3>1, <3>2 DEF Agrees
  <2> QED BY <2>3, <2>4
<1> HIDE DEF T
<1>6. \A j \in g .. h : j \in T
  BY <1>1, <1>4, <1>5, Descent
<1> QED BY <1>1, <1>6 DEF T, v, w

\* ... and show it the same value if they agree in the leaf's entry too.
LEMMA ReadSame ==
  ASSUME NEW c, NEW ht, NEW px, NEW N, NEW n, NEW h, NEW k, Way(c, ht, px, N, n, h, k),
         NEW b, Agrees(b, c, ht, px, N, k, 1, h)
  PROVE  Read(b, n, h, k) = Read(c, n, h, k)
<1> DEFINE w    == Walk(c, n, h, k)
           v    == Walk(b, n, h, k)
           leaf == w[1]
<1>1. h \in 1 .. MaxHeight /\ MaxHeight \in Nat /\ 1 \in 1 .. h
  BY WayHeight
<1>2. Passes(ht, px, N, k, 1, leaf)
  <2>1. \A j \in 1 .. h : Passes(ht, px, N, k, j, w[j])
    BY WalkPasses
  <2> HIDE DEF w
  <2> QED BY <1>1, <2>1
<1>3. Agrees(b, c, ht, px, N, k, 1 + 1, h)
  <2>1. \A x \in 1 + 1 .. h : x \in 1 .. h
    BY <1>1
  <2> QED BY <2>1 DEF Agrees
<1>4. v[1] = leaf
  BY <1>1, <1>3, WalkSame
<1>5. leaf # NULL => b[leaf][Digit(k, 1)] = c[leaf][Digit(k, 1)]
  BY <1>1, <1>2 DEF Agrees, Passes
<1> QED BY <1>4, <1>5 DEF Read

\* Down to height g a walk depends on the digits above g only.
LEMMA WalkKeys ==
  ASSUME NEW c, NEW n, NEW h \in 1 .. MaxHeight, NEW k \in Nat, NEW l \in Nat,
         NEW g \in 1 .. h, Above(k, g) = Above(l, g),
         NEW w, w = Walk(c, n, h, k), NEW v, v = Walk(c, n, h, l)
  PROVE  \A j \in g .. h : v[j] = w[j]
<1> DEFINE T == {j \in g .. h : v[j] = w[j]}
<1>1. MaxHeight \in Nat /\ g \in Nat /\ h \in Nat /\ g \in 0 .. MaxHeight
  BY RadixSizes
<1>2. Turns(c, n, h, k, w)
  BY WalkStep
<1>3. Turns(c, n, h, l, v)
  BY WalkStep
<1>4. h \in T
  BY <1>1, <1>2, <1>3 DEF Turns
<1>5. ASSUME NEW j \in g .. h - 1, j + 1 \in T PROVE j \in T
  <2>1. /\ j \in 1 .. MaxHeight /\ j \in g .. h /\ ~(j >= h) /\ j + 1 \in 1 .. MaxHeight
        /\ j \in g .. MaxHeight /\ (j + 1) - 1 = j /\ v[j + 1] = w[j + 1]
    BY <1>1, <1>5
  <2>2. Above(k, j) = Above(l, j)
    BY <1>1, <2>1, SameAboveHigher
  <2>3. Digit(k, j + 1) = Digit(l, j + 1)
    BY <2>1, <2>2, SameAbove
  <2>4. v[j] = w[j]
    BY <1>2, <1>3, <2>1, <2>3 DEF Turns
  <2> QED BY <2>1, <2>4
<1> HIDE DEF T
<1>6. \A j \in g .. h : j \in T
  BY <1>1, <1>4, <1>5, Descent
<1> QED BY <1>6 DEF T

\* From height g on a walk is the walk of the node it has reached.
LEMMA WalkSplit ==
  ASSUME NEW c, NEW n, NEW h \in 1 .. MaxHeight, NEW k, NEW g \in 1 .. h,
         NEW w, w = Walk(c, n, h, k), NEW v, v = Walk(c, w[g], g, k)
  PROVE  \A j \in 1 .. g : v[j] = w[j]
<1> DEFINE T == {j \in 1 .. g : v[j] = w[j]}
<1>1. MaxHeight \in Nat /\ g \in Nat /\ h \in Nat /\ g \in 1 .. MaxHeight
  BY RadixSizes
<1>2. Turns(c, n, h, k, w)
  BY WalkStep
<1>3. Turns(c, w[g], g, k, v)
  BY <1>1, WalkStep
<1>4. g \in T
  BY <1>1, <1>3 DEF Turns
<1>5. ASSUME NEW j \in 1 .. g - 1, j + 1 \in T PROVE j \in T
  <2>1. /\ j \in 1 .. MaxHeight /\ j \in 1 .. g /\ ~(j >= h) /\ ~(j >= g)
        /\ v[j + 1] = w[j + 1]
    BY <1>1, <1>5
  <2>2. v[j] = w[j]
    BY <1>2, <1>3, <2>1 DEF Turns
  <2> QED BY <2>1, <2>2
<1> HIDE DEF T
<1>6. \A j \in 1 .. g : j \in T
  <2>1. 1 \in Nat
    OBVIOUS
  <2> QED BY <2>1, <1>1, <1>4, <1>5, Descent
<1> QED BY <1>6 DEF T

\* Reading from a node on the way reads what the whole way reads.
LEMMA ReadSplit ==
  ASSUME NEW c, NEW n, NEW h \in 1 .. MaxHeight, NEW k, NEW g \in 1 .. h
  PROVE  Read(c, n, h, k) = Read(c, Walk(c, n, h, k)[g], g, k)
<1> DEFINE w == Walk(c, n, h, k)
           v == Walk(c, w[g], g, k)
<1>1. 1 \in 1 .. g
  BY RadixSizes
<1> HIDE DEF w, v
<1>2. \A j \in 1 .. g : v[j] = w[j]
  BY WalkSplit DEF w, v
<1>3. v[1] = w[1]
  BY <1>1, <1>2
<1> QED BY <1>3 DEF Read, w, v

\* A walk begins at its node.
LEMMA WalkTop ==
  ASSUME NEW c, NEW n, NEW h \in 1 .. MaxHeight, NEW k
  PROVE  Walk(c, n, h, k)[h] = n
<1> DEFINE w == Walk(c, n, h, k)
<1>1. Turns(c, n, h, k, w)
  BY WalkStep
<1>2. MaxHeight \in Nat /\ h \in Nat
  BY RadixSizes
<1> HIDE DEF w
<1>3. w[h] = n
  BY <1>1, <1>2 DEF Turns
<1> QED BY <1>3 DEF w

\* ... and goes on to the child the entry names.
LEMMA WalkNext ==
  ASSUME NEW c, NEW n, n # NULL, NEW h \in 2 .. MaxHeight, NEW k
  PROVE  Walk(c, n, h, k)[h - 1] = c[n][Digit(k, h)]
<1> DEFINE w == Walk(c, n, h, k)
<1>1. MaxHeight \in Nat /\ h \in Nat /\ h \in 1 .. MaxHeight
  BY RadixSizes
<1>2. Turns(c, n, h, k, w) /\ w[h] = n
  BY <1>1, WalkStep, WalkTop
<1> HIDE DEF w
<1>3. h - 1 \in 1 .. MaxHeight /\ ~(h - 1 >= h) /\ (h - 1) + 1 = h
  BY <1>1
<1>4. w[h - 1] = c[n][Digit(k, h)]
  BY <1>2, <1>3 DEF Turns
<1> QED BY <1>4 DEF w

\* What reading from no node, from a leaf and from an inner node comes to.
LEMMA ReadNull ==
  ASSUME NEW c, NEW h \in 1 .. MaxHeight, NEW k
  PROVE  Walk(c, NULL, h, k)[1] = NULL /\ Read(c, NULL, h, k) = NULL
<1> DEFINE w == Walk(c, NULL, h, k)
           T == {j \in 1 .. h : w[j] = NULL}
<1>1. MaxHeight \in Nat /\ h \in Nat /\ 1 \in Nat /\ 1 \in 1 .. h
  BY RadixSizes
<1>2. Turns(c, NULL, h, k, w)
  BY WalkStep
<1> HIDE DEF w
<1>3. h \in T
  BY <1>1, <1>2 DEF Turns
<1>4. ASSUME NEW j \in 1 .. h - 1, j + 1 \in T PROVE j \in T
  <2>1. j \in 1 .. MaxHeight /\ j \in 1 .. h /\ ~(j >= h) /\ w[j + 1] = NULL
    BY <1>1, <1>4
  <2>2. w[j] = NULL
    BY <1>2, <2>1 DEF Turns
  <2> QED BY <2>1, <2>2
<1> HIDE DEF T
<1>5. \A j \in 1 .. h : j \in T
  BY <1>1, <1>3, <1>4, Descent
<1>6. w[1] = NULL
  BY <1>1, <1>5 DEF T
<1> QED BY <1>6 DEF w, Read

\* A leaf shows its entry.
LEMMA ReadLeaf ==
  ASSUME NEW c, NEW n, n # NULL, NEW k
  PROVE  Read(c, n, 1, k) = c[n][Digit(k, 1)]
<1>1. 1 \in 1 .. MaxHeight
  BY RadixSizes
<1>2. Walk(c, n, 1, k)[1] = n
  BY <1>1, WalkTop
<1> QED BY <1>2 DEF Read

\* An inner node shows what the child shows.
LEMMA ReadChild ==
  ASSUME NEW c, NEW n, n # NULL, NEW h \in 2 .. MaxHeight, NEW k
  PROVE  /\ Read(c, n, h, k) = Read(c, c[n][Digit(k, h)], h - 1, k)
         /\ Walk(c, n, h, k)[h - 1] = c[n][Digit(k, h)]
<1>1. h \in 1 .. MaxHeight /\ h > 1 /\ h - 1 \in 1 .. h
  BY RadixSizes
<1>2. Walk(c, n, h, k)[h - 1] = c[n][Digit(k, h)]
  BY WalkNext
<1>3. Read(c, n, h, k) = Read(c, Walk(c, n, h, k)[h - 1], h - 1, k)
  BY <1>1, ReadSplit
<1> QED BY <1>2, <1>3

\* A node whose entry is empty shows nothing.
LEMMA ReadBlank ==
  ASSUME NEW c, NEW n, n # NULL, NEW h \in 1 .. MaxHeight, NEW k, c[n][Digit(k, h)] = NULL
  PROVE  Read(c, n, h, k) = NULL
<1>1. CASE h = 1
  BY <1>1, ReadLeaf
<1>2. CASE h # 1
  <2>1. h \in 2 .. MaxHeight /\ h - 1 \in 1 .. MaxHeight
    BY <1>2, RadixSizes
  <2>2. Read(c, n, h, k) = Read(c, NULL, h - 1, k)
    BY <2>1, ReadChild
  <2> QED BY <2>1, <2>2, ReadNull
<1> QED BY <1>1, <1>2

\* The loop of Insert: the least height that has room for the key.
LEMMA NewHeightFits ==
  ASSUME NEW key \in Keys, NEW height \in 1 .. MaxHeight
  PROVE  LET new == NewHeight(key, height)
         IN  /\ new \in height .. MaxHeight /\ key < Span(new)
             /\ \A g \in height .. new - 1 : key >= Span(g)
<1>1. key \in Nat /\ key < Span(MaxHeight) /\ MaxHeight \in Nat /\ height \in Nat
  BY RadixSizes
<1>2. CASE height * META_NODE_SHIFT >= WORD_BITS
  <2>1. height = MaxHeight
    <3> DEFINE s == META_NODE_SHIFT
               a == WORD_BITS + s - 1
               q == a \div s
    <3>1. s \in Nat /\ s > 0 /\ a \in Nat /\ MaxHeight = q /\ height * s >= a + 1 - s
      BY <1>2, RadixAssumption DEF MaxHeight
    <3> HIDE DEF s, a
    <3>2. a = s * q + (a % s) /\ a % s \in 0 .. s - 1 /\ q \in Nat
      BY <3>1, DivMod
    <3> HIDE DEF q
    <3>3. height < q => s * height + s <= s * q
      BY <1>1, <3>1, <3>2, ProductOrder
    <3>4. s * height = height * s
      BY <1>1, <3>1
    <3> DEFINE x == s * height
               y == s * q
    <3>5. x \in Int /\ y \in Int /\ x >= a + 1 - s /\ a >= y /\ (height < q => x + s <= y)
      BY <1>1, <3>1, <3>2, <3>3, <3>4
    <3> HIDE DEF x, y
    <3> QED BY <1>1, <3>1, <3>5
  <2>2. NewHeight(key, height) = height
    BY <1>2 DEF NewHeight
  <2> QED BY <1>1, <2>1, <2>2
<1>3. CASE ~(height * META_NODE_SHIFT >= WORD_BITS)
  <2> DEFINE S == {h \in height .. MaxHeight : key < Span(h)}
             P(h) == key < Span(h) /\ \A g \in height .. h - 1 : key >= Span(g)
  <2>1. S # {} /\ S \subseteq Nat
    BY <1>1
  <2>2. PICK m \in S : \A h \in S : m <= h
    BY <2>1, LeastOf
  <2>3. m \in height .. MaxHeight /\ P(m)
    <3>1. m \in height .. MaxHeight /\ key < Span(m)
      BY <2>2
    <3>2. ASSUME NEW g \in height .. m - 1 PROVE key >= Span(g)
      <4>1. g \notin S /\ g \in height .. MaxHeight /\ g \in 0 .. MaxHeight
        BY <1>1, <2>2, <3>1
      <4>2. Span(g) \in Nat
        BY <4>1, RadixSizes
      <4> QED BY <1>1, <4>1, <4>2
    <3> QED BY <3>1, <3>2
  <2>4. NewHeight(key, height) = CHOOSE h \in height .. MaxHeight : P(h)
    BY <1>3 DEF NewHeight
  <2> HIDE DEF P
  <2>5. NewHeight(key, height) \in height .. MaxHeight /\ P(NewHeight(key, height))
    BY <2>3, <2>4
  <2> QED BY <2>5 DEF P
<1> QED BY <1>2, <1>3

\* Lookup is a read from the root.
LEMMA LookupRead ==
  ASSUME NEW c, NEW s, NEW k
  PROVE  Lookup(c, s, k) = IF k >= Span(Height(c, s)) THEN NULL
                           ELSE Read(c, Root(c, s), Height(c, s), k)
BY DEF Lookup, Leaf, Read, Digit

\* Tree s of memory c is made of the nodes of N.
Heads(c, s, ht, px, N) ==
  /\ Marked(ht, px) /\ N \in SUBSET Nodes /\ Leads(c, ht, px, N)
  /\ Root(c, s) \in N /\ Height(c, s) = ht[Root(c, s)] /\ px[Root(c, s)] = 0

\* The keys it has room for start at its root.
LEMMA HeadsWay ==
  ASSUME NEW c, NEW s, NEW ht, NEW px, NEW N, Heads(c, s, ht, px, N)
  PROVE  /\ Height(c, s) \in 1 .. MaxHeight /\ Height(c, s) \in 0 .. MaxHeight
         /\ MaxHeight \in Nat /\ Span(Height(c, s)) \in Nat
         /\ \A k \in Keys : k \in Nat /\ (k < Span(Height(c, s)) <=>
                                          Way(c, ht, px, N, Root(c, s), Height(c, s), k))
<1> DEFINE r == Root(c, s)
           h == Height(c, s)
<1>1. /\ Marked(ht, px) /\ N \in SUBSET Nodes /\ Leads(c, ht, px, N)
      /\ r \in N /\ h = ht[r] /\ px[r] = 0
  BY DEF Heads
<1>2. h \in 1 .. MaxHeight /\ h \in 0 .. MaxHeight /\ MaxHeight \in Nat /\ Span(h) \in Nat
  <2>1. h \in 1 .. MaxHeight
    BY <1>1 DEF Marked
  <2>2. h \in 0 .. MaxHeight
    BY <2>1, RadixSizes
  <2> QED BY <2>1, <2>2, RadixSizes
<1> HIDE DEF r, h
<1>3. ASSUME NEW k \in Keys PROVE k \in Nat /\ (k < Span(h) <=> Way(c, ht, px, N, r, h, k))
  <2>1. k \in Nat
    BY RadixSizes
  <2>2. k < Span(h) <=> Above(k, h) = 0
    BY <1>2, <2>1, BelowSpan
  <2> QED BY <1>1, <2>1, <2>2 DEF Way
<1> QED BY <1>2, <1>3 DEF r, h

\* Two memories that agree in a tree's head and in the entries on a key's way
\* show the key the same value.
LEMMA LookupSame ==
  ASSUME NEW c, NEW s, NEW ht, NEW px, NEW N, Heads(c, s, ht, px, N),
         NEW b, b[0][s] = c[0][s], NEW k \in Keys,
         Agrees(b, c, ht, px, N, k, 1, Height(c, s))
  PROVE  Lookup(b, s, k) = Lookup(c, s, k)
<1> DEFINE r == Root(c, s)
           h == Height(c, s)
<1>1. Root(b, s) = r /\ Height(b, s) = h
  BY DEF Root, Height
<1>2. k \in Nat /\ Span(h) \in Nat
  BY HeadsWay
<1>3. CASE k >= Span(h)
  BY <1>1, <1>3, LookupRead
<1>4. CASE k < Span(h)
  <2>1. Way(c, ht, px, N, r, h, k)
    BY <1>4, HeadsWay
  <2>2. Read(b, r, h, k) = Read(c, r, h, k)
    BY <2>1, ReadSame
  <2> QED BY <1>1, <2>2, LookupRead
<1> QED BY <1>2, <1>3, <1>4

-----------------------------------------------------------------------------
(* Words *)

\* What a store leaves behind.
Stored(m, f, s) ==
  /\ f.nvm = m.nvm /\ DOMAIN f.cache = DOMAIN m.cache
  /\ \A o \in DOMAIN m.cache :
       /\ DOMAIN f.cache[o] = DOMAIN m.cache[o]
       /\ \A w \in DOMAIN m.cache[o] :
            f.cache[o][w] = IF <<o, w>> \in DOMAIN s THEN s[<<o, w>>] ELSE m.cache[o][w]

\* A store changes the words it names in the cache, and owes them.
LEMMA StoreWords ==
  ASSUME NEW m, NEW L, NEW s, Owes(m, L)
  PROVE  Owes(Store(m, s), L \cup DOMAIN s) /\ Stored(m, Store(m, s), s)
<1> DEFINE f == Store(m, s)
<1>1. Sound(m, L)
  BY DEF Owes
<1>2. Owes(f, L \cup DOMAIN s)
  BY StoreOwes
<1>3. /\ Sound(f, L \cup DOMAIN s) /\ DOMAIN f.cache = DOMAIN m.cache
      /\ \A o \in DOMAIN m.cache : DOMAIN f.cache[o] = DOMAIN m.cache[o]
  BY <1>1, StoreSound
<1>4. /\ f.nvm = m.nvm
      /\ \A o \in DOMAIN m.cache : \A w \in DOMAIN m.cache[o] :
           f.cache[o][w] = IF <<o, w>> \in DOMAIN s THEN s[<<o, w>>] ELSE m.cache[o][w]
  BY <1>1, StoreCache
<1> HIDE DEF f
<1> QED BY <1>2, <1>3, <1>4 DEF f, Stored

\* m is written back in part: each word of the medium is the old one or the
\* cache's.
Partly(m, f) ==
  /\ f.cache = m.cache
  /\ \A o \in DOMAIN m.cache : \A w \in DOMAIN m.cache[o] :
       f.nvm[o][w] \in {m.nvm[o][w], m.cache[o][w]}

\* A write-back, a clflush, an mfence and flush_buffer write back in part.
LEMMA WriteBackPartly ==
  ASSUME NEW m, NEW L, NEW K, Sound(m, L)
  PROVE  Partly(m, WriteBack(m, K))
BY DEF Partly, Sound, Shaped, WriteBack

\* clflush.
LEMMA ClflushPartly ==
  ASSUME NEW m, NEW L, NEW K, Sound(m, L)
  PROVE  Partly(m, Clflush(m, K))
<1>1. /\ [m EXCEPT !.pend = @ \cup K].nvm = m.nvm
      /\ [m EXCEPT !.pend = @ \cup K].cache = m.cache
  BY DEF Sound, Shaped
<1>2. Partly(m, [m EXCEPT !.pend = @ \cup K])
  BY <1>1 DEF Partly
<1> QED BY <1>2, WriteBackPartly DEF Clflush

\* mfence.
LEMMA MfencePartly ==
  ASSUME NEW m, NEW L, Sound(m, L)
  PROVE  Partly(m, Mfence(m))
<1> DEFINE b == WriteBack(m, m.pend)
<1>1. Partly(m, b) /\ Sound(b, L \ m.pend)
  BY WriteBackPartly, WriteBackSound
<1>2. [b EXCEPT !.pend = {}].nvm = b.nvm /\ [b EXCEPT !.pend = {}].cache = b.cache
  BY <1>1 DEF Sound, Shaped
<1> HIDE DEF b
<1>3. Partly(m, [b EXCEPT !.pend = {}])
  BY <1>1, <1>2 DEF Partly
<1> QED BY <1>3 DEF Mfence, b

\* flush_buffer (34 to 58).
LEMMA FlushPartly ==
  ASSUME NEW m, NEW L, NEW K, NEW fence \in BOOLEAN, Owes(m, L)
  PROVE  Partly(m, flush_buffer(m, K, fence)) /\ Owes(flush_buffer(m, K, fence), L \ K)
<1>0. Sound(m, L) /\ Owes(flush_buffer(m, K, fence), L \ K)
  BY FlushOwes DEF Owes
<1>1. CASE fence = FALSE
  BY <1>0, <1>1, ClflushPartly DEF flush_buffer
<1>2. CASE fence = TRUE
  <2> DEFINE a == Mfence(m)
             b == Clflush(a, K)
             d == Mfence(b)
  <2>1. Partly(m, a) /\ Sound(a, L)
    BY <1>0, MfencePartly, MfenceSound
  <2> HIDE DEF a
  <2>2. Partly(a, b) /\ Sound(b, L \ K)
    BY <2>1, ClflushPartly, ClflushSound
  <2> HIDE DEF b
  <2>3. Partly(b, d)
    BY <2>2, MfencePartly
  <2> HIDE DEF d
  <2>4. Partly(m, d)
    BY <2>1, <2>2, <2>3 DEF Partly
  <2> QED BY <1>0, <1>2, <2>4 DEF flush_buffer, a, b, d
<1> QED BY <1>0, <1>1, <1>2

Width(o) == IF o = 0 THEN Trees ELSE Offsets

\* x may stand in word w of object o: a tree struct heads a node of its height
\* that begins with digit 0, an entry leads to the node made for that place.
Sane(ht, px, top, o, w, x) ==
  IF o = 0 THEN \/ x.root = NULL /\ x.height = 0
                \/ x.root \in 1 .. top - 1 /\ x.height = ht[x.root] /\ px[x.root] = 0
  ELSE IF w = PARENT_PTR THEN x \in Nodes \cup {NULL}
  ELSE IF w = P_INDEX THEN x \in Slots
  ELSE \/ x = NULL
       \/ o < top /\ ht[o] = 1
       \/ o < top /\ x \in 1 .. top - 1 /\ ht[x] = ht[o] - 1 /\ px[x] = px[o] * NUM_ENTRY + w

Tidy(c, ht, px, top) ==
  /\ DOMAIN c = {0} \cup Nodes
  /\ \A o \in {0} \cup Nodes : /\ DOMAIN c[o] = Width(o)
                               /\ \A w \in Width(o) : Sane(ht, px, top, o, w, c[o][w])

\* The places of the nodes below top stay.
Extended(ht, px, ht2, px2, top) ==
  \A n \in 1 .. top - 1 : ht2[n] = ht[n] /\ px2[n] = px[n]

\* What a step may do to the memory at most.
Moves(m, f) ==
  /\ DOMAIN f.cache = DOMAIN m.cache
  /\ \A o \in DOMAIN m.cache :
       /\ DOMAIN f.cache[o] = DOMAIN m.cache[o]
       /\ \A w \in DOMAIN m.cache[o] :
            f.nvm[o][w] \in {m.nvm[o][w], m.cache[o][w], f.cache[o][w]}

\* Every word of b is c's or may stand where it is.
Puts(c, b, ht, px, top) ==
  \A o \in {0} \cup Nodes : \A w \in Width(o) :
    b[o][w] = c[o][w] \/ Sane(ht, px, top, o, w, b[o][w])

\* The entries of N's nodes are c's.
SameEntries(c, b, N) == \A n \in N, i \in Slots : b[n][i] = c[n][i]

-----------------------------------------------------------------------------
\* What may stand in a word still may when nodes are added.
LEMMA SaneMore ==
  ASSUME NEW ht, NEW px, NEW ht2, NEW px2, NEW top \in 1 .. MaxNodes + 1, NEW top2 \in top .. MaxNodes + 1,
         Extended(ht, px, ht2, px2, top), NEW o \in {0} \cup Nodes, NEW w, NEW x,
         Sane(ht, px, top, o, w, x)
  PROVE  Sane(ht2, px2, top2, o, w, x)
<1>1. MaxNodes \in Nat /\ 1 .. top - 1 \subseteq 1 .. top2 - 1
  BY RadixAssumption
<1>2. CASE o = 0
  <2> DEFINE r == x.root
  <2> HIDE DEF r
  <2>1. (r = NULL /\ x.height = 0) \/ (r \in 1 .. top - 1 /\ x.height = ht[r] /\ px[r] = 0)
    BY <1>2 DEF Sane, r
  <2>2. (r = NULL /\ x.height = 0) \/ (r \in 1 .. top2 - 1 /\ x.height = ht2[r] /\ px2[r] = 0)
    BY <1>1, <2>1 DEF Extended
  <2> QED BY <1>2, <2>2 DEF Sane, r
<1>3. CASE o # 0 /\ w # PARENT_PTR /\ w # P_INDEX
  <2>1. \/ x = NULL
        \/ o < top /\ ht[o] = 1
        \/ o < top /\ x \in 1 .. top - 1 /\ ht[x] = ht[o] - 1 /\ px[x] = px[o] * NUM_ENTRY + w
    BY <1>3 DEF Sane
  <2>2. o \in Nat /\ (o < top => o \in 1 .. top - 1 /\ o < top2)
    BY <1>1, <1>3 DEF Nodes
  <2>3. \/ x = NULL
        \/ o < top2 /\ ht2[o] = 1
        \/ o < top2 /\ x \in 1 .. top2 - 1 /\ ht2[x] = ht2[o] - 1 /\ px2[x] = px2[o] * NUM_ENTRY + w
    BY <1>1, <2>1, <2>2 DEF Extended
  <2> QED BY <1>3, <2>3 DEF Sane
<1>4. CASE o # 0 /\ (w = PARENT_PTR \/ w = P_INDEX)
  BY <1>4 DEF Sane
<1> QED BY <1>2, <1>3, <1>4

\* After a step that stores only words that may stand where they are.
LEMMA StepTidy ==
  ASSUME NEW ht, NEW px, NEW ht2, NEW px2, NEW top \in 1 .. MaxNodes + 1, NEW top2 \in top .. MaxNodes + 1,
         Extended(ht, px, ht2, px2, top),
         NEW m, NEW f, NEW K, Owes(f, K), Moves(m, f),
         Tidy(m.cache, ht, px, top), Tidy(m.nvm, ht, px, top),
         Puts(m.cache, f.cache, ht2, px2, top2)
  PROVE  Tidy(f.cache, ht2, px2, top2) /\ Tidy(f.nvm, ht2, px2, top2)
<1>1. /\ DOMAIN m.cache = {0} \cup Nodes
      /\ \A o \in {0} \cup Nodes : DOMAIN m.cache[o] = Width(o)
  BY DEF Tidy
<1>2. /\ DOMAIN f.cache = {0} \cup Nodes /\ DOMAIN f.nvm = {0} \cup Nodes
      /\ \A o \in {0} \cup Nodes : DOMAIN f.cache[o] = Width(o) /\ DOMAIN f.nvm[o] = Width(o)
  BY <1>1 DEF Owes, Sound, Shaped, Moves
<1>3. ASSUME NEW o \in {0} \cup Nodes, NEW w \in Width(o)
      PROVE  /\ Sane(ht2, px2, top2, o, w, f.cache[o][w])
             /\ Sane(ht2, px2, top2, o, w, f.nvm[o][w])
  <2>1. Sane(ht, px, top, o, w, m.cache[o][w]) /\ Sane(ht, px, top, o, w, m.nvm[o][w])
    BY DEF Tidy
  <2>2. \A x : Sane(ht, px, top, o, w, x) => Sane(ht2, px2, top2, o, w, x)
    BY SaneMore
  <2>3. f.nvm[o][w] \in {m.nvm[o][w], m.cache[o][w], f.cache[o][w]}
    BY <1>1 DEF Moves
  <2>4. Sane(ht2, px2, top2, o, w, f.cache[o][w])
    BY <2>1, <2>2 DEF Puts
  <2> QED BY <2>1, <2>2, <2>3, <2>4
<1> QED BY <1>2, <1>3 DEF Tidy

\* Tidy memories lead as WalkMarked and its like want it.
LEMMA TidyLeads ==
  ASSUME NEW c, NEW ht, NEW px, Marked(ht, px), NEW top \in 1 .. MaxNodes + 1, Tidy(c, ht, px, top)
  PROVE  /\ 1 .. top - 1 \in SUBSET Nodes
         /\ Leads(c, ht, px, 1 .. top - 1)
         /\ \A n \in Nodes, i \in Slots : c[n][i] # NULL => n < top
<1>1. MaxNodes \in Nat /\ 1 .. top - 1 \subseteq Nodes /\ 0 \notin Nodes
  BY RadixAssumption DEF Nodes
<1>2. NUM_ENTRY \in Nat /\ \A i \in Slots : i \in Offsets /\ i # PARENT_PTR /\ i # P_INDEX
  BY RadixSizes DEF Slots, Offsets, PARENT_PTR, P_INDEX
<1>3. ASSUME NEW n \in Nodes, NEW i \in Slots, c[n][i] # NULL
      PROVE  /\ n < top
             /\ ht[n] > 1 => /\ c[n][i] \in 1 .. top - 1 /\ ht[c[n][i]] = ht[n] - 1
                             /\ px[c[n][i]] = px[n] * NUM_ENTRY + i
  <2>1. Sane(ht, px, top, n, i, c[n][i])
    BY <1>1, <1>2 DEF Tidy, Width
  <2>2. n # 0 /\ i # PARENT_PTR /\ i # P_INDEX
    BY <1>1, <1>2
  <2> QED BY <1>3, <2>1, <2>2 DEF Sane
<1>5. Leads(c, ht, px, 1 .. top - 1)
  BY <1>1, <1>3 DEF Leads
<1> QED BY <1>1, <1>3, <1>5

\* A tree struct in use heads a node of its height.
LEMMA TidyTree ==
  ASSUME NEW c, NEW ht, NEW px, NEW top, Tidy(c, ht, px, top),
         NEW s \in Trees, Root(c, s) # NULL
  PROVE  Root(c, s) \in 1 .. top - 1 /\ Height(c, s) = ht[Root(c, s)] /\ px[Root(c, s)] = 0
<1>1. Sane(ht, px, top, 0, s, c[0][s])
  BY DEF Tidy, Width
<1> QED BY <1>1 DEF Sane, Root, Height

-----------------------------------------------------------------------------
(* The invariant *)

Calling == op \in Map!Ops

\* Nodes below old are the tree's and lead to no other; an operation builds with
\* those from old on, and hands them over in one store.
Ground(ht, px, old) ==
  /\ Marked(ht, px)
  /\ t \in Trees /\ fresh \in 2 .. MaxNodes + 1 /\ losses \in 0 .. MaxLosses
  /\ Tidy(mem.cache, ht, px, fresh) /\ Tidy(mem.nvm, ht, px, fresh)
  /\ old \in 1 .. fresh /\ (pc \notin {"grow", "alloc", "publish"} => old = fresh)
  /\ Leads(mem.cache, ht, px, 1 .. old - 1)
  /\ Root(mem.cache, t) \in 1 .. old - 1 /\ mem.nvm[0][t] = mem.cache[0][t]
  /\ pc # "commit" => \A n \in 1 .. old - 1, i \in Slots : mem.nvm[n][i] = mem.cache[n][i]

\* The descent has followed the key.
Searching ==
  LET c == mem.cache IN
  /\ Calling /\ op.key < Span(Height(c, t))
  /\ at.h \in 1 .. Height(c, t) /\ at.key = op.key % Span(at.h)
  /\ at.node = Walk(c, Root(c, t), Height(c, t), op.key)[at.h] /\ at.node # NULL
  /\ Leaf(c, t, op.key) # NULL \/ fresh + at.h <= MaxNodes + 2

\* The new roots show what the tree shows.
Growing(ht, px, old) ==
  LET c   == mem.cache
      new == NewHeight(op.key, Height(c, t))
  IN
  /\ Calling /\ Height(c, t) < new
  /\ at.h \in Height(c, t) .. new /\ at.key = op.key
  /\ at.node \in 1 .. fresh - 1 /\ ht[at.node] = at.h /\ px[at.node] = 0
  /\ IF at.h = Height(c, t) THEN old = fresh ELSE at.node >= old
  /\ fresh + 2 * MaxHeight <= MaxNodes + 1 + (at.h - Height(c, t))
  /\ \A k \in Keys : k < Span(at.h) => Read(c, at.node, at.h, k) = Lookup(c, t, k)

\* The head of what is built: a taller tree's root, or a subtree's.
Top == IF at.slot[1] = 0 THEN Root(mem.cache, at.sub) ELSE at.sub

\* The word that will lead to it.
ForTree(ht) ==
  /\ at.sub = 3 - t /\ at.slot = TreeLine(at.sub)
  /\ op.key < Span(ht[Top]) /\ Height(mem.cache, t) <= ht[Top]

ForEntry(ht, n) ==
  LET c == mem.cache IN
  /\ at.slot = <<n, Digit(op.key, ht[n])>> /\ c[n][Digit(op.key, ht[n])] = NULL
  /\ ht[n] = ht[Top] + 1
  /\ op.key < Span(Height(c, t)) /\ ht[n] <= Height(c, t)
  /\ Walk(c, Root(c, t), Height(c, t), op.key)[ht[n]] = n

\* But for the key inserted it shows what the tree shows.
Building(ht, px, old) ==
  LET c == mem.cache IN
  /\ Calling
  /\ Top \in old .. fresh - 1 /\ px[Top] = Above(op.key, ht[Top])
  /\ ForTree(ht) \/ \E n \in 1 .. old - 1 : ForEntry(ht, n)
  /\ \A k \in Keys : k # op.key /\ Above(k, ht[Top]) = px[Top]
                       => Read(c, Top, ht[Top], k) = Lookup(c, t, k)

Allocating(ht, px, old) ==
  LET c == mem.cache IN
  /\ Building(ht, px, old)
  /\ at.node \in old .. fresh - 1 /\ ht[at.node] = at.h /\ px[at.node] = Above(op.key, at.h)
  /\ at.h <= ht[Top] /\ at.key = op.key % Span(at.h)
  /\ Walk(c, Top, ht[Top], op.key)[at.h] = at.node
  /\ fresh + at.h <= MaxNodes + 2
  /\ \A k \in Keys : Above(k, at.h - 1) = Above(op.key, at.h - 1) => Lookup(c, t, k) = NULL

Publishing(ht, px, old) ==
  /\ Building(ht, px, old)
  /\ Read(mem.cache, Top, ht[Top], op.key) = op.value

Phase(ht, px, old) ==
  /\ pc \in {"idle", "grow", "search", "alloc", "publish", "commit", "return", "down"}
  /\ pc = "idle" => op = NoOp
  /\ pc = "down" => op = Down
  /\ pc = "search" => Searching
  /\ pc = "grow" => Growing(ht, px, old)
  /\ pc = "alloc" => Allocating(ht, px, old)
  /\ pc = "publish" => Publishing(ht, px, old)
  /\ pc = "commit" =>
       Calling /\ Content(mem.cache, t) = [Content(mem.nvm, t) EXCEPT ![op.key] = op.value]
  /\ pc = "return" => Calling /\ Content(mem.nvm, t)[op.key] = op.value

State(ht, px, old) == Ground(ht, px, old) /\ Phase(ht, px, old)

RInv == \E ht, px, old : State(ht, px, old)

MapStep == [Map!Next]_<<Content(mem.nvm, t), op>>

-----------------------------------------------------------------------------
\* Where clflush is ordered and nothing is owed, cache and medium agree.
LEMMA Clean ==
  ASSUME ClflushOrdered, NEW m, Owes(m, {})
  PROVE  m.nvm = m.cache
<1>1. \A o \in DOMAIN m.cache : m.nvm[o] = m.cache[o]
  <2> SUFFICES ASSUME NEW o \in DOMAIN m.cache PROVE m.nvm[o] = m.cache[o]
    OBVIOUS
  <2>1. \A w \in DOMAIN m.cache[o] : m.cache[o][w] = m.nvm[o][w]
    BY DEF Owes, Sound, CleanBut, Settled
  <2>2. /\ m.cache[o] = [w \in DOMAIN m.cache[o] |-> m.cache[o][w]]
        /\ m.nvm[o] = [w \in DOMAIN m.cache[o] |-> m.nvm[o][w]]
    BY DEF Owes, Sound, Shaped, IsFunction
  <2> QED BY <2>1, <2>2
<1> QED BY <1>1 DEF Owes, Sound, Shaped, IsFunction

\* A tree in tidy memory is made of the nodes its entries lead to.
LEMMA TidyHeads ==
  ASSUME NEW c, NEW ht, NEW px, Marked(ht, px), NEW top \in 1 .. MaxNodes + 1, Tidy(c, ht, px, top),
         NEW old \in 1 .. top, Leads(c, ht, px, 1 .. old - 1), NEW s \in Trees, Root(c, s) \in 1 .. old - 1
  PROVE  Heads(c, s, ht, px, 1 .. old - 1)
<1>1. MaxNodes \in Nat /\ 1 .. old - 1 \in SUBSET Nodes
  BY RadixAssumption DEF Nodes
<1>2. Root(c, s) # NULL
  BY <1>1, NullIsNoNode
<1>3. Height(c, s) = ht[Root(c, s)] /\ px[Root(c, s)] = 0
  BY <1>2, TidyTree
<1> QED BY <1>1, <1>3 DEF Heads

\* A memory that has the words of a tree's nodes shows the map the tree shows.
LEMMA TreeSame ==
  ASSUME NEW c, NEW s, NEW ht, NEW px, NEW N, Heads(c, s, ht, px, N),
         NEW b, b[0][s] = c[0][s], SameEntries(c, b, N)
  PROVE  /\ \A k \in Keys : Lookup(b, s, k) = Lookup(c, s, k)
         /\ Content(b, s) = Content(c, s)
<1>1. ASSUME NEW m \in N, NEW k \in Keys PROVE b[m][Digit(k, ht[m])] = c[m][Digit(k, ht[m])]
  <2>1. ht[m] \in 1 .. MaxHeight /\ k \in Nat
    BY RadixSizes DEF Heads, Marked
  <2>2. Digit(k, ht[m]) \in Slots
    BY <2>1, DigitOfKey
  <2> QED BY <2>2 DEF SameEntries
<1>2. ASSUME NEW k \in Keys PROVE Lookup(b, s, k) = Lookup(c, s, k)
  <2>1. Agrees(b, c, ht, px, N, k, 1, Height(c, s))
    BY <1>1 DEF Agrees
  <2> QED BY <2>1, LookupSame
<1> QED BY <1>2 DEF Content

\* So is the caller's, in the cache; but for a pending commit the medium shows its map.
LEMMA GroundHeads ==
  ASSUME NEW ht, NEW px, NEW old, Ground(ht, px, old)
  PROVE  /\ Heads(mem.cache, t, ht, px, 1 .. old - 1)
         /\ 1 .. old - 1 \subseteq 1 .. fresh - 1 /\ fresh \in 1 .. MaxNodes + 1
         /\ pc # "commit" => Content(mem.nvm, t) = Content(mem.cache, t)
<1>1. /\ Marked(ht, px) /\ t \in Trees /\ fresh \in 2 .. MaxNodes + 1
      /\ Tidy(mem.cache, ht, px, fresh) /\ old \in 1 .. fresh
      /\ Leads(mem.cache, ht, px, 1 .. old - 1)
      /\ Root(mem.cache, t) \in 1 .. old - 1 /\ mem.nvm[0][t] = mem.cache[0][t]
  BY DEF Ground
<1>2. fresh \in 1 .. MaxNodes + 1 /\ 1 .. old - 1 \subseteq 1 .. fresh - 1
  BY <1>1, RadixAssumption
<1>3. Heads(mem.cache, t, ht, px, 1 .. old - 1)
  BY <1>1, <1>2, TidyHeads
<1>4. ASSUME pc # "commit" PROVE Content(mem.nvm, t) = Content(mem.cache, t)
  <2>1. \A n \in 1 .. old - 1, i \in Slots : mem.nvm[n][i] = mem.cache[n][i]
    BY <1>4 DEF Ground
  <2>2. SameEntries(mem.cache, mem.nvm, 1 .. old - 1)
    BY <2>1 DEF SameEntries
  <2> QED BY <1>1, <1>3, <2>2, TreeSame
<1> QED BY <1>2, <1>3, <1>4

\* A step that leaves the map alone.
LEMMA MapKept ==
  ASSUME NEW ht, NEW px, NEW old, Ground(ht, px, old), pc # "commit",
         NEW ht2, NEW px2, NEW old2, Ground(ht2, px2, old2)', pc' # "commit", op' = op,
         Content(mem'.cache, t') = Content(mem.cache, t)
  PROVE  MapStep /\ Content(mem'.nvm, t') = Content(mem.nvm, t)
<1>1. Content(mem.nvm, t) = Content(mem.cache, t)
  BY GroundHeads
<1>2. Content(mem.nvm, t)' = Content(mem.cache, t)'
  <2>1. /\ Marked(ht2, px2) /\ t' \in Trees /\ fresh' \in 2 .. MaxNodes + 1
        /\ Tidy(mem'.cache, ht2, px2, fresh') /\ old2 \in 1 .. fresh'
        /\ Leads(mem'.cache, ht2, px2, 1 .. old2 - 1)
        /\ Root(mem'.cache, t') \in 1 .. old2 - 1 /\ mem'.nvm[0][t'] = mem'.cache[0][t']
        /\ \A n \in 1 .. old2 - 1, i \in Slots : mem'.nvm[n][i] = mem'.cache[n][i]
    BY DEF Ground
  <2>2. fresh' \in 1 .. MaxNodes + 1
    BY <2>1, RadixAssumption
  <2>3. Heads(mem'.cache, t', ht2, px2, 1 .. old2 - 1)
    BY <2>1, <2>2, TidyHeads
  <2>4. SameEntries(mem'.cache, mem'.nvm, 1 .. old2 - 1)
    BY <2>1 DEF SameEntries
  <2>5. Content(mem'.nvm, t') = Content(mem'.cache, t')
    BY <2>1, <2>3, <2>4, TreeSame
  <2> QED BY <2>5
<1> QED BY <1>1, <1>2 DEF MapStep

\* In the nodes of N, b and c differ in entry i of node a at most.
ButFor(b, c, N, a, i) == \A m \in N, j \in Slots : <<m, j>> # <<a, i>> => b[m][j] = c[m][j]

\* One word on key's way changes, the entry of node a: keys that part from key
\* above do not notice, the others still come to a.
LEMMA Redirect ==
  ASSUME NEW c, NEW ht, NEW px, NEW N, NEW r, NEW h, NEW key, Way(c, ht, px, N, r, h, key),
         NEW g \in 1 .. h, NEW a, a # NULL, a = Walk(c, r, h, key)[g],
         NEW b, ButFor(b, c, N, a, Digit(key, g)),
         NEW k, Way(c, ht, px, N, r, h, k)
  PROVE  IF Above(k, g - 1) = Above(key, g - 1)
         THEN /\ Digit(k, g) = Digit(key, g) /\ Walk(b, r, h, k)[g] = a
              /\ Read(b, r, h, k) = Read(b, a, g, k)
         ELSE Read(b, r, h, k) = Read(c, r, h, k)
<1>1. /\ h \in 1 .. MaxHeight /\ g \in 1 .. MaxHeight /\ g \in 1 .. h /\ MaxHeight \in Nat
      /\ k \in Nat /\ key \in Nat /\ g + 1 \in Nat /\ g \in Nat
  <2>1. h \in 1 .. MaxHeight /\ MaxHeight \in Nat
    BY WayHeight
  <2> QED BY <2>1 DEF Way
<1>2. ASSUME NEW m \in N PROVE ht[m] \in 1 .. MaxHeight /\ Digit(k, ht[m]) \in Slots
  <2>1. ht[m] \in 1 .. MaxHeight
    BY DEF Way, Marked
  <2> QED BY <1>1, <2>1, DigitOfKey
<1>3. Passes(ht, px, N, key, g, a)
  <2> DEFINE w == Walk(c, r, h, key)
  <2>1. \A j \in 1 .. h : Passes(ht, px, N, key, j, w[j])
    BY WalkPasses
  <2>2. a = w[g]
    OBVIOUS
  <2> HIDE DEF w
  <2> QED BY <2>1, <2>2
<1>4. CASE Above(k, g - 1) = Above(key, g - 1)
  <2>1. Above(key, g) = Above(k, g) /\ Digit(k, g) = Digit(key, g)
    BY <1>1, <1>4, SameAbove
  <2>2. Walk(c, r, h, k)[g] = a
    <3> DEFINE w == Walk(c, r, h, key)
               v == Walk(c, r, h, k)
    <3>1. \A j \in g .. h : v[j] = w[j]
      BY <1>1, <2>1, WalkKeys
    <3>2. w[g] = a
      OBVIOUS
    <3> HIDE DEF w, v
    <3>3. v[g] = a
      BY <1>1, <3>1, <3>2
    <3> QED BY <3>3 DEF v
  <2>3. Agrees(b, c, ht, px, N, k, g + 1, h)
    <3>1. ASSUME NEW m \in N, ht[m] \in g + 1 .. h PROVE b[m][Digit(k, ht[m])] = c[m][Digit(k, ht[m])]
      <4>1. m # a
        BY <1>1, <1>3, <3>1 DEF Passes
      <4> QED BY <1>2, <4>1 DEF ButFor
    <3> QED BY <3>1 DEF Agrees
  <2>4. Walk(b, r, h, k)[g] = a
    BY <2>2, <2>3, WalkSame
  <2>5. Read(b, r, h, k) = Read(b, a, g, k)
    BY <1>1, <2>4, ReadSplit
  <2> QED BY <1>4, <2>1, <2>4, <2>5
<1>5. CASE Above(k, g - 1) # Above(key, g - 1)
  <2>1. ASSUME NEW m \in N, ht[m] \in 1 .. h, px[m] = Above(k, ht[m])
        PROVE  b[m][Digit(k, ht[m])] = c[m][Digit(k, ht[m])]
    <3>1. CASE <<m, Digit(k, ht[m])>> = <<a, Digit(key, g)>>
      <4>1. m = a /\ Above(k, g) = Above(key, g) /\ Digit(k, g) = Digit(key, g)
        BY <1>3, <2>1, <3>1 DEF Passes
      <4> QED BY <1>1, <1>5, <4>1, SameAbove
    <3>2. CASE <<m, Digit(k, ht[m])>> # <<a, Digit(key, g)>>
      BY <1>2, <3>2 DEF ButFor
    <3> QED BY <3>1, <3>2
  <2>2. Agrees(b, c, ht, px, N, k, 1, h)
    BY <2>1 DEF Agrees
  <2>3. Read(b, r, h, k) = Read(c, r, h, k)
    BY <2>2, ReadSame
  <2> QED BY <1>5, <2>3
<1> QED BY <1>4, <1>5

\* A value stored in key's leaf changes the map at key only.
LEMMA PutLeaf ==
  ASSUME NEW c, NEW s, NEW ht, NEW px, NEW N, Heads(c, s, ht, px, N),
         NEW key \in Keys, key < Span(Height(c, s)), NEW a, a = Leaf(c, s, key), a # NULL,
         NEW b, b[0][s] = c[0][s], NEW v, b[a][Digit(key, 1)] = v, ButFor(b, c, N, a, Digit(key, 1))
  PROVE  Content(b, s) = [Content(c, s) EXCEPT ![key] = v]
<1> DEFINE r == Root(c, s)
           h == Height(c, s)
<1>1. /\ h \in 1 .. MaxHeight /\ MaxHeight \in Nat /\ Span(h) \in Nat /\ 1 \in 1 .. h
      /\ \A k \in Keys : k \in Nat /\ (k < Span(h) <=> Way(c, ht, px, N, r, h, k))
  <2>1. /\ h \in 1 .. MaxHeight /\ MaxHeight \in Nat /\ Span(h) \in Nat
        /\ \A k \in Keys : k \in Nat /\ (k < Span(h) <=> Way(c, ht, px, N, r, h, k))
    BY HeadsWay
  <2> QED BY <2>1
<1>2. Root(b, s) = r /\ Height(b, s) = h
  BY DEF Root, Height
<1>3. a = Walk(c, r, h, key)[1] /\ a # NULL
  BY DEF Leaf
<1>4. \A k \in Keys : Lookup(b, s, k) = IF k < Span(h) THEN Read(b, r, h, k) ELSE NULL
  BY <1>1, <1>2, LookupRead
<1>5. \A k \in Keys : Lookup(c, s, k) = IF k < Span(h) THEN Read(c, r, h, k) ELSE NULL
  BY <1>1, LookupRead
<1>6. key < Span(h) /\ Way(c, ht, px, N, r, h, key)
  BY <1>1
<1> HIDE DEF r, h
<1>9. ASSUME NEW k \in Keys, k < Span(h)
      PROVE  Read(b, r, h, k) = IF k = key THEN v ELSE Read(c, r, h, k)
  <2>1. Way(c, ht, px, N, r, h, k) /\ k \in Nat /\ key \in Nat
    BY <1>1, <1>9
  <2>2. Above(k, 1 - 1) = k /\ Above(key, 1 - 1) = key
    BY <2>1, RadixSizes DEF Above
  <2>4. IF Above(k, 1 - 1) = Above(key, 1 - 1)
        THEN /\ Digit(k, 1) = Digit(key, 1) /\ Walk(b, r, h, k)[1] = a
             /\ Read(b, r, h, k) = Read(b, a, 1, k)
        ELSE Read(b, r, h, k) = Read(c, r, h, k)
    BY <1>1, <1>3, <1>6, <2>1, Redirect
  <2>5. Read(b, a, 1, key) = v
    BY <1>3, ReadLeaf
  <2> QED BY <2>2, <2>4, <2>5
<1>10. ASSUME NEW k \in Keys PROVE Lookup(b, s, k) = IF k = key THEN v ELSE Lookup(c, s, k)
  BY <1>4, <1>5, <1>6, <1>9
<1> QED BY <1>10 DEF Content

\* Entry a of key's way, blank before, gets subtree r2, which shows what the
\* tree showed of the keys below it, but for key itself.
LEMMA PutEntry ==
  ASSUME NEW c, NEW s, NEW ht, NEW px, NEW N, Heads(c, s, ht, px, N),
         NEW key \in Keys, key < Span(Height(c, s)), NEW g \in 2 .. Height(c, s),
         NEW a \in Nodes, a = Walk(c, Root(c, s), Height(c, s), key)[g],
         NEW b, b[0][s] = c[0][s], NEW r2 \in Nodes, b[a][Digit(key, g)] = r2,
         ButFor(b, c, N, a, Digit(key, g)),
         \A k \in Keys : Above(k, g - 1) = Above(key, g - 1) =>
           k = key \/ Read(b, r2, g - 1, k) = Lookup(c, s, k)
  PROVE  Content(b, s) = [Content(c, s) EXCEPT ![key] = Read(b, r2, g - 1, key)]
<1> DEFINE r == Root(c, s)
           h == Height(c, s)
           v == Read(b, r2, g - 1, key)
<1>1. /\ h \in 1 .. MaxHeight /\ MaxHeight \in Nat /\ Span(h) \in Nat
      /\ \A k \in Keys : k \in Nat /\ (k < Span(h) <=> Way(c, ht, px, N, r, h, k))
  BY HeadsWay
<1>2. Root(b, s) = r /\ Height(b, s) = h
  BY DEF Root, Height
<1>3. a = Walk(c, r, h, key)[g] /\ a # NULL
  BY NullIsNoNode
<1>4. \A k \in Keys : Lookup(b, s, k) = IF k < Span(h) THEN Read(b, r, h, k) ELSE NULL
  BY <1>1, <1>2, LookupRead
<1>5. \A k \in Keys : Lookup(c, s, k) = IF k < Span(h) THEN Read(c, r, h, k) ELSE NULL
  BY <1>1, LookupRead
<1>6. key < Span(h) /\ Way(c, ht, px, N, r, h, key)
  BY <1>1
<1>7. g \in 2 .. MaxHeight /\ g \in 1 .. h /\ g - 1 \in 0 .. MaxHeight
  BY <1>1
<1> HIDE DEF r, h
<1>8. ASSUME NEW k \in Keys, k < Span(h)
      PROVE  /\ Above(k, g - 1) = Above(key, g - 1) => Read(b, r, h, k) = Read(b, r2, g - 1, k)
             /\ Above(k, g - 1) # Above(key, g - 1) => Read(b, r, h, k) = Read(c, r, h, k)
  <2>1. Way(c, ht, px, N, r, h, k)
    BY <1>1, <1>8
  <2>3. IF Above(k, g - 1) = Above(key, g - 1)
        THEN /\ Digit(k, g) = Digit(key, g) /\ Walk(b, r, h, k)[g] = a
             /\ Read(b, r, h, k) = Read(b, a, g, k)
        ELSE Read(b, r, h, k) = Read(c, r, h, k)
    BY <1>3, <1>6, <1>7, <2>1, Redirect
  <2>4. Read(b, a, g, k) = Read(b, b[a][Digit(k, g)], g - 1, k)
    BY <1>3, <1>7, ReadChild
  <2> QED BY <2>3, <2>4
<1> HIDE DEF v
<1>9. ASSUME NEW k \in Keys PROVE Lookup(b, s, k) = IF k = key THEN v ELSE Lookup(c, s, k)
  <2>1. CASE k < Span(h)
    BY <1>4, <1>5, <1>8, <2>1 DEF v
  <2>2. CASE ~(k < Span(h))
    BY <1>4, <1>5, <1>6, <2>2
  <2> QED BY <2>1, <2>2
<1> QED BY <1>9 DEF Content, v

\* Tree s2, at least as tall, shows what tree s shows, but for key.
LEMMA PutTree ==
  ASSUME NEW c, NEW s, NEW ht, NEW px, NEW N, Heads(c, s, ht, px, N),
         NEW key \in Keys, NEW s2, NEW g, g = Height(c, s2), g \in Height(c, s) .. MaxHeight,
         key < Span(g),
         \A k \in Keys : k < Span(g) => k = key \/ Read(c, Root(c, s2), g, k) = Lookup(c, s, k)
  PROVE  Content(c, s2) = [Content(c, s) EXCEPT ![key] = Read(c, Root(c, s2), g, key)]
<1> DEFINE h == Height(c, s)
           r2 == Root(c, s2)
<1>1. /\ h \in 0 .. MaxHeight /\ MaxHeight \in Nat /\ Span(h) \in Nat
      /\ \A k \in Keys : k \in Nat
  BY HeadsWay
<1>2. Span(h) <= Span(g) /\ Span(g) \in Nat
  BY <1>1, SpanMonotone, RadixSizes
<1>3. \A k \in Keys : Lookup(c, s2, k) = IF k < Span(g) THEN Read(c, r2, g, k) ELSE NULL
  BY <1>1, <1>2, LookupRead
<1>4. \A k \in Keys : k >= Span(h) => Lookup(c, s, k) = NULL
  BY LookupRead
<1> HIDE DEF h, r2
<1>5. ASSUME NEW k \in Keys
      PROVE  Lookup(c, s2, k) = IF k = key THEN Read(c, r2, g, key) ELSE Lookup(c, s, k)
  <2>1. CASE k < Span(g)
    BY <1>3, <2>1 DEF r2
  <2>2. CASE ~(k < Span(g))
    BY <1>1, <1>2, <1>3, <1>4, <2>2
  <2> QED BY <2>1, <2>2
<1> QED BY <1>5 DEF Content, r2

\* A step that leaves the tree's words alone, whatever else it stores.
LEMMA GroundKept ==
  ASSUME NEW ht, NEW px, NEW old, Ground(ht, px, old), pc # "commit",
         NEW ht2, NEW px2, Marked(ht2, px2), Extended(ht, px, ht2, px2, fresh),
         fresh' \in fresh .. MaxNodes + 1, t' = t, losses' \in 0 .. MaxLosses,
         pc' \in {"grow", "alloc", "publish"} \/ old = fresh',
         NEW K, Owes(mem', K), Moves(mem, mem'),
         Puts(mem.cache, mem'.cache, ht2, px2, fresh'),
         mem'.cache[0][t] = mem.cache[0][t],
         SameEntries(mem.cache, mem'.cache, 1 .. old - 1)
  PROVE  /\ Ground(ht2, px2, old)'
         /\ \A k \in Keys : Lookup(mem'.cache, t', k) = Lookup(mem.cache, t, k)
         /\ Content(mem'.cache, t') = Content(mem.cache, t)
         /\ Height(mem'.cache, t') = Height(mem.cache, t)
         /\ Root(mem'.cache, t') = Root(mem.cache, t)
<1>1. /\ Marked(ht, px) /\ t \in Trees /\ fresh \in 2 .. MaxNodes + 1
      /\ Tidy(mem.cache, ht, px, fresh) /\ Tidy(mem.nvm, ht, px, fresh)
      /\ old \in 1 .. fresh /\ Leads(mem.cache, ht, px, 1 .. old - 1)
      /\ Root(mem.cache, t) \in 1 .. old - 1 /\ mem.nvm[0][t] = mem.cache[0][t]
      /\ \A n \in 1 .. old - 1, i \in Slots : mem.nvm[n][i] = mem.cache[n][i]
  BY DEF Ground
<1>2. /\ fresh \in 1 .. MaxNodes + 1 /\ 1 .. old - 1 \subseteq 1 .. fresh - 1
      /\ fresh' \in 2 .. MaxNodes + 1 /\ old \in 1 .. fresh' /\ MaxNodes \in Nat
      /\ 1 .. old - 1 \subseteq Nodes
  BY <1>1, RadixAssumption DEF Nodes
<1>3. Tidy(mem'.cache, ht2, px2, fresh') /\ Tidy(mem'.nvm, ht2, px2, fresh')
  BY <1>1, <1>2, StepTidy
<1>4. /\ Root(mem'.cache, t') = Root(mem.cache, t) /\ Height(mem'.cache, t') = Height(mem.cache, t)
      /\ mem'.cache[0][t'] = mem.cache[0][t]
  BY DEF Root, Height
<1>5. Leads(mem'.cache, ht2, px2, 1 .. old - 1)
  <2> SUFFICES ASSUME NEW n \in 1 .. old - 1, NEW i \in Slots, ht2[n] > 1, mem'.cache[n][i] # NULL
               PROVE  LET x == mem'.cache[n][i] IN
                      x \in 1 .. old - 1 /\ ht2[x] = ht2[n] - 1 /\ px2[x] = px2[n] * NUM_ENTRY + i
    BY DEF Leads
  <2> DEFINE x == mem.cache[n][i]
  <2>1. mem'.cache[n][i] = x
    BY DEF SameEntries
  <2>2. ht2[n] = ht[n] /\ px2[n] = px[n]
    BY <1>2 DEF Extended
  <2>3. x \in 1 .. old - 1 /\ ht[x] = ht[n] - 1 /\ px[x] = px[n] * NUM_ENTRY + i
    BY <1>1, <2>1, <2>2 DEF Leads
  <2> HIDE DEF x
  <2>4. ht2[x] = ht[x] /\ px2[x] = px[x]
    BY <1>2, <2>3 DEF Extended
  <2> QED BY <2>1, <2>2, <2>3, <2>4
<1>6. mem'.nvm[0][t'] = mem'.cache[0][t']
  <2>1. 0 \in DOMAIN mem.cache /\ t \in DOMAIN mem.cache[0]
    BY <1>1 DEF Tidy, Width
  <2> QED BY <1>1, <2>1 DEF Moves
<1>7. \A n \in 1 .. old - 1, i \in Slots : mem'.nvm[n][i] = mem'.cache[n][i]
  <2> SUFFICES ASSUME NEW n \in 1 .. old - 1, NEW i \in Slots
               PROVE  mem'.nvm[n][i] = mem'.cache[n][i]
    OBVIOUS
  <2>1. n \in DOMAIN mem.cache /\ DOMAIN mem.cache[n] = Width(n) /\ n # 0
    BY <1>1, <1>2 DEF Tidy
  <2>2. i \in DOMAIN mem.cache[n]
    BY <2>1, RadixSizes DEF Width, Slots, Offsets, P_INDEX
  <2>3. mem'.nvm[n][i] \in {mem.nvm[n][i], mem.cache[n][i], mem'.cache[n][i]}
    BY <2>1, <2>2 DEF Moves
  <2> QED BY <1>1, <2>3 DEF SameEntries
<1>8. Heads(mem.cache, t, ht, px, 1 .. old - 1)
  BY GroundHeads
<1>9. /\ \A k \in Keys : Lookup(mem'.cache, t, k) = Lookup(mem.cache, t, k)
      /\ Content(mem'.cache, t) = Content(mem.cache, t)
  <2> DEFINE c == mem.cache
             b == mem'.cache
             N == 1 .. old - 1
  <2>1. /\ Heads(c, t, ht, px, N) /\ b[0][t] = c[0][t]
        /\ SameEntries(c, b, N)
    BY <1>8
  <2> HIDE DEF c, b, N
  <2>2. \A k \in Keys : Lookup(b, t, k) = Lookup(c, t, k)
    BY <2>1, TreeSame
  <2>3. Content(b, t) = Content(c, t)
    BY <2>1, TreeSame
  <2> QED BY <2>2, <2>3 DEF b, c
<1>10. Ground(ht2, px2, old)'
  BY <1>1, <1>2, <1>3, <1>4, <1>5, <1>6, <1>7 DEF Ground
<1> QED BY <1>4, <1>9, <1>10

\* The height of the caller's tree.
LEMMA HeadsTop ==
  ASSUME NEW ht, NEW px, NEW old, Ground(ht, px, old)
  PROVE  /\ Height(mem.cache, t) \in 1 .. MaxHeight /\ MaxHeight \in Nat
         /\ Height(mem.cache, t) = ht[Root(mem.cache, t)] /\ px[Root(mem.cache, t)] = 0
         /\ Root(mem.cache, t) \in 1 .. fresh - 1 /\ Root(mem.cache, t) \in Nodes
         /\ Root(mem.cache, t) # NULL /\ t \in Trees /\ fresh \in 2 .. MaxNodes + 1 /\ MaxNodes \in Nat
<1>1. /\ Heads(mem.cache, t, ht, px, 1 .. old - 1) /\ 1 .. old - 1 \subseteq 1 .. fresh - 1
  BY GroundHeads
<1>2. Root(mem.cache, t) \in Nodes
  BY <1>1 DEF Heads
<1> QED BY <1>1, <1>2, HeadsWay, NullIsNoNode, RadixAssumption DEF Heads, Ground

\* Insert begins: grow first, or search (229 to 249).
LEMMA StepInsert ==
  ASSUME NEW ht, NEW px, NEW old, State(ht, px, old),
         NEW key \in Keys, NEW value \in Values, Insert(key, value)
  PROVE  RInv' /\ MapStep
<1> DEFINE c == mem.cache
           height == Height(c, t)
           new == NewHeight(key, height)
<1>1. /\ pc = "idle" /\ mem' = mem /\ t' = t /\ fresh' = fresh /\ losses' = losses
      /\ op' = [kind |-> "Insert", key |-> key, value |-> value]
      /\ pc' = IF new > height THEN "grow" ELSE "search"
      /\ at' = [Idle EXCEPT !.node = Root(c, t), !.key = key, !.h = height]
      /\ \/ fresh + 2 * MaxHeight <= MaxNodes + 1
         \/ key < Span(height) /\ Leaf(c, t, key) # NULL
  BY DEF Insert
<1>2. Ground(ht, px, old) /\ op = NoOp /\ old = fresh
  BY <1>1 DEF State, Phase, Ground
<1>3. op'.key = key /\ at'.node = Root(c, t) /\ at'.key = key /\ at'.h = height
  BY <1>1 DEF Idle
<1>4. op' \in Map!Ops /\ op = Map!NoOp
  BY <1>1, <1>2 DEF Map!Ops, Map!NoOp, NoOp
<1>5. Ground(ht, px, old)'
  BY <1>1, <1>2 DEF Ground
<1>6. MapStep
  <2>1. Map!Begin
    BY <1>1, <1>4 DEF Map!Begin
  <2> QED BY <2>1 DEF MapStep, Map!Next
<1>7. /\ height \in 1 .. MaxHeight /\ MaxHeight \in Nat /\ Root(c, t) # NULL
      /\ height = ht[Root(c, t)] /\ px[Root(c, t)] = 0 /\ Root(c, t) \in 1 .. fresh - 1
      /\ fresh \in Nat /\ MaxNodes \in Nat
  BY <1>2, HeadsTop
<1>8. /\ new \in height .. MaxHeight /\ key < Span(new)
      /\ \A g \in height .. new - 1 : key >= Span(g)
  BY <1>7, NewHeightFits
<1>9. key \in Nat /\ Span(height) \in Nat /\ Span(height) > 0
  BY <1>7, RadixSizes
<1> HIDE DEF height, new, c
<1>10. CASE new > height
  <2>1. pc' = "grow" /\ key >= Span(height)
    BY <1>1, <1>7, <1>8, <1>10
  <2>2. fresh + 2 * MaxHeight <= MaxNodes + 1
    BY <1>1, <1>9, <2>1
  <2>3. \A k \in Keys : k < Span(height) => Read(c, Root(c, t), height, k) = Lookup(c, t, k)
    <3>1. \A k \in Keys : k \in Nat
      BY RadixSizes
    <3> QED BY <1>9, <3>1, LookupRead DEF height
  <2>4. Growing(ht, px, old)'
    BY <1>1, <1>2, <1>3, <1>4, <1>7, <1>8, <1>10, <2>2, <2>3 DEF Growing, Calling, c, height, new
  <2>5. Phase(ht, px, old)'
    BY <2>1, <2>4 DEF Phase
  <2> QED BY <1>5, <1>6, <2>5 DEF RInv, State
<1>11. CASE ~(new > height)
  <2>1. pc' = "search" /\ new = height /\ key < Span(height)
    BY <1>1, <1>7, <1>8, <1>11
  <2>2. key = key % Span(height)
    BY <1>9, <2>1
  <2>3. Root(c, t) = Walk(c, Root(c, t), height, key)[height]
    BY <1>7, WalkTop
  <2>4. Leaf(c, t, key) # NULL \/ fresh + height <= MaxNodes + 2
    BY <1>1, <1>7
  <2>5. Searching'
    BY <1>1, <1>3, <1>4, <1>7, <2>1, <2>2, <2>3, <2>4 DEF Searching, Calling, c, height
  <2>6. Phase(ht, px, old)'
    BY <2>1, <2>5 DEF Phase
  <2> QED BY <1>5, <1>6, <2>6 DEF RInv, State
<1> QED BY <1>10, <1>11

\* One turn of the loop of a walk.
LEMMA WalkTurn ==
  ASSUME NEW c, NEW n, NEW h \in 1 .. MaxHeight, NEW k, NEW j \in 2 .. h,
         NEW m, m = Walk(c, n, h, k)[j], m # NULL
  PROVE  Walk(c, n, h, k)[j - 1] = c[m][Digit(k, j)]
<1> DEFINE w == Walk(c, n, h, k)
<1>1. Turns(c, n, h, k, w)
  BY WalkStep
<1>2. j - 1 \in 1 .. MaxHeight /\ ~(j - 1 >= h) /\ (j - 1) + 1 = j
  BY RadixSizes
<1>3. w[j] = m
  OBVIOUS
<1> HIDE DEF w
<1>4. w[j - 1] = c[m][Digit(k, j)]
  BY <1>1, <1>2, <1>3 DEF Turns
<1> QED BY <1>4 DEF w

\* A step of the search: the next node of the key's walk.
LEMMA StepSearchInner ==
  ASSUME NEW ht, NEW px, NEW old, State(ht, px, old), IInv, SearchInner
  PROVE  RInv' /\ MapStep
<1> DEFINE c == mem.cache
           r == Root(c, t)
           height == Height(c, t)
           child == c[at.node][Index(at.key, at.h)]
<1>1. /\ pc = "search" /\ pc' = "search" /\ mem' = mem /\ t' = t /\ fresh' = fresh /\ losses' = losses
      /\ op' = op /\ at.h > 1 /\ child # NULL
      /\ at' = [at EXCEPT !.node = child, !.key = NextKey(at.key, at.h), !.h = at.h - 1]
  BY DEF SearchInner
<1>2. at'.node = child /\ at'.key = NextKey(at.key, at.h) /\ at'.h = at.h - 1
  BY <1>1 DEF IInv
<1>3. Ground(ht, px, old) /\ Searching
  BY <1>1 DEF State, Phase
<1>4. Ground(ht, px, old)'
  BY <1>1, <1>3 DEF Ground
<1>5. MapStep
  BY <1>1 DEF MapStep
<1>6. /\ Calling /\ op.key < Span(height)
      /\ at.h \in 1 .. height /\ at.key = op.key % Span(at.h)
      /\ at.node = Walk(c, r, height, op.key)[at.h] /\ at.node # NULL
      /\ Leaf(c, t, op.key) # NULL \/ fresh + at.h <= MaxNodes + 2
  BY <1>3 DEF Searching
<1>7. height \in 1 .. MaxHeight /\ MaxHeight \in Nat /\ fresh \in Nat /\ MaxNodes \in Nat
  BY <1>3, HeadsTop
<1>8. op.key \in Keys /\ op.key \in Nat
  BY <1>6, RadixSizes DEF Calling, Map!Ops
<1> HIDE DEF c, height, r
<1>9. /\ at.h \in 1 .. MaxHeight /\ at.h \in 2 .. height /\ at.h - 1 \in 1 .. height
      /\ fresh + at.h <= MaxNodes + 2 => fresh + (at.h - 1) <= MaxNodes + 2
  BY <1>1, <1>6, <1>7
<1>10. Index(at.key, at.h) = Digit(op.key, at.h) /\ NextKey(at.key, at.h) = op.key % Span(at.h - 1)
  BY <1>6, <1>8, <1>9, DigitOfKey DEF Digit
<1>11. child = Walk(c, r, height, op.key)[at.h - 1]
  BY <1>6, <1>7, <1>9, <1>10, WalkTurn
<1>12. Searching'
  BY <1>1, <1>2, <1>6, <1>9, <1>10, <1>11 DEF Searching, Calling, c, height, r
<1>13. Phase(ht, px, old)'
  BY <1>1, <1>12 DEF Phase
<1> QED BY <1>4, <1>5, <1>13 DEF RInv, State

\* A value stored in a leaf of the tree waits for the commit.
LEMMA LeafStored ==
  ASSUME NEW ht, NEW px, NEW old, Ground(ht, px, old), pc \in {"idle", "search"}, IInv,
         NEW key \in Keys, key < Span(Height(mem.cache, t)), Leaf(mem.cache, t, key) # NULL, NEW v,
         mem' = Store(mem, Word(<<Leaf(mem.cache, t, key), Digit(key, 1)>>, v)),
         t' = t, fresh' = fresh, losses' = losses, pc' = "commit"
  PROVE  /\ Ground(ht, px, old)' /\ Content(mem'.nvm, t') = Content(mem.nvm, t)
         /\ Content(mem'.cache, t') = [Content(mem'.nvm, t') EXCEPT ![key] = v]
<1> DEFINE c == mem.cache
           a == Leaf(c, t, key)
           l == <<a, Digit(key, 1)>>
           s == Word(l, v)
           f == Store(mem, s)
           N == 1 .. fresh - 1
<1>1. old = fresh /\ Owes(mem, {}) /\ Heads(c, t, ht, px, N) /\ Content(mem.nvm, t) = Content(c, t)
  BY GroundHeads DEF Ground, IInv, Owed
<1>2. /\ Marked(ht, px) /\ t \in Trees /\ fresh \in 2 .. MaxNodes + 1
      /\ Tidy(mem.cache, ht, px, fresh) /\ Tidy(mem.nvm, ht, px, fresh)
      /\ Leads(mem.cache, ht, px, N)
      /\ Root(mem.cache, t) \in N /\ mem.nvm[0][t] = mem.cache[0][t]
  BY <1>1 DEF Ground
<1>3. MaxNodes \in Nat /\ fresh \in 1 .. MaxNodes + 1 /\ N \subseteq Nodes /\ 0 \notin Nodes
  BY <1>2, RadixAssumption DEF Nodes
<1>4. a \in N /\ ht[a] = 1
  <2> DEFINE w == Walk(c, Root(c, t), Height(c, t), key)
  <2>1. Way(c, ht, px, N, Root(c, t), Height(c, t), key)
    BY <1>1, HeadsWay
  <2>2. \A j \in 1 .. Height(c, t) : Passes(ht, px, N, key, j, w[j])
    BY <2>1, WalkPasses
  <2>3. a = w[1] /\ a # NULL
    BY DEF Leaf
  <2>4. 1 \in 1 .. Height(c, t)
    BY <1>1, HeadsWay
  <2> HIDE DEF w, a
  <2> QED BY <2>2, <2>3, <2>4 DEF Passes
<1>5. Digit(key, 1) \in Slots /\ Slots \subseteq Offsets /\ PARENT_PTR \notin Slots /\ P_INDEX \notin Slots
  BY RadixSizes, DigitOfKey DEF Slots, Offsets, P_INDEX, PARENT_PTR
<1>6. DOMAIN s = {l} /\ s[l] = v
  BY DEF Word
<1>7. mem' = f
  OBVIOUS
<1> HIDE DEF s
<1>8. Owes(f, {} \cup DOMAIN s) /\ Stored(mem, f, s)
  BY <1>1, StoreWords
<1> HIDE DEF f, a
<1>9. \A o \in {0} \cup Nodes : \A w \in Width(o) :
        f.cache[o][w] = IF <<o, w>> = l THEN v ELSE mem.cache[o][w]
  BY <1>2, <1>6, <1>8 DEF Tidy, Stored
<1>10. Moves(mem, f)
  BY <1>8 DEF Moves, Stored
<1>11. ASSUME NEW o \in {0} \cup Nodes, NEW w \in Width(o)
       PROVE  f.cache[o][w] = mem.cache[o][w] \/ Sane(ht, px, fresh, o, w, f.cache[o][w])
  <2>1. CASE <<o, w>> = l
    <3>1. o = a /\ w \in Slots /\ o < fresh /\ ht[o] = 1 /\ o # 0
      BY <1>3, <1>4, <1>5, <2>1
    <3> QED BY <1>5, <3>1 DEF Sane
  <2>2. CASE <<o, w>> # l
    BY <1>9, <2>2
  <2> QED BY <2>1, <2>2
<1>12. Tidy(f.cache, ht, px, fresh) /\ Tidy(f.nvm, ht, px, fresh)
  <2>1. Extended(ht, px, ht, px, fresh) /\ fresh \in fresh .. MaxNodes + 1
    BY <1>3 DEF Extended
  <2>2. Puts(mem.cache, f.cache, ht, px, fresh)
    BY <1>11 DEF Puts
  <2> QED BY <1>2, <1>3, <1>8, <1>10, <2>1, <2>2, StepTidy
<1>13. f.cache[0][t] = mem.cache[0][t] /\ Root(f.cache, t) = Root(mem.cache, t)
  BY <1>2, <1>3, <1>4, <1>9 DEF Width, Root
<1>14. \A m \in N, i \in Slots : f.cache[m][i] = IF <<m, i>> = l THEN v ELSE mem.cache[m][i]
  BY <1>3, <1>5, <1>9 DEF Width
<1>15. Leads(f.cache, ht, px, N)
  <2> SUFFICES ASSUME NEW n \in N, NEW i \in Slots, ht[n] > 1, f.cache[n][i] # NULL
               PROVE  LET x == f.cache[n][i] IN
                      x \in N /\ ht[x] = ht[n] - 1 /\ px[x] = px[n] * NUM_ENTRY + i
    BY DEF Leads
  <2>1. <<n, i>> # l
    BY <1>4
  <2>2. f.cache[n][i] = mem.cache[n][i]
    BY <1>14, <2>1
  <2> QED BY <1>2, <2>2 DEF Leads
<1>16. Ground(ht, px, old)'
  BY <1>1, <1>2, <1>3, <1>7, <1>8, <1>12, <1>13, <1>15 DEF Ground, Stored
<1>17. Content(f.cache, t) = [Content(c, t) EXCEPT ![key] = v]
  <2>1. ButFor(f.cache, c, N, a, Digit(key, 1)) /\ f.cache[a][Digit(key, 1)] = v
    BY <1>4, <1>5, <1>14 DEF ButFor
  <2>2. f.cache[0][t] = c[0][t] /\ Heads(c, t, ht, px, N)
    BY <1>1, <1>13
  <2>3. key < Span(Height(c, t)) /\ a = Leaf(c, t, key) /\ a # NULL
    BY DEF a
  <2> HIDE DEF c, N
  <2> QED BY <2>1, <2>2, <2>3, PutLeaf
<1> QED BY <1>1, <1>7, <1>8, <1>16, <1>17 DEF Stored

\* The value an operation puts, in the leaf the search ends at.
LEMMA StepSearchLeaf ==
  ASSUME NEW ht, NEW px, NEW old, State(ht, px, old), IInv, SearchLeaf
  PROVE  RInv' /\ MapStep
<1> DEFINE c == mem.cache
           slot == <<at.node, Index(at.key, 1)>>
<1>1. /\ pc = "search" /\ pc' = "commit" /\ t' = t /\ fresh' = fresh /\ losses' = losses
      /\ op' = op /\ at.h = 1 /\ mem' = Store(mem, Word(slot, op.value))
  BY DEF SearchLeaf
<1>2. Ground(ht, px, old) /\ Searching
  BY <1>1 DEF State, Phase
<1>3. /\ Calling /\ op.key < Span(Height(c, t)) /\ at.key = op.key % Span(1)
      /\ at.node = Leaf(c, t, op.key) /\ at.node # NULL /\ op.key \in Keys
  BY <1>1, <1>2 DEF Searching, Leaf, Calling, Map!Ops
<1>4. slot = <<Leaf(c, t, op.key), Digit(op.key, 1)>>
  BY <1>3 DEF Digit
<1>5. /\ Ground(ht, px, old)' /\ Content(mem'.nvm, t') = Content(mem.nvm, t)
      /\ Content(mem'.cache, t') = [Content(mem'.nvm, t') EXCEPT ![op.key] = op.value]
  BY <1>1, <1>2, <1>3, <1>4, LeafStored
<1>6. Phase(ht, px, old)'
  BY <1>1, <1>3, <1>5 DEF Phase, Calling
<1>7. MapStep
  BY <1>1, <1>5 DEF MapStep
<1> QED BY <1>5, <1>6, <1>7 DEF RInv, State

\* Update and Delete find the key's leaf and store in place.
LEMMA StepOverwrite ==
  ASSUME NEW ht, NEW px, NEW old, State(ht, px, old), IInv, NEW kind, NEW key \in Keys, NEW value,
         [kind |-> kind, key |-> key, value |-> value] \in Map!Ops, Overwrite(kind, key, value)
  PROVE  RInv' /\ MapStep
<1> DEFINE c == mem.cache
           slot == <<Leaf(c, t, key), Index(key % Span(1), 1)>>
<1>1. /\ pc = "idle" /\ pc' = "commit" /\ t' = t /\ fresh' = fresh /\ losses' = losses
      /\ op' = [kind |-> kind, key |-> key, value |-> value]
      /\ mem' = Store(mem, Word(slot, value)) /\ Lookup(c, t, key) # NULL
  BY DEF Overwrite
<1>2. Ground(ht, px, old) /\ op = NoOp
  BY <1>1 DEF State, Phase
<1>3. key < Span(Height(c, t)) /\ Leaf(c, t, key) # NULL
  <2>1. Height(c, t) \in 0 .. MaxHeight /\ key \in Nat
    BY <1>2, HeadsTop, RadixSizes
  <2>2. Span(Height(c, t)) \in Nat
    BY <2>1, RadixSizes
  <2>3. ~(key >= Span(Height(c, t))) /\ Leaf(c, t, key) # NULL
    BY <1>1 DEF Lookup
  <2> QED BY <2>1, <2>2, <2>3
<1>4. slot = <<Leaf(c, t, key), Digit(key, 1)>>
  BY DEF Digit
<1>5. /\ Ground(ht, px, old)' /\ Content(mem'.nvm, t') = Content(mem.nvm, t)
      /\ Content(mem'.cache, t') = [Content(mem'.nvm, t') EXCEPT ![key] = value]
  BY <1>1, <1>2, <1>3, <1>4, LeafStored
<1>6. op' \in Map!Ops /\ op = Map!NoOp /\ op'.key = key /\ op'.value = value
  BY <1>1, <1>2 DEF Map!NoOp, NoOp
<1>7. Phase(ht, px, old)'
  BY <1>1, <1>5, <1>6 DEF Phase, Calling
<1>8. Map!Begin
  BY <1>5, <1>6 DEF Map!Begin
<1> QED BY <1>5, <1>7, <1>8 DEF RInv, State, MapStep, Map!Next

\* Every key has an entry in the map.
LEMMA NodesMapped ==
  ASSUME NEW c, NEW s, NEW k \in Keys
  PROVE  k \in DOMAIN Content(c, s)
BY DEF Content

\* A call returns when its effect is on the medium.
LEMMA StepReturn ==
  ASSUME NEW ht, NEW px, NEW old, State(ht, px, old), Return
  PROVE  RInv' /\ MapStep
<1>1. /\ pc = "return" /\ pc' = "idle" /\ mem' = mem /\ t' = t /\ fresh' = fresh /\ losses' = losses
      /\ op' = NoOp
  BY DEF Return
<1>2. Ground(ht, px, old) /\ op \in Map!Ops /\ Content(mem.nvm, t)[op.key] = op.value
  BY <1>1 DEF State, Phase, Calling
<1>3. Ground(ht, px, old)' /\ Phase(ht, px, old)'
  BY <1>1, <1>2 DEF Ground, Phase
<1>4. Map!Return
  <2> DEFINE kv == Content(mem.nvm, t)
  <2>1. kv = [k \in Keys |-> Lookup(mem.nvm, t, k)]
    BY DEF Content
  <2>2. kv[op.key] = op.value
    BY <1>2
  <2> HIDE DEF kv
  <2>3. kv = [kv EXCEPT ![op.key] = op.value]
    BY <2>1, <2>2
  <2> QED BY <1>1, <1>2, <2>3 DEF Map!Return, Map!Effect, Map!NoOp, NoOp, kv
<1> QED BY <1>3, <1>4 DEF RInv, State, MapStep, Map!Next

\* A restart uses the tree as it finds it.
LEMMA StepRestart ==
  ASSUME NEW ht, NEW px, NEW old, State(ht, px, old), Restart
  PROVE  RInv' /\ MapStep
<1>1. /\ pc = "down" /\ pc' = "idle" /\ mem' = mem /\ t' = t /\ fresh' = fresh /\ losses' = losses
      /\ op' = NoOp
  BY DEF Restart
<1>2. Ground(ht, px, old) /\ op = Down
  BY <1>1 DEF State, Phase
<1>3. Ground(ht, px, old)' /\ Phase(ht, px, old)'
  BY <1>1, <1>2 DEF Ground, Phase
<1>4. Map!Restart
  BY <1>1, <1>2 DEF Map!Restart, Map!NoOp, NoOp, Map!Down, Down
<1> QED BY <1>3, <1>4 DEF RInv, State, MapStep, Map!Next

\* Nothing happens.
LEMMA StepNothing ==
  ASSUME NEW ht, NEW px, NEW old, State(ht, px, old), UNCHANGED vars
  PROVE  RInv' /\ MapStep
<1>1. State(ht, px, old)'
  BY DEF vars, State, Ground, Phase, Searching, Growing, Allocating, Publishing, Building,
         ForTree, ForEntry, Top, Calling
<1> QED BY <1>1 DEF RInv, MapStep, vars

\* Where the medium has caught up with the cache, the commit has taken effect.
LEMMA Committed ==
  ASSUME NEW ht, NEW px, NEW old, State(ht, px, old), pc = "commit",
         mem'.cache = mem.cache, mem'.nvm = mem'.cache,
         t' = t, fresh' = fresh, losses' = losses, op' = op, pc' \in {"commit", "return"}
  PROVE  /\ Ground(ht, px, old)' /\ MapStep /\ Calling'
         /\ Content(mem'.nvm, t') = Content(mem.cache, t)
         /\ Content(mem'.cache, t') = [Content(mem'.nvm, t') EXCEPT ![op.key] = op.value]
         /\ Content(mem'.nvm, t')[op.key] = op.value
<1>1. /\ Ground(ht, px, old) /\ op \in Map!Ops
      /\ Content(mem.cache, t) = [Content(mem.nvm, t) EXCEPT ![op.key] = op.value]
  BY DEF State, Phase, Calling
<1>2. Ground(ht, px, old)'
  BY <1>1 DEF Ground
<1>3. Content(mem'.nvm, t') = Content(mem.cache, t) /\ Content(mem'.cache, t') = Content(mem.cache, t)
  OBVIOUS
<1>4. Map!Take
  BY <1>1, <1>3 DEF Map!Take, Map!Effect
<1>5. op.key \in Keys
  BY <1>1 DEF Map!Ops
<1> DEFINE kv == Content(mem.cache, t)
           kw == Content(mem.nvm, t)
<1>6. kv = [kw EXCEPT ![op.key] = op.value] /\ op.key \in DOMAIN kw
  BY <1>1, <1>5, NodesMapped
<1>7. kw = [k \in Keys |-> Lookup(mem.nvm, t, k)]
  BY DEF Content
<1> HIDE DEF kv, kw
<1>8. kv[op.key] = op.value /\ kv = [kv EXCEPT ![op.key] = op.value]
  BY <1>5, <1>6, <1>7
<1> QED BY <1>1, <1>2, <1>3, <1>4, <1>8 DEF MapStep, Map!Next, Calling, kv

\* The fenced flush makes the operation durable.
LEMMA StepCommit ==
  ASSUME NEW ht, NEW px, NEW old, State(ht, px, old), IInv, Commit
  PROVE  RInv' /\ MapStep
<1>1. /\ pc = "commit" /\ pc' = "return" /\ t' = t /\ fresh' = fresh /\ losses' = losses
      /\ op' = op /\ mem' = flush_buffer(mem, {at.slot}, TRUE)
  BY DEF Commit
<1>2. Sound(mem, {at.slot})
  BY <1>1 DEF IInv, Owed, Owes
<1>3. mem'.nvm = mem'.cache /\ mem'.cache = mem.cache
  BY <1>1, <1>2, FencedFlush
<1>4. Ground(ht, px, old)' /\ MapStep /\ Calling' /\ Content(mem'.nvm, t')[op.key] = op.value
  BY <1>1, <1>3, Committed
<1>5. Phase(ht, px, old)'
  BY <1>1, <1>4 DEF Phase
<1> QED BY <1>4, <1>5 DEF RInv, State

\* A loss of power leaves the medium's map.
LEMMA StepPowerLost ==
  ASSUME NEW ht, NEW px, NEW old, State(ht, px, old), PowerLost
  PROVE  RInv' /\ MapStep
<1>1. /\ pc' = "down" /\ t' = t /\ fresh' = fresh /\ losses' = losses + 1 /\ losses < MaxLosses
      /\ op' = Down /\ mem'.cache = mem.nvm /\ mem'.nvm = mem.nvm
  BY DEF PowerLost, PowerLoss
<1>2. Ground(ht, px, old)
  BY DEF State
<1>3. /\ Marked(ht, px) /\ t \in Trees /\ fresh \in 2 .. MaxNodes + 1 /\ losses \in 0 .. MaxLosses
      /\ Tidy(mem.nvm, ht, px, fresh) /\ old \in 1 .. fresh
      /\ Root(mem.cache, t) \in 1 .. old - 1 /\ mem.nvm[0][t] = mem.cache[0][t]
  BY <1>2 DEF Ground
<1>4. losses' \in 0 .. MaxLosses /\ fresh \in 1 .. fresh /\ 1 .. old - 1 \subseteq 1 .. fresh - 1
      /\ fresh \in 1 .. MaxNodes + 1
  BY <1>1, <1>3, RadixAssumption
<1>5. Leads(mem.nvm, ht, px, 1 .. fresh - 1)
  BY <1>3, <1>4, TidyLeads
<1>6. Root(mem.nvm, t) \in 1 .. fresh - 1
  BY <1>3, <1>4 DEF Root
<1>7. Ground(ht, px, fresh)'
  BY <1>1, <1>3, <1>4, <1>5, <1>6 DEF Ground
<1>8. Phase(ht, px, fresh)'
  BY <1>1 DEF Phase
<1>9. Map!PowerLoss
  BY <1>1 DEF Map!PowerLoss, Map!Down, Down
<1> QED BY <1>7, <1>8, <1>9 DEF RInv, State, MapStep, Map!Next

\* Same places, same count: what GroundKept asks of a step that adds no node.
LEMMA SameExtended ==
  ASSUME NEW ht, NEW px, NEW old, Ground(ht, px, old)
  PROVE  /\ Marked(ht, px) /\ Extended(ht, px, ht, px, fresh) /\ fresh \in fresh .. MaxNodes + 1
         /\ losses \in 0 .. MaxLosses
         /\ DOMAIN mem.cache = {0} \cup Nodes /\ \A o \in {0} \cup Nodes : DOMAIN mem.cache[o] = Width(o)
BY RadixAssumption DEF Ground, Extended, Tidy

\* The cache may replace a line at any moment.
LEMMA StepEvict ==
  ASSUME ClflushOrdered, NEW ht, NEW px, NEW old, State(ht, px, old), IInv, Evict
  PROVE  RInv' /\ MapStep
<1>1. PICK l \in Dirty(mem) : mem' = WriteBack(mem, {l})
  BY DEF Evict
<1>2. t' = t /\ fresh' = fresh /\ losses' = losses /\ op' = op /\ pc' = pc /\ at' = at
  BY DEF Evict
<1>3. Ground(ht, px, old) /\ Phase(ht, px, old) /\ Owes(mem, Owed(pc, at)) /\ Sound(mem, Owed(pc, at))
  BY DEF State, IInv, Owes
<1>4. mem'.cache = mem.cache /\ Owes(mem', Owed(pc, at) \ {l}) /\ Moves(mem, mem')
  <2>1. Partly(mem, WriteBack(mem, {l}))
    BY <1>3, WriteBackPartly
  <2>2. Sound(mem', Owed(pc, at) \ {l}) /\ mem'.cache = mem.cache
    BY <1>1, <1>3, WriteBackSound
  <2>3. Owes(mem', Owed(pc, at) \ {l})
    BY <1>3, <2>2 DEF Owes, Framed
  <2>4. Moves(mem, mem')
    BY <1>1, <2>1, <2>2 DEF Partly, Moves
  <2> QED BY <2>2, <2>3, <2>4
<1>5. CASE pc = "commit"
  <2>1. l = at.slot
    <3>1. l[1] \in DOMAIN mem.cache /\ l[2] \in DOMAIN mem.cache[l[1]] /\ l = <<l[1], l[2]>>
          /\ mem.cache[l[1]][l[2]] # mem.nvm[l[1]][l[2]]
      BY DEF Dirty, Lines
    <3>2. l \in Owed(pc, at)
      BY <1>3, <3>1 DEF Sound, CleanBut, Settled
    <3> QED BY <1>5, <3>2 DEF Owed
  <2>2. Owes(mem', {})
    BY <1>4, <1>5, <2>1, OwesMore DEF Owed
  <2>3. mem'.nvm = mem'.cache
    BY <2>2, Clean
  <2>4. /\ Ground(ht, px, old)' /\ MapStep /\ Calling'
        /\ Content(mem'.cache, t') = [Content(mem'.nvm, t') EXCEPT ![op.key] = op.value]
    BY <1>2, <1>4, <1>5, <2>3, Committed
  <2>5. Phase(ht, px, old)'
    BY <1>2, <1>5, <2>4 DEF Phase
  <2> QED BY <2>4, <2>5 DEF RInv, State
<1>6. CASE pc # "commit"
  <2>1. /\ Ground(ht, px, old)'
        /\ Content(mem'.cache, t') = Content(mem.cache, t)
    <3>1. Puts(mem.cache, mem'.cache, ht, px, fresh') /\ SameEntries(mem.cache, mem'.cache, 1 .. old - 1)
      BY <1>4 DEF Puts, SameEntries
    <3>2. /\ fresh' \in fresh .. MaxNodes + 1 /\ losses' \in 0 .. MaxLosses
          /\ pc' \in {"grow", "alloc", "publish"} \/ old = fresh'
      BY <1>2, <1>3, <1>6, SameExtended DEF Ground
    <3>3. Marked(ht, px) /\ Extended(ht, px, ht, px, fresh)
      BY <1>3, SameExtended
    <3>4. Ground(ht, px, old)'
      BY <1>2, <1>3, <1>4, <1>6, <3>1, <3>2, <3>3, GroundKept
    <3> QED BY <1>2, <1>4, <3>4
  <2>2. MapStep /\ Content(mem'.nvm, t') = Content(mem.nvm, t)
    BY <1>2, <1>3, <1>6, <2>1, MapKept
  <2>4. Phase(ht, px, old)'
    BY <1>2, <1>3, <1>4, <1>6, <2>2
       DEF Phase, Searching, Growing, Allocating, Publishing, Building, ForTree, ForEntry, Top, Calling
  <2> QED BY <2>1, <2>2, <2>4 DEF RInv, State
<1> QED BY <1>5, <1>6

\* g is m after stores alone.
AfterStores(m, g) ==
  /\ g.nvm = m.nvm /\ DOMAIN g.cache = DOMAIN m.cache
  /\ \A o \in DOMAIN m.cache : DOMAIN g.cache[o] = DOMAIN m.cache[o]

\* Stores and the flush that follows them.
LEMMA FlushMoves ==
  ASSUME NEW m, NEW g, AfterStores(m, g), NEW L, Owes(g, L), NEW K,
         NEW f, f = flush_buffer(g, K, FALSE)
  PROVE  Moves(m, f) /\ f.cache = g.cache
<1>1. Partly(g, flush_buffer(g, K, FALSE))
  BY FlushPartly
<1>2. Partly(g, f)
  BY <1>1
<1>3. f.cache = g.cache
  BY <1>2 DEF Partly
<1> SUFFICES ASSUME NEW o \in DOMAIN m.cache, NEW w \in DOMAIN m.cache[o]
             PROVE  f.nvm[o][w] \in {m.nvm[o][w], m.cache[o][w], f.cache[o][w]}
  BY <1>3 DEF Moves, AfterStores
<1>4. f.nvm[o][w] \in {g.nvm[o][w], g.cache[o][w]} /\ g.nvm[o][w] = m.nvm[o][w]
  BY <1>2 DEF Partly, AfterStores
<1> QED BY <1>3, <1>4

\* What the operation has built stays where it is to go.
LEMMA PlaceKept ==
  ASSUME NEW ht, NEW px, NEW old, Ground(ht, px, old),
         NEW ht2, NEW px2, Extended(ht, px, ht2, px2, fresh),
         t' = t, op' = op, op.key \in Keys, at'.slot = at.slot, at'.sub = at.sub, Top \in 1 .. fresh - 1,
         \A s \in Trees : mem'.cache[0][s] = mem.cache[0][s],
         SameEntries(mem.cache, mem'.cache, 1 .. old - 1),
         ForTree(ht) \/ \E n \in 1 .. old - 1 : ForEntry(ht, n)
  PROVE  Top' = Top /\ (ForTree(ht2)' \/ \E n \in 1 .. old - 1 : ForEntry(ht2, n)')
<1>1. /\ Heads(mem.cache, t, ht, px, 1 .. old - 1) /\ 1 .. old - 1 \subseteq 1 .. fresh - 1 /\ t \in Trees
      /\ 0 \notin 1 .. old - 1
  <2>1. t \in Trees /\ old \in 1 .. fresh /\ fresh \in 2 .. MaxNodes + 1 /\ MaxNodes \in Nat
    BY RadixAssumption DEF Ground
  <2> QED BY <2>1, GroundHeads
<1>2. Root(mem'.cache, t) = Root(mem.cache, t) /\ Height(mem'.cache, t) = Height(mem.cache, t)
  BY <1>1 DEF Root, Height
<1>3. ht2[Top] = ht[Top]
  BY DEF Extended
<1>4. CASE ForTree(ht)
  <2>1. at.slot[1] = 0 /\ at.sub \in Trees
    BY <1>1, <1>4 DEF ForTree, TreeLine, Trees
  <2>2. Top' = Top
    BY <2>1 DEF Top, Root
  <2>3. ForTree(ht2)'
    BY <1>2, <1>3, <1>4, <2>2 DEF ForTree
  <2> QED BY <2>2, <2>3
<1>5. ASSUME NEW n \in 1 .. old - 1, ForEntry(ht, n) PROVE Top' = Top /\ ForEntry(ht2, n)'
  <2> DEFINE c == mem.cache
             b == mem'.cache
             r == Root(c, t)
             h == Height(c, t)
             g == ht[n]
             key == op.key
             N == 1 .. old - 1
  <2>1. /\ at.slot = <<n, Digit(key, g)>> /\ c[n][Digit(key, g)] = NULL
        /\ g = ht[Top] + 1
        /\ key < Span(h) /\ g <= h
        /\ Walk(c, r, h, key)[g] = n
    BY <1>5 DEF ForEntry
  <2>2. at.slot[1] # 0
    BY <1>1, <2>1
  <2>3. Top' = Top
    BY <2>2 DEF Top
  <2>4. ht2[n] = g
    BY <1>1 DEF Extended
  <2>5. g \in 1 .. h /\ g \in 1 .. MaxHeight /\ MaxHeight \in Nat
    <3>1. h \in 1 .. MaxHeight /\ MaxHeight \in Nat /\ g \in 1 .. MaxHeight
      BY <1>1, HeadsWay DEF Heads, Marked
    <3> QED BY <2>1, <3>1
  <2>7. ForEntry(ht2, n)'
    <3>1. Way(c, ht, px, N, r, h, key) /\ key \in Nat
      BY <1>1, <2>1, HeadsWay
    <3>2. Agrees(b, c, ht, px, N, key, g + 1, h)
      <4>1. ASSUME NEW m \in N PROVE Digit(key, ht[m]) \in Slots
        <5>1. ht[m] \in 1 .. MaxHeight
          BY <1>1 DEF Heads, Marked
        <5> QED BY <3>1, <5>1, DigitOfKey
      <4> QED BY <4>1 DEF Agrees, SameEntries
    <3>3. Walk(b, r, h, key)[g] = n
      BY <2>1, <2>5, <3>1, <3>2, WalkSame
    <3>4. Digit(key, g) \in Slots
      BY <2>5, <3>1, DigitOfKey
    <3>5. b[n][Digit(key, g)] = NULL
      BY <2>1, <3>4 DEF SameEntries
    <3> QED BY <1>2, <1>3, <2>1, <2>3, <2>4, <3>3, <3>5 DEF ForEntry
  <2> QED BY <2>3, <2>7
<1> QED BY <1>4, <1>5

\* The words of a node and of the tree structs.
LEMMA SlotFacts ==
  /\ Slots \subseteq Offsets /\ PARENT_PTR \in Offsets /\ P_INDEX \in Offsets
  /\ PARENT_PTR \notin Slots /\ P_INDEX \notin Slots /\ PARENT_PTR # P_INDEX
  /\ 0 \in Slots /\ \A w \in Offsets : w \in Slots \/ w = PARENT_PTR \/ w = P_INDEX
  /\ \A n \in Nodes : Width(n) = Offsets /\ n # 0
  /\ Width(0) = Trees
BY RadixSizes, RadixAssumption DEF Slots, Offsets, P_INDEX, PARENT_PTR, Nodes, Width

\* All nodes there are, seen from the head of what is built.
LEMMA AllNodes ==
  ASSUME NEW ht, NEW px, NEW old, Ground(ht, px, old)
  PROVE  /\ 1 .. fresh - 1 \in SUBSET Nodes /\ Leads(mem.cache, ht, px, 1 .. fresh - 1)
         /\ 1 .. old - 1 \subseteq 1 .. fresh - 1 /\ Marked(ht, px)
         /\ fresh \in 2 .. MaxNodes + 1 /\ old \in 1 .. fresh /\ MaxNodes \in Nat
         /\ \A n \in 1 .. fresh - 1 : ht[n] \in 1 .. MaxHeight
<1>1. /\ Marked(ht, px) /\ fresh \in 2 .. MaxNodes + 1 /\ Tidy(mem.cache, ht, px, fresh)
      /\ old \in 1 .. fresh /\ MaxNodes \in Nat
  BY RadixAssumption DEF Ground
<1>2. fresh \in 1 .. MaxNodes + 1 /\ 1 .. old - 1 \subseteq 1 .. fresh - 1
  BY <1>1
<1>3. 1 .. fresh - 1 \in SUBSET Nodes /\ Leads(mem.cache, ht, px, 1 .. fresh - 1)
  BY <1>1, <1>2, TidyLeads
<1> QED BY <1>1, <1>2, <1>3 DEF Marked

\* The key of a call.
LEMMA CallKey ==
  ASSUME Calling
  PROVE  op.key \in Keys /\ op.key \in Nat
BY RadixSizes DEF Calling, Map!Ops

\* The last node gets its entry: what is built is complete.
LEMMA StepAllocLeaf ==
  ASSUME NEW ht, NEW px, NEW old, State(ht, px, old), IInv, IInv', AllocLeaf
  PROVE  RInv' /\ MapStep
<1> DEFINE c   == mem.cache
           b   == mem'.cache
           a   == at.node
           key == op.key
           d   == Digit(key, 1)
           l   == <<a, Index(at.key, 1)>>
           s   == Word(l, op.value)
           g   == Store(mem, s)
           N   == 1 .. fresh - 1
           h   == ht[Top]
<1>1. /\ pc = "alloc" /\ pc' = "publish" /\ t' = t /\ fresh' = fresh /\ losses' = losses
      /\ op' = op /\ at' = at /\ at.h = 1 /\ mem' = flush_buffer(g, Words(a), FALSE)
  BY DEF AllocLeaf
<1>2. Ground(ht, px, old) /\ Allocating(ht, px, old) /\ Owes(mem, Words(a))
  BY <1>1 DEF State, Phase, IInv, Owed
<1>3. /\ Calling /\ Top \in old .. fresh - 1 /\ px[Top] = Above(key, h)
      /\ ForTree(ht) \/ \E n \in 1 .. old - 1 : ForEntry(ht, n)
      /\ \A k \in Keys : k # key /\ Above(k, h) = px[Top] => Read(c, Top, h, k) = Lookup(c, t, k)
      /\ a \in old .. fresh - 1 /\ ht[a] = 1 /\ at.key = key % Span(1)
      /\ Walk(c, Top, h, key)[1] = a
  BY <1>1, <1>2 DEF Allocating, Building
<1>4. /\ N \in SUBSET Nodes /\ Leads(c, ht, px, N) /\ Marked(ht, px) /\ old \in 1 .. fresh
      /\ fresh \in 2 .. MaxNodes + 1 /\ MaxNodes \in Nat /\ h \in 1 .. MaxHeight
      /\ Top \in N /\ a \in N /\ a \notin 1 .. old - 1 /\ 1 .. old - 1 \subseteq N /\ MaxHeight \in Nat
  <2>1. /\ N \in SUBSET Nodes /\ Leads(c, ht, px, N) /\ Marked(ht, px) /\ old \in 1 .. fresh
        /\ fresh \in 2 .. MaxNodes + 1 /\ MaxNodes \in Nat /\ \A n \in N : ht[n] \in 1 .. MaxHeight
        /\ 1 .. old - 1 \subseteq N
    BY <1>2, AllNodes
  <2>2. Top \in N /\ a \in N /\ a \notin 1 .. old - 1
    BY <1>3, <2>1
  <2> QED BY <2>1, <2>2, RadixSizes
<1>5. key \in Keys /\ key \in Nat /\ d \in Slots /\ l = <<a, d>>
  BY <1>3, CallKey, RadixSizes, DigitOfKey DEF Digit
<1>6. DOMAIN s = {<<a, d>>} /\ s[<<a, d>>] = op.value
  BY <1>5 DEF Word
<1> HIDE DEF s
<1>7. Owes(g, Words(a) \cup DOMAIN s) /\ Stored(mem, g, s)
  BY <1>2, StoreWords
<1> HIDE DEF g, h, a, d
<1>8. Moves(mem, mem') /\ b = g.cache
  <2>1. AfterStores(mem, g)
    BY <1>7 DEF AfterStores, Stored
  <2> QED BY <1>1, <1>7, <2>1, FlushMoves
<1>9. \A o \in {0} \cup Nodes : \A w \in Width(o) :
        b[o][w] = IF <<o, w>> = <<a, d>> THEN op.value ELSE c[o][w]
  <2> SUFFICES ASSUME NEW o \in {0} \cup Nodes, NEW w \in Width(o)
               PROVE  b[o][w] = IF <<o, w>> = <<a, d>> THEN op.value ELSE c[o][w]
    OBVIOUS
  <2>1. o \in DOMAIN mem.cache /\ w \in DOMAIN mem.cache[o]
    BY <1>2, SameExtended
  <2>2. b[o][w] = IF <<o, w>> \in DOMAIN s THEN s[<<o, w>>] ELSE c[o][w]
    BY <1>7, <1>8, <2>1 DEF Stored
  <2> QED BY <1>6, <2>2
<1>10. /\ Puts(c, b, ht, px, fresh') /\ SameEntries(c, b, 1 .. old - 1)
       /\ \A v \in Trees : b[0][v] = c[0][v]
  <2>1. a \in Nodes /\ a # 0 /\ d # PARENT_PTR /\ d # P_INDEX /\ a < fresh' /\ ht[a] = 1
    BY <1>1, <1>3, <1>4, <1>5, SlotFacts DEF a
  <2>2. \A x : Sane(ht, px, fresh', a, d, x)
    BY <2>1 DEF Sane
  <2>3. \A v \in Trees : b[0][v] = c[0][v]
    BY <1>9, <2>1, SlotFacts
  <2>4. SameEntries(c, b, 1 .. old - 1)
    BY <1>4, <1>9, SlotFacts DEF SameEntries
  <2>5. Puts(c, b, ht, px, fresh')
    BY <1>9, <2>2 DEF Puts
  <2> QED BY <2>3, <2>4, <2>5
<1>11. ButFor(b, c, N, a, d) /\ b[a][d] = op.value
  BY <1>4, <1>5, <1>9, SlotFacts DEF ButFor
<1>12. /\ Ground(ht, px, old)'
       /\ \A k \in Keys : Lookup(mem'.cache, t', k) = Lookup(mem.cache, t, k)
       /\ Content(mem'.cache, t') = Content(mem.cache, t)
  <2>1. Marked(ht, px) /\ Extended(ht, px, ht, px, fresh) /\ losses' \in 0 .. MaxLosses
        /\ fresh' \in fresh .. MaxNodes + 1 /\ t \in Trees
    BY <1>1, <1>2, SameExtended DEF Ground
  <2>2. Owes(mem', Owed(pc', at'))
    BY DEF IInv
  <2>3. mem'.cache[0][t] = mem.cache[0][t]
    BY <1>10, <2>1
  <2> QED BY <1>1, <1>2, <1>8, <1>10, <2>1, <2>2, <2>3, GroundKept
<1>13. Top' = Top /\ (ForTree(ht)' \/ \E n \in 1 .. old - 1 : ForEntry(ht, n)')
  <2>1. Extended(ht, px, ht, px, fresh)
    BY DEF Extended
  <2> QED BY <1>1, <1>2, <1>3, <1>4, <1>5, <1>10, <2>1, PlaceKept
<1>14. Way(c, ht, px, N, Top, h, key)
  BY <1>3, <1>4, <1>5 DEF Way, h
<1>15. ASSUME NEW k \in Keys, Above(k, h) = px[Top]
       PROVE  IF k = key THEN Read(b, Top, h, k) = op.value ELSE Read(b, Top, h, k) = Lookup(c, t, k)
  <2>1. k \in Nat /\ Way(c, ht, px, N, Top, h, k)
    BY <1>4, <1>15, RadixSizes DEF Way, h
  <2>2. Above(k, 1 - 1) = k /\ Above(key, 1 - 1) = key
    BY <1>5, <2>1, RadixSizes DEF Above
  <2>3. a = Walk(c, Top, h, key)[1] /\ a # NULL /\ 1 \in 1 .. h
    BY <1>3, <1>4, NullIsNoNode DEF a, h
  <2>4. IF Above(k, 1 - 1) = Above(key, 1 - 1)
        THEN /\ Digit(k, 1) = Digit(key, 1) /\ Walk(b, Top, h, k)[1] = a
             /\ Read(b, Top, h, k) = Read(b, a, 1, k)
        ELSE Read(b, Top, h, k) = Read(c, Top, h, k)
    BY <1>11, <1>14, <2>1, <2>3, Redirect DEF d
  <2>5. Read(b, a, 1, key) = op.value
    BY <1>11, <2>3, ReadLeaf DEF d
  <2> QED BY <1>3, <1>15, <2>2, <2>4, <2>5 DEF h
<1>16. Publishing(ht, px, old)'
  <2>1. Top' \in old .. fresh - 1 /\ px[Top'] = Above(key, ht[Top'])
    BY <1>3, <1>13 DEF h
  <2>2. \A k \in Keys : k # key /\ Above(k, ht[Top']) = px[Top']
                         => Read(b, Top', ht[Top'], k) = Lookup(b, t', k)
    BY <1>12, <1>13, <1>15 DEF h
  <2>3. Read(b, Top', ht[Top'], key) = op.value
    BY <1>5, <1>3, <1>13, <1>15 DEF h
  <2> QED BY <1>1, <1>3, <1>13, <2>1, <2>2, <2>3 DEF Publishing, Building, Calling
<1>17. Phase(ht, px, old)'
  BY <1>1, <1>16 DEF Phase
<1>18. MapStep
  BY <1>1, <1>2, <1>12, MapKept
<1> QED BY <1>12, <1>17, <1>18 DEF RInv, State

\* A node just allocated leads nowhere.
LEMMA NodeWords ==
  ASSUME NEW n \in Nodes, NEW p \in Nodes \cup {NULL}, NEW i \in Slots
  PROVE  /\ DOMAIN allocNode(n, p, i) = {n} \X Offsets
         /\ \A w \in Slots : allocNode(n, p, i)[<<n, w>>] = NULL
         /\ \A ht, px, top : \A w \in Offsets : Sane(ht, px, top, n, w, allocNode(n, p, i)[<<n, w>>])
<1>1. DOMAIN allocNode(n, p, i) = {n} \X Offsets
  BY DEF allocNode, Words, Offsets
<1>2. ASSUME NEW w \in Offsets
      PROVE  allocNode(n, p, i)[<<n, w>>] = IF w = PARENT_PTR THEN p
                                            ELSE IF w = P_INDEX THEN IF p = NULL THEN 0 ELSE i
                                            ELSE NULL
  BY DEF allocNode, Words, Offsets
<1>3. \A w \in Slots : allocNode(n, p, i)[<<n, w>>] = NULL
  BY <1>2, SlotFacts
<1>4. ASSUME NEW ht, NEW px, NEW top, NEW w \in Offsets
      PROVE  Sane(ht, px, top, n, w, allocNode(n, p, i)[<<n, w>>])
  <2> DEFINE x == allocNode(n, p, i)[<<n, w>>]
  <2>1. x = IF w = PARENT_PTR THEN p ELSE IF w = P_INDEX THEN IF p = NULL THEN 0 ELSE i ELSE NULL
    BY <1>2
  <2> HIDE DEF x
  <2>2. Sane(ht, px, top, n, w, x)
    BY <2>1, SlotFacts DEF Sane
  <2> QED BY <2>2 DEF x
<1> QED BY <1>1, <1>3, <1>4

\* The place of one more node.
More(ht, px, ht2, px2, top, x, p) ==
  /\ Marked(ht2, px2) /\ Extended(ht, px, ht2, px2, top)
  /\ ht2[top] = x /\ px2[top] = p
  /\ top + 1 \in top .. MaxNodes + 1 /\ top \in 1 .. (top + 1) - 1
  /\ \A n \in 1 .. top - 1 : ht2[n] = ht[n] /\ px2[n] = px[n]

\* A node more, with its place, disturbs no other.
LEMMA OneMore ==
  ASSUME NEW ht, NEW px, NEW old, Ground(ht, px, old), fresh \in Nodes,
         NEW x \in 1 .. MaxHeight, NEW p \in Nat, NEW ht2, NEW px2,
         ht2 = [ht EXCEPT ![fresh] = x], px2 = [px EXCEPT ![fresh] = p]
  PROVE  More(ht, px, ht2, px2, fresh, x, p)
<1>1. Marked(ht, px) /\ fresh \in 2 .. MaxNodes + 1 /\ 1 .. fresh - 1 \subseteq Nodes
  BY AllNodes
<1>2. MaxNodes \in Nat /\ fresh \in 1 .. MaxNodes /\ fresh \notin 1 .. fresh - 1
  BY <1>1, RadixAssumption DEF Nodes
<1>3. \A n \in 1 .. fresh - 1 : ht2[n] = ht[n] /\ px2[n] = px[n]
  BY <1>1, <1>2 DEF Marked
<1> QED BY <1>1, <1>2, <1>3 DEF Marked, Extended, More

\* One more inner node on the key's way.
LEMMA StepAllocInner ==
  ASSUME NEW ht, NEW px, NEW old, State(ht, px, old), IInv, IInv', AllocInner
  PROVE  RInv' /\ MapStep
<1> DEFINE c   == mem.cache
           b   == mem'.cache
           a   == at.node
           key == op.key
           e   == at.h
           d   == Digit(key, e)
           i   == Index(at.key, at.h)
           s1  == allocNode(fresh, a, i)
           g1  == Store(mem, s1)
           s2  == Word(<<a, i>>, fresh)
           g2  == Store(g1, s2)
           N   == 1 .. fresh - 1
           h   == ht[Top]
<1>1. /\ pc = "alloc" /\ pc' = "alloc" /\ t' = t /\ fresh' = fresh + 1 /\ losses' = losses
      /\ op' = op /\ e > 1 /\ mem' = flush_buffer(g2, Words(a), FALSE)
      /\ at' = [at EXCEPT !.node = fresh, !.key = NextKey(at.key, e), !.h = e - 1]
  BY DEF AllocInner
<1>2. Ground(ht, px, old) /\ Allocating(ht, px, old) /\ Owes(mem, Words(a))
  BY <1>1 DEF State, Phase, IInv, Owed
<1>3. /\ Calling /\ Top \in old .. fresh - 1 /\ px[Top] = Above(key, h)
      /\ ForTree(ht) \/ \E n \in 1 .. old - 1 : ForEntry(ht, n)
      /\ \A k \in Keys : k # key /\ Above(k, h) = px[Top] => Read(c, Top, h, k) = Lookup(c, t, k)
      /\ a \in old .. fresh - 1 /\ ht[a] = e /\ px[a] = Above(key, e)
      /\ e <= h /\ at.key = key % Span(e)
      /\ Walk(c, Top, h, key)[e] = a /\ fresh + e <= MaxNodes + 2
      /\ \A k \in Keys : Above(k, e - 1) = Above(key, e - 1) => Lookup(c, t, k) = NULL
  BY <1>1, <1>2 DEF Allocating, Building
<1>4. /\ N \in SUBSET Nodes /\ Leads(c, ht, px, N) /\ Marked(ht, px) /\ old \in 1 .. fresh
      /\ fresh \in 2 .. MaxNodes + 1 /\ MaxNodes \in Nat /\ h \in 1 .. MaxHeight
      /\ Top \in N /\ a \in N /\ a \notin 1 .. old - 1 /\ 1 .. old - 1 \subseteq N /\ MaxHeight \in Nat
      /\ e \in 2 .. MaxHeight /\ e \in 2 .. h
  <2>1. /\ N \in SUBSET Nodes /\ Leads(c, ht, px, N) /\ Marked(ht, px) /\ old \in 1 .. fresh
        /\ fresh \in 2 .. MaxNodes + 1 /\ MaxNodes \in Nat /\ \A n \in N : ht[n] \in 1 .. MaxHeight
        /\ 1 .. old - 1 \subseteq N
    BY <1>2, AllNodes
  <2>2. Top \in N /\ a \in N /\ a \notin 1 .. old - 1
    BY <1>3, <2>1
  <2>3. e \in 2 .. MaxHeight /\ h \in 1 .. MaxHeight
    BY <1>1, <1>3, <2>1, <2>2
  <2>4. MaxHeight \in Nat /\ e \in Nat /\ h \in Nat
    BY <2>3, RadixSizes
  <2>5. e \in 2 .. h
    BY <1>3, <2>3, <2>4
  <2> QED BY <2>1, <2>2, <2>3, <2>4, <2>5
<1>5. /\ key \in Keys /\ key \in Nat /\ d \in Slots /\ i = d
      /\ NextKey(at.key, e) = key % Span(e - 1)
      /\ Above(key, e - 1) = px[a] * NUM_ENTRY + d /\ Above(key, e - 1) \in Nat
  <2>1. key \in Keys /\ key \in Nat /\ e \in 1 .. MaxHeight
    BY <1>3, <1>4, CallKey
  <2>2. i = d
    BY <1>3 DEF Digit
  <2> QED BY <1>3, <2>1, <2>2, DigitOfKey
<1>6. fresh \in Nodes /\ e - 1 \in 1 .. MaxHeight /\ a \in Nodes /\ fresh \notin N /\ fresh # 0
  BY <1>3, <1>4 DEF Nodes
<1> DEFINE ht3 == [ht EXCEPT ![fresh] = e - 1]
           px3 == [px EXCEPT ![fresh] = Above(key, e - 1)]
<1>7. PICK ht2 : ht2 = ht3
  OBVIOUS
<1>8. PICK px2 : px2 = px3
  OBVIOUS
<1>9. /\ Marked(ht2, px2) /\ Extended(ht, px, ht2, px2, fresh)
      /\ ht2[fresh] = e - 1 /\ px2[fresh] = Above(key, e - 1)
      /\ fresh' \in fresh .. MaxNodes + 1 /\ fresh \in 1 .. fresh' - 1
      /\ \A n \in N : ht2[n] = ht[n] /\ px2[n] = px[n]
  <2> DEFINE x == e - 1
             p == Above(key, e - 1)
  <2>1. /\ Ground(ht, px, old) /\ fresh \in Nodes /\ x \in 1 .. MaxHeight /\ p \in Nat
        /\ ht2 = [ht EXCEPT ![fresh] = x] /\ px2 = [px EXCEPT ![fresh] = p]
    BY <1>2, <1>5, <1>6, <1>7, <1>8
  <2> HIDE DEF x, p
  <2>2. More(ht, px, ht2, px2, fresh, x, p)
    BY <2>1, OneMore
  <2> QED BY <1>1, <2>2 DEF More, x, p
<1>10. /\ DOMAIN s1 = {fresh} \X Offsets /\ \A w \in Slots : s1[<<fresh, w>>] = NULL
       /\ \A w \in Offsets : Sane(ht2, px2, fresh', fresh, w, s1[<<fresh, w>>])
  BY <1>5, <1>6, NodeWords
<1>11. DOMAIN s2 = {<<a, d>>} /\ s2[<<a, d>>] = fresh
  BY <1>5 DEF Word
<1> HIDE DEF s1, s2
<1>12. Owes(g1, Words(a) \cup DOMAIN s1) /\ Stored(mem, g1, s1)
  BY <1>2, StoreWords
<1> HIDE DEF g1
<1>13. Owes(g2, (Words(a) \cup DOMAIN s1) \cup DOMAIN s2) /\ Stored(g1, g2, s2)
  BY <1>12, StoreWords
<1> HIDE DEF g2, h, a, d, e, i, ht3, px3
<1>14. Moves(mem, mem') /\ b = g2.cache
  <2>1. AfterStores(mem, g2)
    BY <1>12, <1>13 DEF AfterStores, Stored
  <2> QED BY <1>1, <1>13, <2>1, FlushMoves
<1>15. \A o \in {0} \cup Nodes : \A w \in Width(o) :
         b[o][w] = IF <<o, w>> = <<a, d>> THEN fresh
                   ELSE IF o = fresh THEN s1[<<o, w>>] ELSE c[o][w]
  <2> SUFFICES ASSUME NEW o \in {0} \cup Nodes, NEW w \in Width(o)
               PROVE  b[o][w] = IF <<o, w>> = <<a, d>> THEN fresh
                                ELSE IF o = fresh THEN s1[<<o, w>>] ELSE c[o][w]
    OBVIOUS
  <2>1. o \in DOMAIN mem.cache /\ w \in DOMAIN mem.cache[o]
    BY <1>2, SameExtended
  <2>2. o \in DOMAIN g1.cache /\ w \in DOMAIN g1.cache[o]
    BY <1>12, <2>1 DEF Stored
  <2>3. g1.cache[o][w] = IF <<o, w>> \in DOMAIN s1 THEN s1[<<o, w>>] ELSE c[o][w]
    BY <1>12, <2>1 DEF Stored
  <2>4. b[o][w] = IF <<o, w>> \in DOMAIN s2 THEN s2[<<o, w>>] ELSE g1.cache[o][w]
    BY <1>13, <1>14, <2>2 DEF Stored
  <2>5. <<o, w>> \in DOMAIN s1 <=> o = fresh
    BY <1>6, <1>10, SlotFacts
  <2> QED BY <1>11, <2>3, <2>4, <2>5
<1>16. /\ b[a][d] = fresh /\ \A w \in Slots : b[fresh][w] = NULL
       /\ \A n \in N, j \in Slots : <<n, j>> # <<a, d>> => b[n][j] = c[n][j]
       /\ \A v \in Trees : b[0][v] = c[0][v]
  <2>1. a # 0 /\ fresh # 0 /\ a # fresh /\ a \in Nodes /\ fresh \in Nodes
    BY <1>4, <1>6, SlotFacts DEF a
  <2>2. b[a][d] = fresh
    BY <1>5, <1>15, <2>1, SlotFacts
  <2>3. \A w \in Slots : b[fresh][w] = NULL
    BY <1>10, <1>15, <2>1, SlotFacts
  <2>4. \A n \in N, j \in Slots : <<n, j>> # <<a, d>> => b[n][j] = c[n][j]
    BY <1>4, <1>6, <1>15, SlotFacts
  <2>5. \A v \in Trees : b[0][v] = c[0][v]
    BY <1>15, <2>1, SlotFacts
  <2> QED BY <2>2, <2>3, <2>4, <2>5
<1>17. Puts(c, b, ht2, px2, fresh') /\ SameEntries(c, b, 1 .. old - 1) /\ ButFor(b, c, N, a, d)
  <2>1. SameEntries(c, b, 1 .. old - 1)
    BY <1>4, <1>16 DEF SameEntries, a
  <2>2. ButFor(b, c, N, a, d)
    BY <1>16 DEF ButFor
  <2>3. Sane(ht2, px2, fresh', a, d, fresh)
    <3>1. a # 0 /\ d # PARENT_PTR /\ d # P_INDEX /\ a < fresh'
      <4>1. a < fresh /\ a \in Nat /\ fresh \in Nat /\ fresh' = fresh + 1
        BY <1>1, <1>4 DEF a
      <4>2. a # 0 /\ d # PARENT_PTR /\ d # P_INDEX
        BY <1>4, <1>5, SlotFacts DEF a
      <4> QED BY <4>1, <4>2
    <3>2. ht2[fresh] = ht2[a] - 1 /\ px2[fresh] = px2[a] * NUM_ENTRY + d
      BY <1>3, <1>4, <1>5, <1>9 DEF a, e
    <3> QED BY <1>9, <3>1, <3>2 DEF Sane
  <2>4. Puts(c, b, ht2, px2, fresh')
    <3> SUFFICES ASSUME NEW o \in {0} \cup Nodes, NEW w \in Width(o)
                 PROVE  b[o][w] = c[o][w] \/ Sane(ht2, px2, fresh', o, w, b[o][w])
      BY DEF Puts
    <3>1. CASE <<o, w>> = <<a, d>>
      <4>1. o = a /\ w = d /\ b[o][w] = fresh
        BY <1>15, <3>1
      <4> QED BY <2>3, <4>1
    <3>2. CASE <<o, w>> # <<a, d>> /\ o = fresh
      <4>1. b[o][w] = s1[<<fresh, w>>] /\ w \in Offsets
        BY <1>6, <1>15, <3>2, SlotFacts
      <4> QED BY <1>10, <3>2, <4>1
    <3>3. CASE <<o, w>> # <<a, d>> /\ o # fresh
      BY <1>15, <3>3
    <3> QED BY <3>1, <3>2, <3>3
  <2> QED BY <2>1, <2>2, <2>4
<1>18. /\ Ground(ht2, px2, old)'
       /\ \A k \in Keys : Lookup(mem'.cache, t', k) = Lookup(mem.cache, t, k)
       /\ Content(mem'.cache, t') = Content(mem.cache, t)
  <2>1. losses' \in 0 .. MaxLosses /\ t \in Trees
    BY <1>1, <1>2 DEF Ground
  <2>2. Owes(mem', Owed(pc', at'))
    BY DEF IInv
  <2>3. mem'.cache[0][t] = mem.cache[0][t]
    BY <1>16, <2>1
  <2> QED BY <1>1, <1>2, <1>9, <1>14, <1>17, <2>1, <2>2, <2>3, GroundKept
<1>19. /\ at'.node = fresh /\ at'.key = NextKey(at.key, e) /\ at'.h = e - 1
       /\ at'.slot = at.slot /\ at'.sub = at.sub
  BY <1>1 DEF IInv
<1>20. Top' = Top /\ (ForTree(ht2)' \/ \E n \in 1 .. old - 1 : ForEntry(ht2, n)')
  BY <1>1, <1>2, <1>3, <1>4, <1>5, <1>9, <1>16, <1>17, <1>19, PlaceKept
<1>21. Way(c, ht, px, N, Top, h, key)
  BY <1>3, <1>4, <1>5 DEF Way, h
<1>22. /\ a = Walk(c, Top, h, key)[e] /\ a # NULL /\ e \in 1 .. h /\ e \in 1 .. MaxHeight
       /\ fresh # NULL
  <2>1. e \in 1 .. h /\ e \in 1 .. MaxHeight
    <3>1. e \in 2 .. h /\ e \in 2 .. MaxHeight /\ h \in Nat /\ MaxHeight \in Nat
      BY <1>4 DEF h, e
    <3> HIDE DEF h, e
    <3> QED BY <3>1
  <2>2. a = Walk(c, Top, h, key)[e]
    BY <1>3 DEF a, h, e
  <2>3. a # NULL /\ fresh # NULL
    BY <1>6, NullIsNoNode
  <2> QED BY <2>1, <2>2, <2>3
<1>23. ASSUME NEW k \in Keys, Above(k, h) = px[Top]
       PROVE  IF Above(k, e - 1) = Above(key, e - 1)
              THEN /\ Digit(k, e) = d /\ Walk(b, Top, h, k)[e] = a
                   /\ Read(b, Top, h, k) = Read(b, a, e, k)
              ELSE Read(b, Top, h, k) = Read(c, Top, h, k)
  <2>1. k \in Nat /\ Way(c, ht, px, N, Top, h, k)
    BY <1>4, <1>23, RadixSizes DEF Way, h
  <2> QED BY <1>17, <1>21, <1>22, <2>1, Redirect DEF d
<1>24. ASSUME NEW k \in Keys, k # key, Above(k, h) = px[Top]
       PROVE  Read(b, Top, h, k) = Lookup(b, t', k)
  <2>1. CASE Above(k, e - 1) = Above(key, e - 1)
    <3>1. Read(b, Top, h, k) = Read(b, a, e, k) /\ Digit(k, e) = d
      BY <1>23, <1>24, <2>1
    <3>2. Read(b, a, e, k) = Read(b, b[a][Digit(k, e)], e - 1, k)
      BY <1>4, <1>22, ReadChild DEF e
    <3>3. Digit(k, e - 1) \in Slots
      <4>1. k \in Nat
        BY RadixSizes
      <4> QED BY <1>6, <4>1, DigitOfKey DEF e
    <3>4. Read(b, fresh, e - 1, k) = NULL
      BY <1>6, <1>16, <1>22, <3>3, ReadBlank DEF e
    <3>5. Lookup(c, t, k) = NULL
      BY <1>3, <2>1 DEF e
    <3> QED BY <1>16, <1>18, <3>1, <3>2, <3>4, <3>5
  <2>2. CASE Above(k, e - 1) # Above(key, e - 1)
    BY <1>3, <1>18, <1>23, <1>24, <2>2 DEF h
  <2> QED BY <2>1, <2>2
<1>25. Walk(b, Top, h, key)[e - 1] = fresh
  <2>1. Walk(b, Top, h, key)[e] = a
    BY <1>3, <1>5, <1>23 DEF h
  <2>2. Walk(b, Top, h, key)[e - 1] = b[a][Digit(key, e)]
    <3>1. h \in 1 .. MaxHeight /\ e \in 2 .. h /\ a = Walk(b, Top, h, key)[e] /\ a # NULL
      BY <1>4, <1>22, <2>1 DEF h, e
    <3> DEFINE w == Walk(b, Top, h, key)
    <3>2. w[e - 1] = b[a][Digit(key, e)]
      BY <3>1, WalkTurn
    <3> QED BY <3>2
  <2> QED BY <1>16, <2>2 DEF d
<1>26. ASSUME NEW k \in Keys, Above(k, (e - 1) - 1) = Above(key, (e - 1) - 1)
       PROVE  Lookup(b, t', k) = NULL
  <2>1. k \in Nat /\ key \in Nat /\ e - 1 \in 1 .. MaxHeight
    BY <1>5, <1>6, RadixSizes DEF e
  <2>2. Above(k, e - 1) = Above(key, e - 1)
    BY <1>26, <2>1, SameAbove
  <2> QED BY <1>3, <1>18, <2>2 DEF e
<1>27. Allocating(ht2, px2, old)'
  <2>1. ht2[Top'] = h /\ px2[Top'] = px[Top]
    BY <1>4, <1>9, <1>20 DEF h
  <2>2. Building(ht2, px2, old)'
    <3>1. Top' \in old .. fresh' - 1 /\ px2[Top'] = Above(key, ht2[Top'])
      BY <1>1, <1>3, <1>4, <1>20, <2>1 DEF h
    <3>2. \A k \in Keys : k # key /\ Above(k, ht2[Top']) = px2[Top']
                           => Read(b, Top', ht2[Top'], k) = Lookup(b, t', k)
      BY <1>20, <1>24, <2>1
    <3> QED BY <1>1, <1>3, <1>20, <3>1, <3>2 DEF Building, Calling
  <2>3. at'.node \in old .. fresh' - 1 /\ ht2[at'.node] = at'.h /\ px2[at'.node] = Above(key, at'.h)
    BY <1>1, <1>4, <1>9, <1>19
  <2>4. at'.h <= ht2[Top'] /\ at'.key = key % Span(at'.h) /\ fresh' + at'.h <= MaxNodes + 2
    <3>1. /\ at'.h = e - 1 /\ fresh' = fresh + 1 /\ ht2[Top'] = h /\ e \in Nat /\ h \in Nat
          /\ e <= h /\ fresh + e <= MaxNodes + 2 /\ fresh \in Nat /\ MaxNodes \in Nat
      BY <1>1, <1>3, <1>4, <1>19, <2>1 DEF e, h
    <3>2. at'.key = key % Span(at'.h)
      BY <1>5, <1>19, <3>1 DEF e
    <3> HIDE DEF e, h
    <3>3. at'.h <= ht2[Top'] /\ fresh' + at'.h <= MaxNodes + 2
      BY <3>1
    <3> QED BY <3>2, <3>3
  <2>5. Walk(b, Top', ht2[Top'], key)[at'.h] = at'.node
    BY <1>19, <1>20, <1>25, <2>1
  <2>6. \A k \in Keys : Above(k, at'.h - 1) = Above(key, at'.h - 1) => Lookup(b, t', k) = NULL
    BY <1>19, <1>26
  <2> QED BY <1>1, <2>2, <2>3, <2>4, <2>5, <2>6 DEF Allocating
<1>28. Phase(ht2, px2, old)'
  BY <1>1, <1>27 DEF Phase
<1>29. MapStep
  BY <1>1, <1>2, <1>18, MapKept
<1> QED BY <1>18, <1>28, <1>29 DEF RInv, State

\* Where a walk ends above the leaves, the map has none of the keys below.
LEMMA NoneBelow ==
  ASSUME NEW c, NEW s, NEW ht, NEW px, NEW N, Heads(c, s, ht, px, N),
         NEW key \in Keys, key < Span(Height(c, s)), NEW g \in 1 .. Height(c, s),
         Walk(c, Root(c, s), Height(c, s), key)[g] = NULL
  PROVE  /\ \A k \in Keys : Above(k, g) = Above(key, g) => Lookup(c, s, k) = NULL
         /\ Leaf(c, s, key) = NULL
<1> DEFINE r == Root(c, s)
           h == Height(c, s)
<1>1. /\ h \in 1 .. MaxHeight /\ MaxHeight \in Nat /\ Span(h) \in Nat /\ h \in 0 .. MaxHeight
      /\ key \in Nat
  BY HeadsWay
<1>2. g \in 1 .. MaxHeight /\ g \in 0 .. MaxHeight
  BY <1>1
<1>3. Leaf(c, s, key) = Walk(c, r, h, key)[1] /\ Walk(c, r, h, key)[g] = NULL
  BY DEF Leaf
<1> HIDE DEF r, h
<1>4. ASSUME NEW k \in Keys, Above(k, g) = Above(key, g)
      PROVE  Walk(c, r, h, k)[g] = NULL /\ Read(c, r, h, k) = NULL /\ Walk(c, r, h, k)[1] = NULL
  <2> DEFINE w == Walk(c, r, h, key)
             v == Walk(c, r, h, k)
             u == Walk(c, v[g], g, k)
  <2>1. k \in Nat /\ Above(key, g) = Above(k, g) /\ g \in 1 .. h
    BY <1>4, RadixSizes DEF h
  <2>2. \A j \in g .. h : v[j] = w[j]
    BY <1>1, <2>1, WalkKeys
  <2>3. w[g] = NULL
    BY <1>3
  <2>4. \A j \in 1 .. g : u[j] = v[j]
    BY <1>1, <2>1, WalkSplit
  <2>5. Read(c, r, h, k) = Read(c, v[g], g, k)
    BY <1>1, <2>1, ReadSplit
  <2> HIDE DEF v, w
  <2>6. v[g] = NULL
    BY <1>1, <2>1, <2>2, <2>3
  <2>7. Read(c, NULL, g, k) = NULL /\ Walk(c, NULL, g, k)[1] = NULL
    BY <1>2, ReadNull
  <2>8. u[1] = NULL
    BY <2>6, <2>7
  <2> HIDE DEF u
  <2>9. v[1] = NULL
    BY <1>2, <2>4, <2>8
  <2> QED BY <2>5, <2>6, <2>7, <2>9 DEF v
<1>5. ASSUME NEW k \in Keys, Above(k, g) = Above(key, g) PROVE Lookup(c, s, k) = NULL
  BY <1>4, <1>5, LookupRead DEF r, h
<1>6. Leaf(c, s, key) = NULL
  BY <1>3, <1>4
<1> QED BY <1>5, <1>6

\* The search meets an empty entry: a subtree for it is begun.
LEMMA StepSearchMissing ==
  ASSUME NEW ht, NEW px, NEW old, State(ht, px, old), IInv, IInv', SearchMissing
  PROVE  RInv' /\ MapStep
<1> DEFINE c    == mem.cache
           b    == mem'.cache
           a    == at.node
           key  == op.key
           e    == at.h
           d    == Digit(key, e)
           i    == Index(at.key, at.h)
           slot == <<a, i>>
           s1   == allocNode(fresh, a, slot[2])
           N    == 1 .. fresh - 1
           r    == Root(c, t)
           h    == Height(c, t)
<1>1. /\ pc = "search" /\ pc' = "alloc" /\ t' = t /\ fresh' = fresh + 1 /\ losses' = losses
      /\ op' = op /\ e > 1 /\ mem' = Store(mem, s1) /\ c[a][i] = NULL
      /\ at' = [node |-> fresh, key |-> NextKey(at.key, e), h |-> e - 1, slot |-> slot, sub |-> fresh]
  BY DEF SearchMissing
<1>2. Ground(ht, px, old) /\ Searching /\ Owes(mem, {}) /\ old = fresh
  BY <1>1 DEF State, Phase, IInv, Owed, Ground
<1>3. /\ Calling /\ key < Span(h) /\ e \in 1 .. h /\ at.key = key % Span(e)
      /\ a = Walk(c, r, h, key)[e] /\ a # NULL
      /\ Leaf(c, t, key) # NULL \/ fresh + e <= MaxNodes + 2
  BY <1>2 DEF Searching
<1>4. /\ N \in SUBSET Nodes /\ Leads(c, ht, px, N) /\ Marked(ht, px)
      /\ fresh \in 2 .. MaxNodes + 1 /\ MaxNodes \in Nat
      /\ h \in 1 .. MaxHeight /\ MaxHeight \in Nat
      /\ e \in 2 .. MaxHeight /\ e \in 2 .. h /\ e - 1 \in 1 .. h /\ e - 1 \in 1 .. MaxHeight
      /\ Heads(c, t, ht, px, N)
  <2>1. /\ N \in SUBSET Nodes /\ Leads(c, ht, px, N) /\ Marked(ht, px)
        /\ fresh \in 2 .. MaxNodes + 1 /\ MaxNodes \in Nat
    BY <1>2, AllNodes
  <2>2. h \in 1 .. MaxHeight /\ MaxHeight \in Nat
    BY <1>2, HeadsTop
  <2>3. e \in 2 .. MaxHeight /\ e \in 2 .. h /\ e - 1 \in 1 .. h /\ e - 1 \in 1 .. MaxHeight
    BY <1>1, <1>3, <2>2
  <2> QED BY <1>2, <2>1, <2>2, <2>3, GroundHeads
<1>5. /\ key \in Keys /\ key \in Nat /\ d \in Slots /\ i = d
      /\ NextKey(at.key, e) = key % Span(e - 1)
      /\ Above(key, e - 1) = Above(key, e) * NUM_ENTRY + d /\ Above(key, e - 1) \in Nat
  <2>1. key \in Keys /\ key \in Nat /\ e \in 1 .. MaxHeight
    BY <1>3, <1>4, CallKey
  <2>2. i = d
    BY <1>3 DEF Digit
  <2> QED BY <1>3, <2>1, <2>2, DigitOfKey
<1>6. Way(c, ht, px, N, r, h, key)
  BY <1>3, <1>4, <1>5, HeadsWay
<1>7. a \in N /\ ht[a] = e
  <2> DEFINE w == Walk(c, r, h, key)
  <2>1. \A j \in 1 .. h : Passes(ht, px, N, key, j, w[j])
    BY <1>6, WalkPasses
  <2>2. a = w[e] /\ e \in 1 .. h
    BY <1>3
  <2> HIDE DEF w, a, e
  <2> QED BY <1>3, <2>1, <2>2 DEF Passes, a
<1>8. Walk(c, r, h, key)[e - 1] = NULL
  <2>1. Walk(c, r, h, key)[e - 1] = c[a][Digit(key, e)]
    BY <1>3, <1>4, WalkTurn
  <2> QED BY <1>1, <1>5, <2>1
<1>9. /\ \A k \in Keys : Above(k, e - 1) = Above(key, e - 1) => Lookup(c, t, k) = NULL
      /\ Leaf(c, t, key) = NULL
  BY <1>3, <1>4, <1>5, <1>8, NoneBelow
<1>10. fresh + e <= MaxNodes + 2 /\ fresh \in Nodes /\ fresh # 0 /\ fresh \notin N
  BY <1>3, <1>4, <1>9 DEF Nodes
<1> DEFINE ht3 == [ht EXCEPT ![fresh] = e - 1]
           px3 == [px EXCEPT ![fresh] = Above(key, e - 1)]
<1>11. PICK ht2 : ht2 = ht3
  OBVIOUS
<1>12. PICK px2 : px2 = px3
  OBVIOUS
<1>13. /\ Marked(ht2, px2) /\ Extended(ht, px, ht2, px2, fresh)
       /\ ht2[fresh] = e - 1 /\ px2[fresh] = Above(key, e - 1)
       /\ fresh' \in fresh .. MaxNodes + 1 /\ fresh \in 1 .. fresh' - 1
       /\ \A n \in N : ht2[n] = ht[n] /\ px2[n] = px[n]
  <2> DEFINE x == e - 1
             p == Above(key, e - 1)
  <2>1. /\ Ground(ht, px, old) /\ fresh \in Nodes /\ x \in 1 .. MaxHeight /\ p \in Nat
        /\ ht2 = [ht EXCEPT ![fresh] = x] /\ px2 = [px EXCEPT ![fresh] = p]
    BY <1>2, <1>4, <1>5, <1>10, <1>11, <1>12
  <2> HIDE DEF x, p
  <2>2. More(ht, px, ht2, px2, fresh, x, p)
    BY <2>1, OneMore
  <2> QED BY <1>1, <2>2 DEF More, x, p
<1>14. /\ DOMAIN s1 = {fresh} \X Offsets /\ \A w \in Slots : s1[<<fresh, w>>] = NULL
       /\ \A w \in Offsets : Sane(ht2, px2, fresh', fresh, w, s1[<<fresh, w>>])
  <2>1. s1 = allocNode(fresh, a, i) /\ a \in Nodes /\ i \in Slots
    BY <1>4, <1>5, <1>7
  <2> HIDE DEF s1, a, i
  <2> QED BY <1>10, <2>1, NodeWords
<1> HIDE DEF s1
<1>15. Owes(mem', {} \cup DOMAIN s1) /\ Stored(mem, mem', s1)
  BY <1>1, <1>2, StoreWords
<1> HIDE DEF h, r, a, d, e, i, ht3, px3
<1>16. Moves(mem, mem')
  BY <1>15 DEF Moves, Stored
<1>17. \A o \in {0} \cup Nodes : \A w \in Width(o) :
         b[o][w] = IF o = fresh THEN s1[<<o, w>>] ELSE c[o][w]
  <2> SUFFICES ASSUME NEW o \in {0} \cup Nodes, NEW w \in Width(o)
               PROVE  b[o][w] = IF o = fresh THEN s1[<<o, w>>] ELSE c[o][w]
    OBVIOUS
  <2>1. o \in DOMAIN mem.cache /\ w \in DOMAIN mem.cache[o]
    BY <1>2, SameExtended
  <2>2. b[o][w] = IF <<o, w>> \in DOMAIN s1 THEN s1[<<o, w>>] ELSE c[o][w]
    BY <1>15, <2>1 DEF Stored
  <2>3. <<o, w>> \in DOMAIN s1 <=> o = fresh
    BY <1>10, <1>14, SlotFacts
  <2> QED BY <2>2, <2>3
<1>18. /\ \A w \in Slots : b[fresh][w] = NULL
       /\ \A n \in N, j \in Slots : b[n][j] = c[n][j]
       /\ \A v \in Trees : b[0][v] = c[0][v]
  <2>1. \A w \in Slots : b[fresh][w] = NULL
    BY <1>10, <1>14, <1>17, SlotFacts
  <2>2. \A n \in N, j \in Slots : b[n][j] = c[n][j]
    BY <1>4, <1>10, <1>17, SlotFacts
  <2>3. \A v \in Trees : b[0][v] = c[0][v]
    BY <1>10, <1>17, SlotFacts
  <2> QED BY <2>1, <2>2, <2>3
<1>19. Puts(c, b, ht2, px2, fresh') /\ SameEntries(c, b, 1 .. old - 1)
  <2>1. SameEntries(c, b, 1 .. old - 1)
    BY <1>2, <1>18 DEF SameEntries
  <2>2. Puts(c, b, ht2, px2, fresh')
    <3> SUFFICES ASSUME NEW o \in {0} \cup Nodes, NEW w \in Width(o)
                 PROVE  b[o][w] = c[o][w] \/ Sane(ht2, px2, fresh', o, w, b[o][w])
      BY DEF Puts
    <3>1. CASE o = fresh
      <4>1. b[o][w] = s1[<<fresh, w>>] /\ w \in Offsets
        BY <1>10, <1>17, <3>1, SlotFacts
      <4> QED BY <1>14, <3>1, <4>1
    <3>2. CASE o # fresh
      BY <1>17, <3>2
    <3> QED BY <3>1, <3>2
  <2> QED BY <2>1, <2>2
<1>20. /\ Ground(ht2, px2, old)'
       /\ \A k \in Keys : Lookup(mem'.cache, t', k) = Lookup(mem.cache, t, k)
       /\ Content(mem'.cache, t') = Content(mem.cache, t)
       /\ Height(b, t') = h /\ Root(b, t') = r
  <2>1. losses' \in 0 .. MaxLosses /\ t \in Trees
    BY <1>1, <1>2 DEF Ground
  <2>2. Owes(mem', Owed(pc', at'))
    BY DEF IInv
  <2>3. mem'.cache[0][t] = mem.cache[0][t]
    BY <1>18, <2>1
  <2>4. /\ Ground(ht2, px2, old)'
        /\ \A k \in Keys : Lookup(mem'.cache, t', k) = Lookup(mem.cache, t, k)
        /\ Content(mem'.cache, t') = Content(mem.cache, t)
    BY <1>1, <1>2, <1>13, <1>16, <1>19, <2>1, <2>2, <2>3, GroundKept
  <2> QED BY <1>1, <2>3, <2>4 DEF Height, Root, h, r
<1>21. /\ at'.node = fresh /\ at'.key = key % Span(e - 1) /\ at'.h = e - 1
       /\ at'.slot = <<a, d>> /\ at'.sub = fresh
  BY <1>1, <1>5
<1>22. Top' = fresh
  <2>1. at'.slot[1] # 0
    BY <1>4, <1>7, <1>21, SlotFacts DEF a
  <2> QED BY <1>21, <2>1 DEF Top
<1>23. \E n \in 1 .. old - 1 : ForEntry(ht2, n)'
  <2>1. Agrees(b, c, ht, px, N, key, e + 1, h)
    <3>1. ASSUME NEW m \in N PROVE Digit(key, ht[m]) \in Slots
      <4>1. ht[m] \in 1 .. MaxHeight
        BY <1>4 DEF Marked
      <4> QED BY <1>5, <4>1, DigitOfKey
    <3> QED BY <1>18, <3>1 DEF Agrees
  <2>2. Walk(b, r, h, key)[e] = a
    <3>1. Way(c, ht, px, N, r, h, key) /\ e \in 1 .. h /\ a = Walk(c, r, h, key)[e]
      BY <1>3, <1>6 DEF r, h, e, a
    <3>2. Walk(b, r, h, key)[e] = Walk(c, r, h, key)[e]
      BY <2>1, <3>1, WalkSame
    <3> QED BY <3>1, <3>2
  <2>3. b[a][d] = NULL
    BY <1>1, <1>5, <1>7, <1>18 DEF a, i, d
  <2>4. /\ ht2[a] = e /\ ht2[Top'] = e - 1 /\ e <= h /\ key < Span(h) /\ e \in Nat /\ e = (e - 1) + 1
        /\ d = Digit(key, e)
    BY <1>3, <1>4, <1>7, <1>13, <1>22 DEF e, h, a, d
  <2>5. PICK n \in 1 .. old - 1 : n = a
    BY <1>2, <1>7 DEF a
  <2>6. ForEntry(ht2, n)'
    BY <1>1, <1>20, <1>21, <2>2, <2>3, <2>4, <2>5 DEF ForEntry
  <2> QED BY <2>6
<1>24. \A k : k \in Keys => Read(b, fresh, e - 1, k) = NULL
  <2> SUFFICES ASSUME NEW k \in Keys PROVE Read(b, fresh, e - 1, k) = NULL
    OBVIOUS
  <2>1. Digit(k, e - 1) \in Slots /\ e - 1 \in 1 .. MaxHeight /\ fresh # NULL
    <3>1. k \in Nat
      BY RadixSizes
    <3> QED BY <1>4, <1>10, <3>1, DigitOfKey, NullIsNoNode DEF e
  <2> QED BY <1>18, <2>1, ReadBlank
<1>25. ASSUME NEW k \in Keys, Above(k, (e - 1) - 1) = Above(key, (e - 1) - 1)
       PROVE  Lookup(b, t', k) = NULL
  <2>1. k \in Nat /\ key \in Nat /\ e - 1 \in 1 .. MaxHeight
    BY <1>4, <1>5, RadixSizes DEF e
  <2>2. Above(k, e - 1) = Above(key, e - 1)
    BY <1>25, <2>1, SameAbove
  <2> QED BY <1>9, <1>20, <2>2 DEF e
<1>26. Allocating(ht2, px2, old)'
  <2>1. Building(ht2, px2, old)'
    <3>1. Top' \in old .. fresh' - 1 /\ px2[Top'] = Above(key, ht2[Top'])
      BY <1>1, <1>2, <1>4, <1>13, <1>22 DEF e
    <3>2. \A k \in Keys : k # key /\ Above(k, ht2[Top']) = px2[Top']
                           => Read(b, Top', ht2[Top'], k) = Lookup(b, t', k)
      BY <1>9, <1>13, <1>20, <1>22, <1>24 DEF e
    <3> QED BY <1>1, <1>3, <1>23, <3>1, <3>2 DEF Building, Calling
  <2>2. at'.node \in old .. fresh' - 1 /\ ht2[at'.node] = at'.h /\ px2[at'.node] = Above(key, at'.h)
    BY <1>1, <1>2, <1>4, <1>13, <1>21
  <2>3. at'.h <= ht2[Top'] /\ at'.key = key % Span(at'.h) /\ fresh' + at'.h <= MaxNodes + 2
    BY <1>1, <1>4, <1>10, <1>13, <1>21, <1>22 DEF e
  <2>4. Walk(b, Top', ht2[Top'], key)[at'.h] = at'.node
    <3>1. e - 1 \in 1 .. MaxHeight
      BY <1>4 DEF e
    <3>2. Walk(b, fresh, e - 1, key)[e - 1] = fresh
      BY <3>1, WalkTop
    <3> QED BY <1>13, <1>21, <1>22, <3>2 DEF e
  <2>5. \A k \in Keys : Above(k, at'.h - 1) = Above(key, at'.h - 1) => Lookup(b, t', k) = NULL
    BY <1>21, <1>25
  <2> QED BY <1>1, <2>1, <2>2, <2>3, <2>4, <2>5 DEF Allocating
<1>27. Phase(ht2, px2, old)'
  BY <1>1, <1>26 DEF Phase
<1>28. MapStep
  BY <1>1, <1>2, <1>20, MapKept
<1> QED BY <1>20, <1>27, <1>28 DEF RInv, State

\* A root over the root: it adopts what was there as its first entry.
LEMMA RootOver ==
  ASSUME NEW b, NEW n, n # NULL, NEW e, e \in 1 .. MaxHeight - 1, NEW a, b[n][0] = a,
         \A w \in Slots : w # 0 => b[n][w] = NULL, NEW k \in Keys, k < Span(e + 1)
  PROVE  IF k < Span(e) THEN Read(b, n, e + 1, k) = Read(b, a, e, k)
         ELSE Read(b, n, e + 1, k) = NULL
<1>1. /\ k \in Nat /\ e + 1 \in 2 .. MaxHeight /\ e + 1 \in 1 .. MaxHeight /\ (e + 1) - 1 = e
      /\ e \in 0 .. MaxHeight /\ e + 1 \in 0 .. MaxHeight /\ MaxHeight \in Nat
  BY RadixSizes
<1>2. Digit(k, e + 1) \in Slots /\ Above(k, e) = Above(k, e + 1) * NUM_ENTRY + Digit(k, e + 1)
  BY <1>1, DigitOfKey
<1>3. Above(k, e + 1) = 0 /\ (k < Span(e) <=> Above(k, e) = 0)
  BY <1>1, BelowSpan
<1> DEFINE d == Digit(k, e + 1)
<1> HIDE DEF d
<1>4. k < Span(e) <=> d = 0
  <2>1. Above(k, e) = 0 * NUM_ENTRY + d /\ d \in Nat /\ NUM_ENTRY \in Nat
    BY <1>2, <1>3, RadixSizes DEF d, Slots
  <2>2. 0 * NUM_ENTRY + d = d
    BY <2>1
  <2> QED BY <1>3, <2>1, <2>2
<1>5. Read(b, n, e + 1, k) = Read(b, b[n][d], e, k)
  BY <1>1, ReadChild DEF d
<1>6. b[n][d] = NULL => Read(b, n, e + 1, k) = NULL
  BY <1>1, ReadBlank DEF d
<1> QED BY <1>2, <1>4, <1>5, <1>6 DEF d

\* One turn of the growth loop.
LEMMA StepGrowRoot ==
  ASSUME NEW ht, NEW px, NEW old, State(ht, px, old), IInv, IInv', GrowRoot
  PROVE  RInv' /\ MapStep
<1> DEFINE c   == mem.cache
           b   == mem'.cache
           a   == at.node
           key == op.key
           e   == at.h
           s1  == allocNode(fresh, NULL, 0)
           g1  == Store(mem, s1)
           s2  == Word(<<fresh, 0>>, a)
           g2  == Store(g1, s2)
           s3  == Word(<<a, PARENT_PTR>>, fresh)
           g3  == Store(g2, s3)
           N   == 1 .. fresh - 1
           h   == Height(c, t)
           new == NewHeight(key, h)
<1>1. /\ pc = "grow" /\ pc' = "grow" /\ t' = t /\ fresh' = fresh + 1 /\ losses' = losses
      /\ op' = op /\ e < new /\ mem' = flush_buffer(g3, Words(a), FALSE)
      /\ at' = [at EXCEPT !.node = fresh, !.h = e + 1]
  BY DEF GrowRoot
<1>2. Ground(ht, px, old) /\ Growing(ht, px, old) /\ Owes(mem, Words(a))
  BY <1>1 DEF State, Phase, IInv, Owed
<1>3. /\ Calling /\ h < new /\ e \in h .. new /\ at.key = key
      /\ a \in 1 .. fresh - 1 /\ ht[a] = e /\ px[a] = 0
      /\ IF e = h THEN old = fresh ELSE a >= old
      /\ fresh + 2 * MaxHeight <= MaxNodes + 1 + (e - h)
      /\ \A k \in Keys : k < Span(e) => Read(c, a, e, k) = Lookup(c, t, k)
  BY <1>2 DEF Growing
<1>4. /\ N \in SUBSET Nodes /\ Leads(c, ht, px, N) /\ Marked(ht, px) /\ old \in 1 .. fresh
      /\ fresh \in 2 .. MaxNodes + 1 /\ MaxNodes \in Nat /\ 1 .. old - 1 \subseteq N
      /\ h \in 1 .. MaxHeight /\ MaxHeight \in Nat /\ key \in Keys /\ key \in Nat
  <2>1. /\ N \in SUBSET Nodes /\ Leads(c, ht, px, N) /\ Marked(ht, px) /\ old \in 1 .. fresh
        /\ fresh \in 2 .. MaxNodes + 1 /\ MaxNodes \in Nat /\ 1 .. old - 1 \subseteq N
    BY <1>2, AllNodes
  <2>2. h \in 1 .. MaxHeight /\ MaxHeight \in Nat
    BY <1>2, HeadsTop
  <2> QED BY <1>3, <2>1, <2>2, CallKey
<1>5. new \in h .. MaxHeight
  BY <1>4, NewHeightFits
<1>6. /\ e \in 1 .. MaxHeight - 1 /\ e + 1 \in h .. new /\ e + 1 \in 1 .. MaxHeight
      /\ e \in 1 .. MaxHeight /\ e \in h .. MaxHeight /\ h \in 0 .. MaxHeight
  <2>1. e < new /\ e \in h .. new /\ new \in h .. MaxHeight /\ h \in 1 .. MaxHeight /\ MaxHeight \in Nat
    BY <1>1, <1>3, <1>4, <1>5
  <2> HIDE DEF e, h, new
  <2> QED BY <2>1
<1>7. fresh \in Nodes /\ fresh # 0 /\ fresh \notin N /\ fresh # NULL
  <2>1. fresh <= MaxNodes
    BY <1>3, <1>4, <1>6
  <2>2. fresh \in Nodes /\ fresh # 0 /\ fresh \notin N
    BY <1>4, <2>1 DEF Nodes
  <2> QED BY <2>2, NullIsNoNode
<1> DEFINE ht3 == [ht EXCEPT ![fresh] = e + 1]
           px3 == [px EXCEPT ![fresh] = 0]
<1>8. PICK ht2 : ht2 = ht3
  OBVIOUS
<1>9. PICK px2 : px2 = px3
  OBVIOUS
<1>10. /\ Marked(ht2, px2) /\ Extended(ht, px, ht2, px2, fresh)
       /\ ht2[fresh] = e + 1 /\ px2[fresh] = 0
       /\ fresh' \in fresh .. MaxNodes + 1 /\ fresh \in 1 .. fresh' - 1
       /\ \A n \in N : ht2[n] = ht[n] /\ px2[n] = px[n]
  <2> DEFINE x == e + 1
             p == 0
  <2>1. /\ Ground(ht, px, old) /\ fresh \in Nodes /\ x \in 1 .. MaxHeight /\ p \in Nat
        /\ ht2 = [ht EXCEPT ![fresh] = x] /\ px2 = [px EXCEPT ![fresh] = p]
    BY <1>2, <1>6, <1>7, <1>8, <1>9
  <2> HIDE DEF x, p
  <2>2. More(ht, px, ht2, px2, fresh, x, p)
    BY <2>1, OneMore
  <2> QED BY <1>1, <2>2 DEF More, x, p
<1>11. /\ DOMAIN s1 = {fresh} \X Offsets /\ \A w \in Slots : s1[<<fresh, w>>] = NULL
       /\ \A w \in Offsets : Sane(ht2, px2, fresh', fresh, w, s1[<<fresh, w>>])
  BY <1>7, SlotFacts, NodeWords
<1>12. DOMAIN s2 = {<<fresh, 0>>} /\ s2[<<fresh, 0>>] = a
  BY DEF Word
<1>13. DOMAIN s3 = {<<a, PARENT_PTR>>} /\ s3[<<a, PARENT_PTR>>] = fresh
  BY DEF Word
<1> HIDE DEF s1, s2, s3
<1>14. Owes(g1, Words(a) \cup DOMAIN s1) /\ Stored(mem, g1, s1)
  BY <1>2, StoreWords
<1> HIDE DEF g1
<1>15. Owes(g2, (Words(a) \cup DOMAIN s1) \cup DOMAIN s2) /\ Stored(g1, g2, s2)
  BY <1>14, StoreWords
<1> HIDE DEF g2
<1>16. Owes(g3, ((Words(a) \cup DOMAIN s1) \cup DOMAIN s2) \cup DOMAIN s3) /\ Stored(g2, g3, s3)
  BY <1>15, StoreWords
<1> HIDE DEF g3, h, a, e, new, ht3, px3
<1>17. Moves(mem, mem') /\ b = g3.cache
  <2>1. AfterStores(mem, g3)
    BY <1>14, <1>15, <1>16 DEF AfterStores, Stored
  <2> QED BY <1>1, <1>16, <2>1, FlushMoves
<1>18. \A o \in {0} \cup Nodes : \A w \in Width(o) :
         b[o][w] = IF <<o, w>> = <<a, PARENT_PTR>> THEN fresh
                   ELSE IF <<o, w>> = <<fresh, 0>> THEN a
                   ELSE IF o = fresh THEN s1[<<o, w>>] ELSE c[o][w]
  <2> SUFFICES ASSUME NEW o \in {0} \cup Nodes, NEW w \in Width(o)
               PROVE  b[o][w] = IF <<o, w>> = <<a, PARENT_PTR>> THEN fresh
                                ELSE IF <<o, w>> = <<fresh, 0>> THEN a
                                ELSE IF o = fresh THEN s1[<<o, w>>] ELSE c[o][w]
    OBVIOUS
  <2>1. o \in DOMAIN mem.cache /\ w \in DOMAIN mem.cache[o]
    BY <1>2, SameExtended
  <2>2. o \in DOMAIN g1.cache /\ w \in DOMAIN g1.cache[o]
    BY <1>14, <2>1 DEF Stored
  <2>3. o \in DOMAIN g2.cache /\ w \in DOMAIN g2.cache[o]
    BY <1>15, <2>2 DEF Stored
  <2>4. g1.cache[o][w] = IF <<o, w>> \in DOMAIN s1 THEN s1[<<o, w>>] ELSE c[o][w]
    BY <1>14, <2>1 DEF Stored
  <2>5. g2.cache[o][w] = IF <<o, w>> \in DOMAIN s2 THEN s2[<<o, w>>] ELSE g1.cache[o][w]
    BY <1>15, <2>2 DEF Stored
  <2>6. b[o][w] = IF <<o, w>> \in DOMAIN s3 THEN s3[<<o, w>>] ELSE g2.cache[o][w]
    BY <1>16, <1>17, <2>3 DEF Stored
  <2>7. <<o, w>> \in DOMAIN s1 <=> o = fresh
    BY <1>7, <1>11, SlotFacts
  <2> QED BY <1>12, <1>13, <2>4, <2>5, <2>6, <2>7
<1>19. a \in N /\ a \in Nodes /\ a # 0 /\ a # fresh
  BY <1>3, <1>4, <1>7, SlotFacts DEF a
<1>20. /\ b[fresh][0] = a /\ \A w \in Slots : w # 0 => b[fresh][w] = NULL
       /\ SameEntries(c, b, N)
       /\ \A v \in Trees : b[0][v] = c[0][v]
  <2>1. b[fresh][0] = a /\ \A w \in Slots : w # 0 => b[fresh][w] = NULL
    BY <1>7, <1>11, <1>18, <1>19, SlotFacts
  <2>2. SameEntries(c, b, N)
    BY <1>4, <1>7, <1>18, SlotFacts DEF SameEntries
  <2>3. \A v \in Trees : b[0][v] = c[0][v]
    BY <1>7, <1>18, <1>19, SlotFacts
  <2> QED BY <2>1, <2>2, <2>3
<1>21. Puts(c, b, ht2, px2, fresh') /\ SameEntries(c, b, 1 .. old - 1)
  <2>1. SameEntries(c, b, 1 .. old - 1)
    BY <1>4, <1>20 DEF SameEntries
  <2>2. Puts(c, b, ht2, px2, fresh')
    <3> SUFFICES ASSUME NEW o \in {0} \cup Nodes, NEW w \in Width(o)
                 PROVE  b[o][w] = c[o][w] \/ Sane(ht2, px2, fresh', o, w, b[o][w])
      BY DEF Puts
    <3>1. CASE <<o, w>> = <<a, PARENT_PTR>>
      <4>1. o # 0 /\ w = PARENT_PTR /\ b[o][w] = fresh
        BY <1>18, <1>19, <3>1
      <4> QED BY <1>7, <4>1 DEF Sane
    <3>2. CASE <<o, w>> = <<fresh, 0>>
      <4>1. b[o][w] = a /\ o = fresh /\ w = 0
        BY <1>18, <1>19, <3>2
      <4>2. 0 # PARENT_PTR /\ 0 # P_INDEX /\ fresh # 0 /\ fresh < fresh' /\ a \in 1 .. fresh' - 1
        BY <1>1, <1>4, <1>7, <1>19, SlotFacts
      <4>3. ht2[a] = ht2[fresh] - 1 /\ px2[a] = px2[fresh] * NUM_ENTRY + 0
        <5>1. 0 * NUM_ENTRY + 0 = 0
          BY RadixSizes
        <5> QED BY <1>3, <1>6, <1>10, <1>19, <5>1 DEF a, e
      <4>4. Sane(ht2, px2, fresh', fresh, 0, a)
        BY <4>2, <4>3 DEF Sane
      <4> QED BY <4>1, <4>4
    <3>3. CASE <<o, w>> # <<a, PARENT_PTR>> /\ <<o, w>> # <<fresh, 0>> /\ o = fresh
      <4>1. b[o][w] = s1[<<fresh, w>>] /\ w \in Offsets
        BY <1>7, <1>18, <3>3, SlotFacts
      <4> QED BY <1>11, <3>3, <4>1
    <3>4. CASE <<o, w>> # <<a, PARENT_PTR>> /\ <<o, w>> # <<fresh, 0>> /\ o # fresh
      BY <1>18, <3>4
    <3> QED BY <3>1, <3>2, <3>3, <3>4
  <2> QED BY <2>1, <2>2
<1>22. /\ Ground(ht2, px2, old)'
       /\ \A k \in Keys : Lookup(mem'.cache, t', k) = Lookup(mem.cache, t, k)
       /\ Content(mem'.cache, t') = Content(mem.cache, t)
       /\ Height(b, t') = h
  <2>1. losses' \in 0 .. MaxLosses /\ t \in Trees
    BY <1>1, <1>2 DEF Ground
  <2>2. Owes(mem', Owed(pc', at'))
    BY DEF IInv
  <2>3. mem'.cache[0][t] = mem.cache[0][t]
    BY <1>20, <2>1
  <2>4. /\ Ground(ht2, px2, old)'
        /\ \A k \in Keys : Lookup(mem'.cache, t', k) = Lookup(mem.cache, t, k)
        /\ Content(mem'.cache, t') = Content(mem.cache, t)
    BY <1>1, <1>2, <1>10, <1>17, <1>21, <2>1, <2>2, <2>3, GroundKept
  <2> QED BY <1>1, <2>3, <2>4 DEF Height, h
<1>23. at'.node = fresh /\ at'.key = at.key /\ at'.h = e + 1
  BY <1>1 DEF IInv
<1>24. ASSUME NEW k \in Keys, k < Span(e + 1) PROVE Read(b, fresh, e + 1, k) = Lookup(b, t', k)
  <2>1. IF k < Span(e) THEN Read(b, fresh, e + 1, k) = Read(b, a, e, k)
        ELSE Read(b, fresh, e + 1, k) = NULL
    <3>1. e \in 1 .. MaxHeight - 1
      BY <1>6 DEF e
    <3> QED BY <1>7, <1>20, <1>24, <3>1, RootOver
  <2>2. CASE k < Span(e)
    <3>1. k \in Nat /\ Above(k, e) = 0 /\ e \in 1 .. MaxHeight /\ e \in 0 .. MaxHeight
      <4>1. k \in Nat /\ e \in 1 .. MaxHeight /\ e \in 0 .. MaxHeight
        BY <1>6, RadixSizes DEF e
      <4> QED BY <2>2, <4>1, BelowSpan
    <3>2. Way(c, ht, px, N, a, e, k)
      BY <1>3, <1>4, <1>19, <3>1 DEF Way, a, e
    <3>3. Agrees(b, c, ht, px, N, k, 1, e)
      <4>1. ASSUME NEW m \in N PROVE Digit(k, ht[m]) \in Slots
        <5>1. ht[m] \in 1 .. MaxHeight
          BY <1>4 DEF Marked
        <5> QED BY <3>1, <5>1, DigitOfKey
      <4> QED BY <1>20, <4>1 DEF Agrees, SameEntries
    <3>4. Read(b, a, e, k) = Read(c, a, e, k)
      BY <3>2, <3>3, ReadSame
    <3>5. Read(c, a, e, k) = Lookup(c, t, k)
      BY <1>3, <2>2 DEF a, e
    <3> QED BY <1>22, <2>1, <2>2, <3>4, <3>5
  <2>3. CASE ~(k < Span(e))
    <3>1. Span(h) <= Span(e) /\ Span(h) \in Nat /\ Span(e) \in Nat /\ k \in Nat
      <4>1. h \in 0 .. MaxHeight /\ e \in h .. MaxHeight /\ e \in 0 .. MaxHeight
        BY <1>6 DEF h, e
      <4> QED BY <4>1, SpanMonotone, RadixSizes
    <3>2. k >= Span(h)
      BY <2>3, <3>1
    <3>3. Lookup(c, t, k) = NULL
      BY <3>2, LookupRead DEF h
    <3> QED BY <1>22, <2>1, <2>3, <3>3
  <2> QED BY <2>2, <2>3
<1>25. Growing(ht2, px2, old)'
  <2>1. Calling' /\ Height(b, t') = h /\ NewHeight(op'.key, h) = new
    BY <1>1, <1>3, <1>22 DEF Calling, h, new
  <2>2. h < new /\ e + 1 \in h .. new /\ at'.h = e + 1 /\ at'.key = op'.key
    BY <1>1, <1>3, <1>6, <1>23 DEF h, new, e
  <2>3. at'.node \in 1 .. fresh' - 1 /\ ht2[at'.node] = at'.h /\ px2[at'.node] = 0
    BY <1>10, <1>23
  <2>4. IF at'.h = h THEN old = fresh' ELSE at'.node >= old
    BY <1>3, <1>4, <1>6, <1>23 DEF e, h
  <2>5. fresh' + 2 * MaxHeight <= MaxNodes + 1 + (at'.h - h)
    <3>1. /\ fresh' = fresh + 1 /\ at'.h = e + 1 /\ fresh + 2 * MaxHeight <= MaxNodes + 1 + (e - h)
          /\ fresh \in Nat /\ MaxNodes \in Nat /\ MaxHeight \in Nat /\ e \in Nat /\ h \in Nat
      <4>1. fresh' = fresh + 1 /\ at'.h = e + 1 /\ fresh + 2 * MaxHeight <= MaxNodes + 1 + (e - h)
        BY <1>1, <1>3, <1>23 DEF e, h
      <4>2. fresh \in Nat /\ MaxNodes \in Nat /\ MaxHeight \in Nat /\ e \in Nat /\ h \in Nat
        BY <1>4, <1>6 DEF e, h
      <4> QED BY <4>1, <4>2
    <3> QED BY <3>1
  <2>6. \A k \in Keys : k < Span(at'.h) => Read(b, at'.node, at'.h, k) = Lookup(b, t', k)
    BY <1>23, <1>24
  <2> QED BY <2>1, <2>2, <2>3, <2>4, <2>5, <2>6 DEF Growing
<1>26. Phase(ht2, px2, old)'
  BY <1>1, <1>25 DEF Phase
<1>27. MapStep
  BY <1>1, <1>2, <1>22, MapKept
<1> QED BY <1>22, <1>26, <1>27 DEF RInv, State

\* The taller tree gets its struct; the key's own path is still to be built.
LEMMA StepGrowTree ==
  ASSUME NEW ht, NEW px, NEW old, State(ht, px, old), IInv, IInv', GrowTree
  PROVE  RInv' /\ MapStep
<1> DEFINE c   == mem.cache
           b   == mem'.cache
           a   == at.node
           key == op.key
           e   == at.h
           u   == 3 - t
           m1  == flush_buffer(mem, Words(a), FALSE)
           s   == Word(TreeLine(u), [root |-> a, height |-> e])
           g   == Store(m1, s)
           N   == 1 .. fresh - 1
           h   == Height(c, t)
           new == NewHeight(key, h)
<1>1. /\ pc = "grow" /\ pc' = "alloc" /\ t' = t /\ fresh' = fresh /\ losses' = losses
      /\ op' = op /\ e = new /\ mem' = flush_buffer(g, {TreeLine(u)}, FALSE)
      /\ at' = [at EXCEPT !.slot = TreeLine(u), !.sub = u]
  BY DEF GrowTree
<1>2. Ground(ht, px, old) /\ Growing(ht, px, old) /\ Owes(mem, Words(a))
  BY <1>1 DEF State, Phase, IInv, Owed
<1>3. /\ Calling /\ h < new /\ at.key = key
      /\ a \in 1 .. fresh - 1 /\ ht[a] = e /\ px[a] = 0
      /\ IF e = h THEN old = fresh ELSE a >= old
      /\ fresh + 2 * MaxHeight <= MaxNodes + 1 + (e - h)
      /\ \A k \in Keys : k < Span(e) => Read(c, a, e, k) = Lookup(c, t, k)
  BY <1>2 DEF Growing
<1>4. /\ N \in SUBSET Nodes /\ Leads(c, ht, px, N) /\ Marked(ht, px) /\ old \in 1 .. fresh
      /\ fresh \in 2 .. MaxNodes + 1 /\ MaxNodes \in Nat /\ 1 .. old - 1 \subseteq N
      /\ h \in 1 .. MaxHeight /\ MaxHeight \in Nat /\ key \in Keys /\ key \in Nat
      /\ t \in Trees /\ u \in Trees /\ u # t
  <2>1. /\ N \in SUBSET Nodes /\ Leads(c, ht, px, N) /\ Marked(ht, px) /\ old \in 1 .. fresh
        /\ fresh \in 2 .. MaxNodes + 1 /\ MaxNodes \in Nat /\ 1 .. old - 1 \subseteq N
    BY <1>2, AllNodes
  <2>2. h \in 1 .. MaxHeight /\ MaxHeight \in Nat /\ t \in Trees
    BY <1>2, HeadsTop
  <2>3. u \in Trees /\ u # t
    BY <2>2 DEF Trees
  <2> QED BY <1>3, <2>1, <2>2, <2>3, CallKey
<1>5. new \in h .. MaxHeight /\ key < Span(new) /\ \A f \in h .. new - 1 : key >= Span(f)
  BY <1>4, NewHeightFits
<1>6. DOMAIN s = {<<0, u>>} /\ s[<<0, u>>] = [root |-> a, height |-> e]
  BY DEF Word, TreeLine
<1> HIDE DEF s
<1>7. Partly(mem, m1) /\ Owes(m1, Words(a) \ Words(a))
  BY <1>2, FlushPartly
<1> HIDE DEF m1
<1>8. Owes(g, (Words(a) \ Words(a)) \cup DOMAIN s) /\ Stored(m1, g, s)
  BY <1>7, StoreWords
<1> HIDE DEF g, h, a, e, new, u
<1>9. /\ e \in 1 .. MaxHeight /\ e \in 0 .. MaxHeight /\ e \in h + 1 .. MaxHeight
      /\ e - 1 \in h .. MaxHeight /\ e - 1 \in 0 .. MaxHeight /\ h \in 0 .. MaxHeight
      /\ key < Span(e) /\ key >= Span(e - 1) /\ e # h
  <2>1. /\ e = new /\ h < new /\ new \in h .. MaxHeight /\ h \in 1 .. MaxHeight /\ MaxHeight \in Nat
        /\ key < Span(new) /\ \A f \in h .. new - 1 : key >= Span(f)
    BY <1>1, <1>3, <1>4, <1>5 DEF e, h, new
  <2> QED BY <2>1
<1>10. Moves(mem, mem') /\ b = g.cache
  <2>1. Partly(g, flush_buffer(g, {TreeLine(u)}, FALSE))
    BY <1>8, FlushPartly
  <2>2. Partly(g, mem')
    BY <1>1, <2>1
  <2>3. /\ b = g.cache /\ m1.cache = mem.cache /\ g.nvm = m1.nvm
        /\ DOMAIN g.cache = DOMAIN mem.cache
        /\ \A o \in DOMAIN mem.cache : DOMAIN g.cache[o] = DOMAIN mem.cache[o]
    BY <1>7, <1>8, <2>2 DEF Partly, Stored
  <2> SUFFICES ASSUME NEW o \in DOMAIN mem.cache, NEW w \in DOMAIN mem.cache[o]
               PROVE  mem'.nvm[o][w] \in {mem.nvm[o][w], mem.cache[o][w], mem'.cache[o][w]}
    BY <2>3 DEF Moves
  <2>4. mem'.nvm[o][w] \in {g.nvm[o][w], g.cache[o][w]}
    BY <2>2, <2>3 DEF Partly
  <2>5. m1.nvm[o][w] \in {mem.nvm[o][w], mem.cache[o][w]}
    BY <1>7 DEF Partly
  <2> QED BY <2>3, <2>4, <2>5
<1>11. \A o \in {0} \cup Nodes : \A w \in Width(o) :
         b[o][w] = IF <<o, w>> = <<0, u>> THEN [root |-> a, height |-> e] ELSE c[o][w]
  <2> SUFFICES ASSUME NEW o \in {0} \cup Nodes, NEW w \in Width(o)
               PROVE  b[o][w] = IF <<o, w>> = <<0, u>> THEN [root |-> a, height |-> e] ELSE c[o][w]
    OBVIOUS
  <2>1. o \in DOMAIN mem.cache /\ w \in DOMAIN mem.cache[o]
    BY <1>2, SameExtended
  <2>2. m1.cache = mem.cache
    BY <1>7 DEF Partly
  <2>3. b[o][w] = IF <<o, w>> \in DOMAIN s THEN s[<<o, w>>] ELSE c[o][w]
    BY <1>8, <1>10, <2>1, <2>2 DEF Stored
  <2> QED BY <1>6, <2>3
<1>12. a \in N /\ a \in Nodes /\ a # NULL
  BY <1>3, <1>4, NullIsNoNode DEF a
<1>13. /\ Root(b, u) = a /\ Height(b, u) = e /\ b[0][t] = c[0][t]
       /\ SameEntries(c, b, N)
  <2>1. b[0][u] = [root |-> a, height |-> e] /\ b[0][t] = c[0][t]
    BY <1>4, <1>11, SlotFacts DEF u
  <2>2. SameEntries(c, b, N)
    BY <1>4, <1>11, SlotFacts DEF SameEntries
  <2> QED BY <2>1, <2>2 DEF Root, Height
<1>14. Puts(c, b, ht, px, fresh') /\ SameEntries(c, b, 1 .. old - 1)
  <2>1. SameEntries(c, b, 1 .. old - 1)
    BY <1>4, <1>13 DEF SameEntries
  <2>2. Sane(ht, px, fresh', 0, u, [root |-> a, height |-> e])
    BY <1>1, <1>3, <1>12 DEF Sane, a, e
  <2>3. Puts(c, b, ht, px, fresh')
    <3> SUFFICES ASSUME NEW o \in {0} \cup Nodes, NEW w \in Width(o)
                 PROVE  b[o][w] = c[o][w] \/ Sane(ht, px, fresh', o, w, b[o][w])
      BY DEF Puts
    <3>1. CASE <<o, w>> = <<0, u>>
      <4>1. o = 0 /\ w = u /\ b[o][w] = [root |-> a, height |-> e]
        BY <1>11, <3>1
      <4> QED BY <2>2, <4>1
    <3>2. CASE <<o, w>> # <<0, u>>
      BY <1>11, <3>2
    <3> QED BY <3>1, <3>2
  <2> QED BY <2>1, <2>3
<1>15. /\ Ground(ht, px, old)'
       /\ \A k \in Keys : Lookup(mem'.cache, t', k) = Lookup(mem.cache, t, k)
       /\ Content(mem'.cache, t') = Content(mem.cache, t)
       /\ Height(b, t') = h
  <2>1. losses' \in 0 .. MaxLosses /\ t \in Trees
    BY <1>1, <1>2 DEF Ground
  <2>2. Owes(mem', Owed(pc', at'))
    BY DEF IInv
  <2>3. mem'.cache[0][t] = mem.cache[0][t]
    BY <1>13
  <2>4. Marked(ht, px) /\ Extended(ht, px, ht, px, fresh) /\ fresh' \in fresh .. MaxNodes + 1
    BY <1>1, <1>2, SameExtended
  <2>5. /\ Ground(ht, px, old)'
        /\ \A k \in Keys : Lookup(mem'.cache, t', k) = Lookup(mem.cache, t, k)
        /\ Content(mem'.cache, t') = Content(mem.cache, t)
    BY <1>1, <1>2, <1>10, <1>14, <2>1, <2>2, <2>3, <2>4, GroundKept
  <2> QED BY <1>1, <2>3, <2>5 DEF Height, h
<1>16. at'.node = a /\ at'.key = at.key /\ at'.h = e /\ at'.slot = TreeLine(u) /\ at'.sub = u
  BY <1>1 DEF IInv, a, e
<1>17. Top' = a
  BY <1>13, <1>16 DEF Top, TreeLine
<1>18. \A k \in Keys : k \in Nat /\ (Above(k, e) = 0 <=> k < Span(e))
  BY <1>9, BelowSpan, RadixSizes
<1>19. ASSUME NEW k \in Keys, k < Span(e) PROVE Read(b, a, e, k) = Lookup(b, t', k)
  <2>1. Way(c, ht, px, N, a, e, k)
    BY <1>3, <1>4, <1>12, <1>18, <1>19 DEF Way, a, e
  <2>2. Agrees(b, c, ht, px, N, k, 1, e)
    <3>1. ASSUME NEW m \in N PROVE Digit(k, ht[m]) \in Slots
      <4>1. ht[m] \in 1 .. MaxHeight
        BY <1>4 DEF Marked
      <4> QED BY <1>18, <4>1, DigitOfKey
    <3> QED BY <1>13, <3>1 DEF Agrees, SameEntries
  <2>3. Read(b, a, e, k) = Read(c, a, e, k)
    BY <2>1, <2>2, ReadSame
  <2>4. Read(c, a, e, k) = Lookup(c, t, k)
    BY <1>3, <1>19 DEF a, e
  <2> QED BY <1>15, <2>3, <2>4
<1>20. ASSUME NEW k \in Keys, Above(k, e - 1) = Above(key, e - 1) PROVE Lookup(b, t', k) = NULL
  <2>1. /\ k \in Nat /\ key \in Nat /\ Span(e - 1) \in Nat /\ Span(h) \in Nat
        /\ Span(h) <= Span(e - 1)
    BY <1>4, <1>9, <1>18, SpanMonotone, RadixSizes
  <2>2. Above(key, e - 1) # 0
    BY <1>9, <2>1, BelowSpan
  <2>3. ~(k < Span(e - 1))
    BY <1>9, <1>20, <2>1, <2>2, BelowSpan
  <2>4. k >= Span(h)
    BY <2>1, <2>3
  <2>5. Lookup(c, t, k) = NULL
    BY <2>4, LookupRead DEF h
  <2> QED BY <1>15, <2>5
<1>21. Allocating(ht, px, old)'
  <2>1. Above(key, e) = 0 /\ key = key % Span(e)
    <3>1. Span(e) \in Nat /\ Span(e) > 0
      BY <1>9, RadixSizes
    <3>2. key \in Keys /\ key \in Nat
      BY <1>4
    <3> QED BY <1>9, <1>18, <3>1, <3>2
  <2>2. ht[Top'] = e /\ px[Top'] = 0
    BY <1>3, <1>17 DEF a, e
  <2>3. a \in old .. fresh - 1
    <3>1. a >= old
      BY <1>3, <1>9 DEF a, e, h
    <3> QED BY <1>4, <1>12, <3>1
  <2>4. ForTree(ht)'
    <3>1. Height(b, t') <= ht[Top']
      BY <1>9, <1>15, <2>2
    <3>2. op'.key < Span(ht[Top'])
      BY <1>1, <1>9, <2>2
    <3>3. at'.sub = 3 - t' /\ at'.slot = TreeLine(at'.sub)
      BY <1>1, <1>16 DEF u
    <3> QED BY <3>1, <3>2, <3>3 DEF ForTree
  <2>5. Building(ht, px, old)'
    <3>1. Top' \in old .. fresh' - 1 /\ px[Top'] = Above(key, ht[Top'])
      BY <1>1, <1>17, <2>1, <2>2, <2>3
    <3>2. \A k \in Keys : k # key /\ Above(k, ht[Top']) = px[Top']
                           => Read(b, Top', ht[Top'], k) = Lookup(b, t', k)
      BY <1>17, <1>18, <1>19, <2>2
    <3> QED BY <1>1, <1>3, <2>4, <3>1, <3>2 DEF Building, Calling
  <2>6. at'.node \in old .. fresh' - 1 /\ ht[at'.node] = at'.h /\ px[at'.node] = Above(key, at'.h)
    BY <1>1, <1>16, <1>17, <2>1, <2>2, <2>3
  <2>7. at'.h <= ht[Top'] /\ at'.key = key % Span(at'.h)
    BY <1>3, <1>9, <1>16, <2>1, <2>2
  <2>8. fresh' + at'.h <= MaxNodes + 2
    <3>1. /\ fresh + 2 * MaxHeight <= MaxNodes + 1 + (e - h) /\ e \in 1 .. MaxHeight /\ h \in 0 .. MaxHeight
          /\ fresh \in Nat /\ MaxNodes \in Nat /\ MaxHeight \in Nat /\ fresh' = fresh /\ at'.h = e
      BY <1>1, <1>3, <1>4, <1>9, <1>16 DEF e, h
    <3> QED BY <3>1
  <2>9. Walk(b, Top', ht[Top'], key)[at'.h] = at'.node
    BY <1>9, <1>16, <1>17, <2>2, WalkTop
  <2>10. \A k \in Keys : Above(k, at'.h - 1) = Above(key, at'.h - 1) => Lookup(b, t', k) = NULL
    BY <1>16, <1>20
  <2> QED BY <1>1, <2>5, <2>6, <2>7, <2>8, <2>9, <2>10 DEF Allocating
<1>22. Phase(ht, px, old)'
  BY <1>1, <1>21 DEF Phase
<1>23. MapStep
  BY <1>1, <1>2, <1>15, MapKept
<1> QED BY <1>15, <1>22, <1>23 DEF RInv, State

\* To put a value where it stands changes nothing.
LEMMA PutTwice ==
  ASSUME NEW c, NEW s, NEW key \in Keys, NEW v, NEW kv, kv = [Content(c, s) EXCEPT ![key] = v]
  PROVE  kv = [kv EXCEPT ![key] = v]
<1> DEFINE kw == Content(c, s)
<1>1. kw = [k \in Keys |-> Lookup(c, s, k)]
  BY DEF Content
<1>2. kv = [kw EXCEPT ![key] = v]
  OBVIOUS
<1> HIDE DEF kw
<1> QED BY <1>1, <1>2

\* The taller tree is handed to the caller: one store, of the handle.
LEMMA PublishTree ==
  ASSUME ClflushOrdered, NEW ht, NEW px, NEW old, State(ht, px, old), IInv, Publish, ForTree(ht)
  PROVE  RInv' /\ MapStep
<1> DEFINE c   == mem.cache
           u   == at.sub
           key == op.key
           g   == ht[Top]
           N   == 1 .. old - 1
           M   == 1 .. fresh - 1
<1>1. /\ pc = "publish" /\ pc' = "commit" /\ fresh' = fresh /\ losses' = losses /\ op' = op
      /\ Ground(ht, px, old) /\ Publishing(ht, px, old) /\ Owes(mem, {})
  BY DEF Publish, State, Phase, IInv, Owed
<1>2. u = 3 - t /\ at.slot = <<0, u>> /\ key < Span(g) /\ Height(c, t) <= g
  BY DEF ForTree, TreeLine
<1>3. t' = u /\ mem' = mem /\ Top = Root(c, u)
  BY <1>2 DEF Publish, Top
<1>4. mem.nvm = c
  BY <1>1, Clean
<1>5. /\ Calling /\ Top \in old .. fresh - 1 /\ px[Top] = Above(key, g)
      /\ \A k \in Keys : k # key /\ Above(k, g) = px[Top] => Read(c, Top, g, k) = Lookup(c, t, k)
      /\ Read(c, Top, g, key) = op.value
  BY <1>1 DEF Publishing, Building
<1>6. /\ M \in SUBSET Nodes /\ Leads(c, ht, px, M) /\ N \subseteq M /\ Marked(ht, px)
      /\ fresh \in 2 .. MaxNodes + 1 /\ old \in 1 .. fresh /\ \A n \in M : ht[n] \in 1 .. MaxHeight
      /\ Top \in M /\ key \in Keys
  <2>1. /\ M \in SUBSET Nodes /\ Leads(c, ht, px, M) /\ N \subseteq M /\ Marked(ht, px)
        /\ fresh \in 2 .. MaxNodes + 1 /\ old \in 1 .. fresh /\ \A n \in M : ht[n] \in 1 .. MaxHeight
    BY <1>1, AllNodes
  <2>2. Top \in M
    BY <1>5, <2>1
  <2> QED BY <1>5, <2>1, <2>2, CallKey
<1>7. u \in Trees /\ Height(c, u) = g /\ px[Top] = 0
  <2>1. u \in Trees
    BY <1>1, <1>2 DEF Ground, Trees
  <2>2. Root(c, u) # NULL
    BY <1>3, <1>6, NullIsNoNode
  <2> QED BY <1>1, <1>3, <2>1, <2>2, TidyTree DEF Ground
<1>8. g \in 1 .. MaxHeight /\ g \in 0 .. MaxHeight /\ g \in Height(c, t) .. MaxHeight
  <2>1. g \in 1 .. MaxHeight
    BY <1>6
  <2>2. Height(c, t) \in 1 .. MaxHeight /\ MaxHeight \in Nat
    BY <1>1, HeadsTop
  <2> HIDE DEF g
  <2> QED BY <1>2, <2>1, <2>2
<1>9. Content(c, u) = [Content(c, t) EXCEPT ![key] = op.value]
  <2>1. Heads(c, t, ht, px, N)
    BY <1>1, GroundHeads
  <2>2. \A k \in Keys : k < Span(g) => k = key \/ Read(c, Root(c, u), g, k) = Lookup(c, t, k)
    BY <1>3, <1>5, <1>7, <1>8, BelowSpan, RadixSizes
  <2>3. g = Height(c, u) /\ key < Span(g)
    BY <1>2, <1>7
  <2> HIDE DEF u, g, key, N, c
  <2>4. Content(c, u) = [Content(c, t) EXCEPT ![key] = Read(c, Root(c, u), g, key)]
    BY <1>6, <1>8, <2>1, <2>2, <2>3, PutTree
  <2>5. Read(c, Root(c, u), g, key) = op.value
    BY <1>3, <1>5 DEF g
  <2> QED BY <2>4, <2>5
<1>10. Ground(ht, px, fresh)'
  <2>1. /\ losses \in 0 .. MaxLosses /\ Tidy(c, ht, px, fresh) /\ fresh \in 1 .. fresh
    BY <1>1, <1>6 DEF Ground
  <2> QED BY <1>1, <1>3, <1>4, <1>6, <1>7, <2>1 DEF Ground
<1>11. Content(mem'.nvm, t') = [Content(mem.nvm, t) EXCEPT ![key] = op.value]
       /\ Content(mem'.cache, t') = Content(mem'.nvm, t')
  BY <1>3, <1>4, <1>9
<1>12. Phase(ht, px, fresh)'
  <2> DEFINE kv == Content(mem'.nvm, t')
  <2>1. kv = [Content(mem.nvm, t) EXCEPT ![key] = op.value] /\ Content(mem'.cache, t') = kv
    BY <1>11
  <2> HIDE DEF kv
  <2>2. kv = [kv EXCEPT ![key] = op.value]
    BY <1>6, <2>1, PutTwice
  <2> QED BY <1>1, <1>5, <2>1, <2>2 DEF Phase, Calling, kv
<1>13. Map!Take
  BY <1>1, <1>5, <1>11 DEF Map!Take, Map!Effect, Calling
<1> QED BY <1>10, <1>12, <1>13 DEF RInv, State, MapStep, Map!Next

\* The subtree is handed over: one store, of the entry that leads to it.
LEMMA PublishEntry ==
  ASSUME ClflushOrdered, NEW ht, NEW px, NEW old, State(ht, px, old), IInv, IInv', Publish,
         NEW n \in 1 .. old - 1, ForEntry(ht, n)
  PROVE  RInv' /\ MapStep
<1> DEFINE c   == mem.cache
           b   == mem'.cache
           key == op.key
           d   == Digit(key, ht[n])
           h   == Height(c, t)
           r   == Root(c, t)
           N   == 1 .. old - 1
           M   == 1 .. fresh - 1
           s   == Word(<<n, d>>, at.sub)
           f   == Store(mem, s)
<1>1. /\ pc = "publish" /\ pc' = "commit" /\ fresh' = fresh /\ losses' = losses /\ op' = op
      /\ Ground(ht, px, old) /\ Publishing(ht, px, old) /\ Owes(mem, {})
  BY DEF Publish, State, Phase, IInv, Owed
<1>2. /\ at.slot = <<n, d>> /\ c[n][d] = NULL /\ ht[n] = ht[Top] + 1 /\ key < Span(h)
      /\ ht[n] <= h /\ Walk(c, r, h, key)[ht[n]] = n
  BY DEF ForEntry
<1>3. n # 0 /\ n \in Nat
  BY DEF Ground
<1>4. Top = at.sub /\ t' = t /\ mem' = f
  BY <1>2, <1>3 DEF Publish, Top
<1>5. PICK x : x = Top
  OBVIOUS
<1>6. mem.nvm = c
  BY <1>1, Clean
<1>7. /\ Calling /\ x \in old .. fresh - 1 /\ px[x] = Above(key, ht[x])
      /\ \A k \in Keys : k # key /\ Above(k, ht[x]) = px[x] => Read(c, x, ht[x], k) = Lookup(c, t, k)
      /\ Read(c, x, ht[x], key) = op.value
  BY <1>1, <1>5 DEF Publishing, Building
<1>8. /\ M \in SUBSET Nodes /\ Leads(c, ht, px, M) /\ N \subseteq M /\ Marked(ht, px)
      /\ fresh \in 2 .. MaxNodes + 1 /\ old \in 1 .. fresh /\ \A m \in M : ht[m] \in 1 .. MaxHeight
      /\ x \in M /\ n \in M /\ key \in Keys /\ key \in Nat
  <2>1. /\ M \in SUBSET Nodes /\ Leads(c, ht, px, M) /\ N \subseteq M /\ Marked(ht, px)
        /\ fresh \in 2 .. MaxNodes + 1 /\ old \in 1 .. fresh /\ \A m \in M : ht[m] \in 1 .. MaxHeight
    BY <1>1, AllNodes
  <2>2. x \in M
    BY <1>7, <2>1
  <2> QED BY <1>7, <2>1, <2>2, CallKey
<1>9. /\ h \in 1 .. MaxHeight /\ MaxHeight \in Nat /\ Heads(c, t, ht, px, N)
      /\ Way(c, ht, px, N, r, h, key) /\ t \in Trees
  <2>1. h \in 1 .. MaxHeight /\ MaxHeight \in Nat /\ Heads(c, t, ht, px, N) /\ t \in Trees
    BY <1>1, HeadsTop, GroundHeads
  <2> QED BY <1>2, <1>8, <2>1, HeadsWay
<1>10. /\ ht[x] \in 1 .. MaxHeight /\ ht[n] \in 1 .. MaxHeight /\ ht[n] = ht[x] + 1 /\ ht[n] - 1 = ht[x]
       /\ ht[n] \in 1 .. h /\ ht[n] \in 2 .. h
  <2>1. /\ ht[x] \in 1 .. MaxHeight /\ ht[n] \in 1 .. MaxHeight /\ ht[n] = ht[x] + 1 /\ ht[n] <= h
        /\ h \in 1 .. MaxHeight /\ MaxHeight \in Nat
    BY <1>2, <1>5, <1>8, <1>9
  <2> HIDE DEF h
  <2> QED BY <2>1
<1>11. /\ d \in Slots /\ Above(key, ht[x]) = Above(key, ht[n]) * NUM_ENTRY + d
  BY <1>8, <1>10, DigitOfKey
<1>12. px[n] = Above(key, ht[n])
  <2> DEFINE w == Walk(c, r, h, key)
  <2>1. \A j \in 1 .. h : Passes(ht, px, N, key, j, w[j])
    BY <1>9, WalkPasses
  <2>2. n = w[ht[n]]
    BY <1>2
  <2>3. n # NULL
    BY <1>8, NullIsNoNode
  <2> HIDE DEF w, h
  <2> QED BY <1>10, <2>1, <2>2, <2>3 DEF Passes
<1>13. DOMAIN s = {<<n, d>>} /\ s[<<n, d>>] = x
  BY <1>4, <1>5 DEF Word
<1> HIDE DEF s
<1>14. Owes(f, {} \cup DOMAIN s) /\ Stored(mem, f, s)
  BY <1>1, StoreWords
<1> HIDE DEF f, d
<1>15. \A o \in {0} \cup Nodes : \A w \in Width(o) :
         b[o][w] = IF <<o, w>> = <<n, d>> THEN x ELSE c[o][w]
  BY <1>1, <1>4, <1>13, <1>14, SameExtended DEF Stored
<1>16. Moves(mem, mem')
  BY <1>4, <1>14 DEF Moves, Stored
<1>17. Puts(c, b, ht, px, fresh')
  <2>1. Sane(ht, px, fresh, n, d, x)
    <3>1. ht[x] = ht[n] - 1 /\ px[x] = px[n] * NUM_ENTRY + d
      BY <1>7, <1>10, <1>11, <1>12
    <3>2. n < fresh /\ d # PARENT_PTR /\ d # P_INDEX
      BY <1>8, <1>11, SlotFacts
    <3> QED BY <1>3, <1>8, <3>1, <3>2 DEF Sane
  <2> SUFFICES ASSUME NEW o \in {0} \cup Nodes, NEW w \in Width(o)
               PROVE  b[o][w] = c[o][w] \/ Sane(ht, px, fresh, o, w, b[o][w])
    BY <1>1 DEF Puts
  <2>2. CASE <<o, w>> = <<n, d>>
    BY <1>15, <2>1, <2>2
  <2>3. CASE <<o, w>> # <<n, d>>
    BY <1>15, <2>3
  <2> QED BY <2>2, <2>3
<1>18. Tidy(mem'.cache, ht, px, fresh') /\ Tidy(mem'.nvm, ht, px, fresh')
  <2>1. Tidy(mem.cache, ht, px, fresh) /\ Tidy(mem.nvm, ht, px, fresh)
    BY <1>1 DEF Ground
  <2>2. Marked(ht, px) /\ Extended(ht, px, ht, px, fresh) /\ fresh' \in fresh .. MaxNodes + 1
        /\ fresh \in 1 .. MaxNodes + 1
    BY <1>1, <1>8, SameExtended, RadixAssumption
  <2>3. Owes(mem', {} \cup DOMAIN s)
    BY <1>4, <1>14
  <2> QED BY <1>16, <1>17, <2>1, <2>2, <2>3, StepTidy
<1>19. ButFor(b, c, M, n, d) /\ b[n][d] = x /\ \A v \in Trees : b[0][v] = c[0][v]
  <2>1. ButFor(b, c, M, n, d)
    BY <1>8, <1>15, SlotFacts DEF ButFor
  <2>2. b[n][d] = x
    BY <1>8, <1>11, <1>15, SlotFacts
  <2>3. \A v \in Trees : b[0][v] = c[0][v]
    BY <1>3, <1>15, SlotFacts
  <2> QED BY <2>1, <2>2, <2>3
<1>20. mem'.nvm = c
  BY <1>4, <1>6, <1>14 DEF Stored
<1>21. Ground(ht, px, fresh)'
  <2>1. fresh \in 1 .. MaxNodes + 1 /\ fresh \in 1 .. fresh /\ MaxNodes \in Nat
    BY <1>8, RadixAssumption
  <2>2. Leads(b, ht, px, M)
    BY <1>1, <1>8, <1>18, <2>1, TidyLeads
  <2>3. Root(b, t) \in M /\ mem'.nvm[0][t] = b[0][t]
    <3>1. r \in N
      BY <1>1 DEF Ground
    <3>2. Root(b, t) = r
      BY <1>9, <1>19 DEF Root
    <3> QED BY <1>8, <1>9, <1>19, <1>20, <3>1, <3>2
  <2>4. losses \in 0 .. MaxLosses
    BY <1>1 DEF Ground
  <2> QED BY <1>1, <1>4, <1>8, <1>9, <1>18, <2>1, <2>2, <2>3, <2>4 DEF Ground
<1>22. ASSUME NEW k \in Keys, Above(k, ht[x]) = Above(key, ht[x]) PROVE Read(b, x, ht[x], k) = Read(c, x, ht[x], k)
  <2>1. k \in Nat
    BY RadixSizes
  <2>2. Way(c, ht, px, M, x, ht[x], k)
    BY <1>7, <1>8, <1>22, <2>1 DEF Way
  <2>3. Agrees(b, c, ht, px, M, k, 1, ht[x])
    <3> SUFFICES ASSUME NEW m \in M, ht[m] \in 1 .. ht[x]
                 PROVE  b[m][Digit(k, ht[m])] = c[m][Digit(k, ht[m])]
      BY DEF Agrees
    <3>1. m # n
      BY <1>10
    <3>2. Digit(k, ht[m]) \in Slots
      BY <1>8, <2>1, DigitOfKey
    <3> QED BY <1>19, <3>1, <3>2 DEF ButFor
  <2> QED BY <2>2, <2>3, ReadSame
<1>23. Content(b, t) = [Content(c, t) EXCEPT ![key] = op.value]
  <2> DEFINE g == ht[n]
  <2>1. /\ g \in 2 .. h /\ g - 1 = ht[x] /\ n = Walk(c, r, h, key)[g] /\ n \in Nodes /\ x \in Nodes
        /\ b[0][t] = c[0][t] /\ b[n][Digit(key, g)] = x /\ ButFor(b, c, N, n, Digit(key, g))
        /\ key \in Keys /\ key < Span(h) /\ Heads(c, t, ht, px, N)
    <3>1. ButFor(b, c, N, n, d)
      BY <1>8, <1>19 DEF ButFor
    <3> QED BY <1>2, <1>8, <1>9, <1>10, <1>19, <3>1 DEF d
  <2>2. \A k \in Keys : Above(k, ht[x]) = Above(key, ht[x]) =>
          k = key \/ Read(b, x, ht[x], k) = Lookup(c, t, k)
    BY <1>7, <1>22
  <2>3. Read(b, x, ht[x], key) = op.value
    BY <1>7, <1>8, <1>22
  <2> HIDE DEF g, c, b, N, key
  <2>4. \A k \in Keys : Above(k, g - 1) = Above(key, g - 1) =>
          k = key \/ Read(b, x, g - 1, k) = Lookup(c, t, k)
    BY <2>1, <2>2
  <2>5. Content(b, t) = [Content(c, t) EXCEPT ![key] = Read(b, x, g - 1, key)]
    BY <2>1, <2>4, PutEntry DEF h, r
  <2> QED BY <2>1, <2>3, <2>5
<1>24. Content(mem'.nvm, t') = Content(mem.nvm, t)
  BY <1>4, <1>6, <1>20
<1>25. Phase(ht, px, fresh)'
  BY <1>1, <1>4, <1>7, <1>20, <1>23 DEF Phase, Calling
<1>26. MapStep
  BY <1>1, <1>24 DEF MapStep
<1> QED BY <1>21, <1>25, <1>26 DEF RInv, State

\* The delayed commit (196 to 206 and 250 to 264).
LEMMA StepPublish ==
  ASSUME ClflushOrdered, NEW ht, NEW px, NEW old, State(ht, px, old), IInv, IInv', Publish
  PROVE  RInv' /\ MapStep
<1>1. ForTree(ht) \/ \E n \in 1 .. old - 1 : ForEntry(ht, n)
  BY DEF Publish, State, Phase, Publishing, Building
<1> QED BY <1>1, PublishTree, PublishEntry

\* A tree of one empty leaf shows the empty map.
LEMMA InitState ==
  ASSUME Init
  PROVE  RInv /\ Content(mem.nvm, t) = [k \in Keys |-> NULL] /\ op = NoOp
<1> DEFINE c  == mem.cache
           ht == [n \in Nodes |-> 1]
           px == [n \in Nodes |-> 0]
<1>1. /\ c = [Blank EXCEPT ![0][1] = [root |-> 1, height |-> 1]] /\ mem.nvm = c
      /\ t = 1 /\ fresh = 2 /\ op = NoOp /\ pc = "idle" /\ losses = 0
  BY DEF Init, Formatted
<1>2. DOMAIN c = {0} \cup Nodes /\ 1 \in Nodes /\ 0 \notin Nodes /\ MaxNodes \in Nat /\ MaxNodes >= 1
  BY <1>1, RadixAssumption DEF Blank, Nodes
<1>3. /\ DOMAIN c[0] = Trees /\ c[0][1] = [root |-> 1, height |-> 1]
      /\ c[0][2] = [root |-> NULL, height |-> 0]
  BY <1>1 DEF Blank, Trees
<1>4. \A n \in Nodes : c[n] = [w \in Offsets |-> IF w = P_INDEX THEN 0 ELSE NULL]
  BY <1>1, <1>2 DEF Blank, Offsets
<1>5. 1 \in 1 .. MaxHeight /\ 0 \in Nat
  BY RadixSizes
<1>6. Marked(ht, px) /\ \A n \in Nodes : ht[n] = 1 /\ px[n] = 0
  BY <1>5 DEF Marked
<1> HIDE DEF ht, px, c
<1>7. Tidy(c, ht, px, 2)
  <2>1. ASSUME NEW w \in Trees PROVE Sane(ht, px, 2, 0, w, c[0][w])
    <3>1. CASE w = 1
      <4>1. c[0][w].root = 1 /\ c[0][w].height = 1 /\ 1 \in 1 .. 2 - 1
        BY <1>3, <3>1
      <4> QED BY <1>2, <1>6, <4>1 DEF Sane
    <3>2. CASE w = 2
      <4>1. c[0][w].root = NULL /\ c[0][w].height = 0
        BY <1>3, <3>2
      <4> QED BY <4>1 DEF Sane
    <3> QED BY <3>1, <3>2 DEF Trees
  <2>2. ASSUME NEW n \in Nodes, NEW w \in Offsets PROVE Sane(ht, px, 2, n, w, c[n][w])
    BY <1>2, <1>4, SlotFacts DEF Sane
  <2>3. Width(0) = Trees /\ \A n \in Nodes : Width(n) = Offsets /\ DOMAIN c[n] = Offsets
    BY <1>4, SlotFacts
  <2> QED BY <1>2, <1>3, <2>1, <2>2, <2>3 DEF Tidy
<1>8. Root(c, 1) = 1 /\ Height(c, 1) = 1
  BY <1>3 DEF Root, Height
<1>9. Ground(ht, px, 2)
  <2>1. Leads(c, ht, px, 1 .. 2 - 1)
    BY <1>2, <1>6 DEF Leads
  <2>2. t \in Trees /\ fresh \in 2 .. MaxNodes + 1 /\ losses \in 0 .. MaxLosses
        /\ 2 \in 1 .. fresh /\ 1 \in 1 .. 2 - 1
    BY <1>1, <1>2, RadixAssumption DEF Trees
  <2> QED BY <1>1, <1>6, <1>7, <1>8, <2>1, <2>2 DEF Ground, c
<1>10. Phase(ht, px, 2)
  BY <1>1 DEF Phase
<1>11. ASSUME NEW k \in Keys PROVE Lookup(c, 1, k) = NULL
  <2>1. Digit(k, 1) \in Offsets /\ Digit(k, 1) # P_INDEX
    BY <1>5, DigitOfKey, SlotFacts, RadixSizes
  <2>2. Read(c, 1, 1, k) = NULL
    BY <1>2, <1>4, <2>1, ReadLeaf, NullIsNoNode
  <2> QED BY <1>8, <2>2, LookupRead
<1>12. Content(c, 1) = [k \in Keys |-> NULL]
  BY <1>11 DEF Content
<1> QED BY <1>1, <1>9, <1>10, <1>12 DEF RInv, State, c

\* Every step keeps the invariant and is one of the map's, or none.
LEMMA RStep ==
  ASSUME ClflushOrdered
  PROVE  IInv /\ RInv /\ [Next]_vars => RInv' /\ MapStep
<1> SUFFICES ASSUME IInv, RInv, [Next]_vars PROVE RInv' /\ MapStep
  OBVIOUS
<1>1. IInv'
  BY NextIInv
<1>2. PICK ht, px, old : State(ht, px, old)
  BY DEF RInv
<1>3. ASSUME NEW k \in Keys, NEW v \in Values, Insert(k, v) PROVE RInv' /\ MapStep
  BY <1>1, <1>2, <1>3, StepInsert
<1>4. ASSUME NEW k \in Keys, NEW v \in Values, Update(k, v) PROVE RInv' /\ MapStep
  <2>1. [kind |-> "Update", key |-> k, value |-> v] \in Map!Ops
    BY DEF Map!Ops
  <2> QED BY <1>2, <1>4, <2>1, StepOverwrite DEF Update
<1>5. ASSUME NEW k \in Keys, Delete(k) PROVE RInv' /\ MapStep
  <2>1. [kind |-> "Delete", key |-> k, value |-> NULL] \in Map!Ops
    BY DEF Map!Ops
  <2> QED BY <1>2, <1>5, <2>1, StepOverwrite DEF Delete
<1>6. CASE Step
  <2>1. CASE GrowRoot
    BY <1>1, <1>2, <2>1, StepGrowRoot
  <2>2. CASE GrowTree
    BY <1>1, <1>2, <2>2, StepGrowTree
  <2>3. CASE SearchInner
    BY <1>1, <1>2, <2>3, StepSearchInner
  <2>4. CASE SearchLeaf
    BY <1>1, <1>2, <2>4, StepSearchLeaf
  <2>5. CASE SearchMissing
    BY <1>1, <1>2, <2>5, StepSearchMissing
  <2>6. CASE AllocInner
    BY <1>1, <1>2, <2>6, StepAllocInner
  <2>7. CASE AllocLeaf
    BY <1>1, <1>2, <2>7, StepAllocLeaf
  <2>8. CASE Publish
    BY <1>1, <1>2, <2>8, StepPublish
  <2>9. CASE Commit
    BY <1>1, <1>2, <2>9, StepCommit
  <2>10. CASE Return
    BY <1>2, <2>10, StepReturn
  <2>11. CASE Restart
    BY <1>2, <2>11, StepRestart
  <2> QED BY <1>6, <2>1, <2>2, <2>3, <2>4, <2>5, <2>6, <2>7, <2>8, <2>9, <2>10, <2>11 DEF Step
<1>7. CASE Evict
  BY <1>2, <1>7, StepEvict
<1>8. CASE PowerLost
  BY <1>2, <1>8, StepPowerLost
<1>9. CASE UNCHANGED vars
  BY <1>2, <1>9, StepNothing
<1> QED BY <1>3, <1>4, <1>5, <1>6, <1>7, <1>8, <1>9 DEF Next

\* The nodes of the tree are in their places, and what is built off line shows what
\* it replaces, at every step of Insert, Update and Delete (art_d.c 104 to 302, 439 to 464).
THEOREM Reachable ==
  ASSUME ClflushOrdered
  PROVE  Spec => [](IInv /\ RInv)
<1>1. Init => IInv /\ RInv
  BY InitIInv, InitState
<1>2. (IInv /\ RInv) /\ [Next]_vars => (IInv /\ RInv)'
  BY NextIInv, RStep
<1> QED BY <1>1, <1>2, PTL DEF Spec

\* Where clflush is ordered, the tree is an atomic durable map: with power lost at
\* any step and lines replaced at any time, the medium shows the old map or the new
\* one, and the new one once Insert, Update or Delete has returned (187, 206, 264, 300, 461).
THEOREM Implements ==
  ASSUME ClflushOrdered
  PROVE  Spec => ImplementsDurableMap
<1>1. Init => Map!Init
  BY InitState DEF Map!Init, Map!NoOp, NoOp
<1>2. IInv /\ RInv /\ [Next]_vars => [Map!Next]_(Map!vars)
  BY RStep DEF MapStep, Map!vars
<1> QED BY <1>1, <1>2, Reachable, PTL DEF Spec, ImplementsDurableMap, Map!Spec

\* Where clflush is ordered, heights, indices, roots and parent pointers stay in range
\* in the cache and on the medium, whatever line is replaced when (allocNode, CoW_Tree,
\* increase_radix_tree_height).
THEOREM Typed ==
  ASSUME ClflushOrdered
  PROVE  Spec => []TypeOK
<1>1. RInv => TypeOK
  <2> SUFFICES ASSUME RInv PROVE TypeOK
    OBVIOUS
  <2>1. PICK ht, px, old : State(ht, px, old)
    BY DEF RInv
  <2>2. /\ Marked(ht, px) /\ t \in Trees /\ fresh \in 2 .. MaxNodes + 1 /\ losses \in 0 .. MaxLosses
        /\ Tidy(mem.cache, ht, px, fresh) /\ Tidy(mem.nvm, ht, px, fresh)
    BY <2>1 DEF State, Ground
  <2>3. /\ pc \in {"idle", "grow", "search", "alloc", "publish", "commit", "return", "down"}
        /\ IF pc = "idle" THEN op = NoOp ELSE IF pc = "down" THEN op = Down ELSE op \in Map!Ops
    BY <2>1 DEF State, Phase, Searching, Growing, Allocating, Publishing, Building, Calling
  <2>4. \A o \in Map!Ops : o.kind \in {"Insert", "Update", "Delete"}
    BY DEF Map!Ops
  <2>5. NoOp.kind = "none" /\ Down.kind = "down"
    BY DEF NoOp, Down
  <2>6. op \in Map!Ops \cup {NoOp, Down} /\ (pc = "idle") = (op = NoOp) /\ (pc = "down") = (op = Down)
    BY <2>3, <2>4, <2>5
  <2>7. ASSUME NEW c, Tidy(c, ht, px, fresh)
        PROVE  /\ \A s \in Trees : Root(c, s) \in Nodes \cup {NULL} /\ Height(c, s) \in 0 .. MaxHeight
               /\ \A n \in Nodes : c[n][P_INDEX] \in 0 .. NUM_ENTRY - 1
               /\ \A n \in Nodes : c[n][PARENT_PTR] \in Nodes \cup {NULL}
    <3>1. ASSUME NEW s \in Trees
          PROVE  Root(c, s) \in Nodes \cup {NULL} /\ Height(c, s) \in 0 .. MaxHeight
      <4>1. Sane(ht, px, fresh, 0, s, c[0][s])
        BY <2>7, SlotFacts DEF Tidy
      <4>2. 1 .. fresh - 1 \subseteq Nodes /\ MaxHeight \in Nat
        BY <2>2, RadixAssumption, RadixSizes DEF Nodes
      <4>3. CASE c[0][s].root = NULL /\ c[0][s].height = 0
        BY <4>2, <4>3 DEF Root, Height
      <4>4. CASE c[0][s].root \in 1 .. fresh - 1 /\ c[0][s].height = ht[c[0][s].root]
        BY <2>2, <4>2, <4>4 DEF Root, Height, Marked
      <4> QED BY <4>1, <4>3, <4>4 DEF Sane
    <3>2. ASSUME NEW n \in Nodes
          PROVE  c[n][P_INDEX] \in 0 .. NUM_ENTRY - 1 /\ c[n][PARENT_PTR] \in Nodes \cup {NULL}
      <4>1. Sane(ht, px, fresh, n, P_INDEX, c[n][P_INDEX]) /\ Sane(ht, px, fresh, n, PARENT_PTR, c[n][PARENT_PTR])
        BY <2>7, SlotFacts DEF Tidy
      <4> QED BY <4>1, SlotFacts DEF Sane, Slots
    <3> QED BY <3>1, <3>2
  <2> QED BY <2>2, <2>3, <2>6, <2>7 DEF TypeOK
<1> QED BY <1>1, Reachable, PTL
=============================================================================
