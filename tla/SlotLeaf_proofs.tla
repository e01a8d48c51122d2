--------------------------- MODULE SlotLeaf_proofs ---------------------------
(***************************************************************************)
(* Proofs about a leaf of the slot-only wB+tree, for any keys and node     *)
(* size.  A node is kept by its slot word alone, so the argument is about  *)
(* the order of the slots: the binary search finds a key's place in a      *)
(* sorted node (its loop by induction on the slots left), the free         *)
(* position Append computes is one no slot names, and a split's loop ends  *)
(* with the upper entries in order as long as it moves at most three (with *)
(* four it reads a slot it has yet to fill and overwrites an entry).       *)
(***************************************************************************)
EXTENDS SlotLeaf, FiniteSetTheorems, TLAPS

\* A non-empty set of naturals has a least element.
LEMMA LeastOf ==
  ASSUME NEW S, S \subseteq Nat, S # {}
  PROVE  Min(S) \in S /\ \A m \in S : Min(S) <= m
<1> DEFINE R == OpToRel(<, Nat)
<1>1. \A x, y \in Nat : <<y, x>> \in R <=> y < x
  BY DEF OpToRel
<1>2. IsWellFoundedOn(R, Nat)
  BY NatLessThanWellFounded
<1> HIDE DEF R
<1>3. PICK k \in S : \A m \in S : ~(<<m, k>> \in R)
  BY <1>2, WFMin
<1>4. k \in Nat /\ \A m \in S : m \in Nat
  OBVIOUS
<1>5. \A m \in S : ~(m < k)
  BY <1>1, <1>3, <1>4
<1>6. \A m \in S : k <= m
  BY <1>4, <1>5
<1> QED BY <1>6 DEF Min

\* What passes from each number to the next holds all the way up.
LEMMA Ascent ==
  ASSUME NEW b \in Nat, NEW T, 0 \in T,
         \A j \in 0 .. b - 1 : j \in T => j + 1 \in T
  PROVE  \A j \in 0 .. b : j \in T
<1> DEFINE S == {i \in 0 .. b : i \notin T}
<1>1. S \subseteq Nat
  OBVIOUS
<1>2. ASSUME NEW i \in S, \A m \in S : i <= m PROVE FALSE
  <2>1. i \in 0 .. b /\ i # 0 /\ i \notin T
    BY <1>2
  <2>2. i - 1 \in 0 .. b - 1 /\ i - 1 \notin S
    BY <1>2, <2>1
  <2> QED BY <2>1, <2>2
<1> HIDE DEF S
<1>3. S = {}
  BY <1>1, <1>2, LeastOf
<1> QED BY <1>3 DEF S

-----------------------------------------------------------------------------
(* A node *)

\* The shape of a node and what the binary search needs of it.
Ordered(nd) ==
  /\ nd = [slot |-> nd.slot, ent |-> nd.ent]
  /\ nd.slot \in [Slots -> Slots] /\ DOMAIN nd.ent = Entries
  /\ \A i \in Entries : nd.ent[i].key \in Nat
  /\ \A j \in 1 .. Count(nd) : nd.slot[j] \in Entries
  /\ \A i, j \in 1 .. Count(nd) : i < j => Key(nd, i) < Key(nd, j)

\* Where key goes: behind the smaller keys and before the others.
Place(nd, key, p) ==
  /\ p \in 1 .. Count(nd) + 1
  /\ \A j \in 1 .. Count(nd) : IF j < p THEN Key(nd, j) < key ELSE Key(nd, j) >= key

\* The sizes are positive, and a split leaves both nodes room.
LEMMA Sizes ==
  /\ NODE_SIZE \in Nat /\ NODE_SIZE > 0 /\ 0 \in Slots /\ 0 \in Entries /\ Entries \subseteq Slots
  /\ MIN_LIVE_ENTRIES \in Nat /\ MIN_LIVE_ENTRIES > 0 /\ MIN_LIVE_ENTRIES < NODE_SIZE
  /\ Slots \subseteq Nat
BY NodeAssumption DEF Slots, Entries

\* The slots that are read name positions and keys, no position twice.
LEMMA OrderedCount ==
  ASSUME NEW nd, Ordered(nd)
  PROVE  /\ Count(nd) \in Slots /\ Count(nd) \in Nat /\ Count(nd) <= NODE_SIZE
         /\ \A j \in 1 .. Count(nd) : j \in Slots /\ nd.slot[j] \in Entries /\ Key(nd, j) \in Nat
         /\ \A i, j \in 1 .. Count(nd) : nd.slot[i] = nd.slot[j] => i = j
<1>1. Count(nd) \in Slots
  BY Sizes DEF Ordered, Count
<1>2. Count(nd) \in Nat /\ Count(nd) <= NODE_SIZE
  BY <1>1, Sizes DEF Slots
<1>3. \A j \in 1 .. Count(nd) : j \in Slots /\ nd.slot[j] \in Entries /\ Key(nd, j) \in Nat
  BY <1>2, Sizes DEF Slots, Ordered, Key
<1>4. ASSUME NEW i \in 1 .. Count(nd), NEW j \in 1 .. Count(nd), nd.slot[i] = nd.slot[j] PROVE i = j
  <2>1. Key(nd, i) = Key(nd, j) /\ Key(nd, i) \in Nat
    BY <1>3, <1>4 DEF Key
  <2>2. ~(i < j) /\ ~(j < i)
    BY <2>1 DEF Ordered
  <2> QED BY <1>2, <2>2
<1> QED BY <1>1, <1>2, <1>3, <1>4

-----------------------------------------------------------------------------
(* The binary search *)

\* What low, high and mid range over, and one turn of the loop, g being what
\* the rest of it comes to.
Loops == (1 .. NODE_SIZE + 1) \X Slots \X (1 .. NODE_SIZE)

Turn(nd, key, g, s) ==
  LET low == s[1]  high == s[2]  mid == s[3]  m == (low + high) \div 2 IN
  IF low > high THEN IF low > mid THEN low ELSE mid
  ELSE IF Key(nd, m) > key THEN g[<<low, m - 1, m>>]
  ELSE IF Key(nd, m) < key THEN g[<<m + 1, high, m>>]
  ELSE m

\* How many slots are left to look at.
Left(s) == IF s[1] > s[2] THEN 0 ELSE s[2] - s[1] + 1

\* The middle of what is left, and both sides of it are smaller.
LEMMA Midst ==
  ASSUME NEW low \in 1 .. NODE_SIZE + 1, NEW high \in Slots, low <= high,
         NEW m, m = (low + high) \div 2
  PROVE  /\ m \in low .. high /\ m \in 1 .. NODE_SIZE /\ m - 1 \in Slots /\ m + 1 \in 1 .. NODE_SIZE + 1
         /\ m - 1 < high /\ low < m + 1
<1>1. low \in Nat /\ high \in Nat /\ NODE_SIZE \in Nat /\ high <= NODE_SIZE /\ low >= 1
  BY Sizes DEF Slots
<1>2. m \in Int /\ 2 * m <= low + high /\ low + high <= 2 * m + 1
  BY <1>1
<1>3. m >= low /\ m <= high
  BY <1>1, <1>2
<1> QED BY <1>1, <1>2, <1>3 DEF Slots

\* The two ways to go on leave fewer slots.
\* A turn looks only at what has fewer slots left.
LEMMA TurnSame ==
  ASSUME NEW nd, NEW key, NEW s \in Loops, NEW f, NEW g,
         \A r \in Loops : Left(r) < Left(s) => f[r] = g[r]
  PROVE  Turn(nd, key, f, s) = Turn(nd, key, g, s)
<1>1. PICK low \in 1 .. NODE_SIZE + 1, high \in Slots, mid \in 1 .. NODE_SIZE : s = <<low, high, mid>>
  BY DEF Loops
<1>2. s[1] = low /\ s[2] = high /\ s[3] = mid
  BY <1>1
<1>3. CASE low > high
  BY <1>2, <1>3 DEF Turn
<1>4. CASE ~(low > high)
  <2>1. low \in Nat /\ high \in Nat /\ low <= high
    BY <1>4, Sizes DEF Slots
  <2> DEFINE m == (low + high) \div 2
  <2>2. /\ m \in low .. high /\ m \in 1 .. NODE_SIZE /\ m - 1 \in Slots /\ m + 1 \in 1 .. NODE_SIZE + 1
        /\ m - 1 < high /\ low < m + 1
    BY <2>1, Midst
  <2> HIDE DEF m
  <2>3. <<low, m - 1, m>> \in Loops /\ <<m + 1, high, m>> \in Loops
    BY <2>2 DEF Loops
  <2>4. Left(s) = high - low + 1
    BY <1>2, <2>1 DEF Left
  <2>5. Left(<<low, m - 1, m>>) < Left(s) /\ Left(<<m + 1, high, m>>) < Left(s)
    BY <2>1, <2>2, <2>4 DEF Left
  <2>6. f[<<low, m - 1, m>>] = g[<<low, m - 1, m>>] /\ f[<<m + 1, high, m>>] = g[<<m + 1, high, m>>]
    BY <2>3, <2>5
  <2> QED BY <1>2, <2>6 DEF Turn, m
<1> QED BY <1>3, <1>4

\* What is left is a number of slots.
LEMMA LeftBound ==
  ASSUME NEW s \in Loops
  PROVE  Left(s) \in Nat /\ Left(s) < NODE_SIZE + 1
BY Sizes DEF Loops, Left, Slots

\* The loop's equation has a solution, and Search is one's value.
LEMMA SearchLoop ==
  ASSUME NEW nd, NEW key
  PROVE  \E g : /\ \A s \in Loops : g[s] = Turn(nd, key, g, s)
                /\ Search(nd, key) = g[<<1, Count(nd), 1>>]
<1> DEFINE Tn(g, s) == Turn(nd, key, g, s)
           T == {d \in Nat : \E g : \A s \in Loops : Left(s) < d => g[s] = Tn(g, s)}
<1>1. 0 \in T
  <2>1. \A s \in Loops : ~(Left(s) < 0)
    BY LeftBound
  <2> HIDE DEF Tn
  <2> QED BY <2>1
<1>2. ASSUME NEW d \in 0 .. (NODE_SIZE + 1) - 1, d \in T PROVE d + 1 \in T
  <2>1. PICK g : \A s \in Loops : Left(s) < d => g[s] = Tn(g, s)
    BY <1>2
  <2> DEFINE f == [s \in Loops |-> IF Left(s) < d THEN g[s] ELSE Tn(g, s)]
  <2>2. ASSUME NEW s \in Loops, Left(s) < d + 1 PROVE f[s] = Tn(f, s)
    <3>1. \A r \in Loops : Left(r) < Left(s) => f[r] = g[r]
      <4>1. \A r \in Loops : Left(r) < Left(s) => Left(r) < d
        BY <2>2, LeftBound
      <4> QED BY <4>1
    <3> HIDE DEF f
    <3>2. Tn(f, s) = Tn(g, s)
      BY <3>1, TurnSame
    <3>3. f[s] = IF Left(s) < d THEN g[s] ELSE Tn(g, s)
      BY DEF f
    <3> HIDE DEF Tn
    <3> QED BY <2>1, <3>2, <3>3
  <2>3. d + 1 \in Nat
    OBVIOUS
  <2> HIDE DEF f, Tn
  <2> QED BY <2>2, <2>3
<1>3. NODE_SIZE + 1 \in T
  <2>1. NODE_SIZE + 1 \in Nat /\ NODE_SIZE + 1 \in 0 .. NODE_SIZE + 1
    BY Sizes
  <2> HIDE DEF T
  <2> QED BY <1>1, <1>2, <2>1, Ascent
<1>4. PICK g : \A s \in Loops : g[s] = Tn(g, s)
  <2>1. PICK g : \A s \in Loops : Left(s) < NODE_SIZE + 1 => g[s] = Tn(g, s)
    BY <1>3
  <2> HIDE DEF Tn
  <2> QED BY <2>1, LeftBound
<1> DEFINE f == [s \in Loops |-> g[s]]
<1>5. ASSUME NEW s \in Loops PROVE Tn(f, s) = Tn(g, s)
  BY TurnSame
<1>6. f = [s \in Loops |-> Tn(f, s)]
  <2> HIDE DEF Tn
  <2> QED BY <1>4, <1>5
<1> DEFINE w == CHOOSE h : h = [s \in Loops |-> Tn(h, s)]
<1>7. w = [s \in Loops |-> Tn(w, s)]
  <2> HIDE DEF f, Tn
  <2> QED BY <1>6
<1>8. Search(nd, key) = w[<<1, Count(nd), 1>>]
  BY DEF Search, Turn, Loops
<1>9. \A s \in Loops : w[s] = Tn(w, s)
  <2> HIDE DEF w, Tn
  <2> QED BY <1>7
<1> QED BY <1>8, <1>9

\* What the loop knows when it turns.
Bracket(nd, key, s) ==
  /\ s[2] <= Count(nd) /\ s[1] <= s[2] + 1
  /\ \A j \in 1 .. Count(nd) : (j < s[1] => Key(nd, j) < key) /\ (j > s[2] => Key(nd, j) > key)
  /\ s[1] > s[2] => s[3] \in {s[1], s[1] - 1}

\* One turn: the place is found, or the bracket is narrower.
\* A turn finds the place when the turns after it do.
LEMMA TurnPlace ==
  ASSUME NEW nd, Ordered(nd), NEW key \in Nat, NEW s \in Loops, Bracket(nd, key, s), NEW g,
         \A r \in Loops : Bracket(nd, key, r) /\ Left(r) < Left(s) => Place(nd, key, g[r])
  PROVE  Place(nd, key, Turn(nd, key, g, s))
<1>1. PICK low \in 1 .. NODE_SIZE + 1, high \in Slots, mid \in 1 .. NODE_SIZE : s = <<low, high, mid>>
  BY DEF Loops
<1>2. s[1] = low /\ s[2] = high /\ s[3] = mid
  BY <1>1
<1>3. /\ low \in Nat /\ low >= 1 /\ high \in Nat /\ mid \in Nat /\ Count(nd) \in Nat /\ high <= Count(nd)
      /\ low <= high + 1
  BY <1>2, Sizes, OrderedCount DEF Slots, Bracket
<1>4. \A j \in 1 .. Count(nd) : (j < low => Key(nd, j) < key) /\ (j > high => Key(nd, j) > key)
  BY <1>2 DEF Bracket
<1>5. \A j \in 1 .. Count(nd) : Key(nd, j) \in Nat
  BY OrderedCount
<1>6. CASE low > high
  <2>1. low = high + 1 /\ mid \in {low, low - 1}
    BY <1>2, <1>3, <1>6 DEF Bracket
  <2>2. Turn(nd, key, g, s) = low
    BY <1>2, <1>3, <1>6, <2>1 DEF Turn
  <2>3. \A j \in 1 .. Count(nd) : IF j < low THEN Key(nd, j) < key ELSE Key(nd, j) >= key
    BY <1>3, <1>4, <1>5, <2>1
  <2>4. low \in 1 .. Count(nd) + 1
    BY <1>3, <2>1
  <2> QED BY <2>2, <2>3, <2>4 DEF Place
<1>7. CASE ~(low > high)
  <2>1. low <= high
    BY <1>3, <1>7
  <2> DEFINE m == (low + high) \div 2
  <2>2. /\ m \in low .. high /\ m \in 1 .. NODE_SIZE /\ m - 1 \in Slots /\ m + 1 \in 1 .. NODE_SIZE + 1
        /\ m - 1 < high /\ low < m + 1
    BY <2>1, Midst
  <2> HIDE DEF m
  <2>3. m \in 1 .. Count(nd) /\ m \in Nat
    BY <1>3, <2>2
  <2>4. <<low, m - 1, m>> \in Loops /\ <<m + 1, high, m>> \in Loops
    BY <2>2 DEF Loops
  <2>5. Left(s) = high - low + 1
    BY <1>2, <1>3, <2>1 DEF Left
  <2>6. Left(<<low, m - 1, m>>) < Left(s) /\ Left(<<m + 1, high, m>>) < Left(s)
    BY <1>3, <2>1, <2>2, <2>5 DEF Left
  <2>7. Turn(nd, key, g, s) = IF Key(nd, m) > key THEN g[<<low, m - 1, m>>]
                              ELSE IF Key(nd, m) < key THEN g[<<m + 1, high, m>>] ELSE m
    BY <1>2, <1>7 DEF Turn, m
  <2>8. \A j \in 1 .. Count(nd) : (j < m => Key(nd, j) < Key(nd, m)) /\ (j > m => Key(nd, j) > Key(nd, m))
    BY <1>5, <2>3 DEF Ordered
  <2>9. CASE Key(nd, m) > key
    <3> DEFINE r == <<low, m - 1, m>>
    <3>1. \A j \in 1 .. Count(nd) : j > m - 1 => Key(nd, j) > key
      BY <1>5, <2>3, <2>8, <2>9
    <3>2. m - 1 <= Count(nd) /\ low <= (m - 1) + 1
      BY <1>3, <2>2, <2>3
    <3>3. low > m - 1 => m \in {low, low - 1}
      BY <1>3, <2>2, <2>3
    <3>4. Bracket(nd, key, r)
      BY <1>4, <3>1, <3>2, <3>3 DEF Bracket
    <3> QED BY <2>4, <2>6, <2>7, <2>9, <3>4
  <2>10. CASE Key(nd, m) < key
    <3> DEFINE r == <<m + 1, high, m>>
    <3>1. \A j \in 1 .. Count(nd) : j < m + 1 => Key(nd, j) < key
      BY <1>5, <2>3, <2>8, <2>10
    <3>2. m + 1 <= high + 1
      BY <1>3, <2>2, <2>3
    <3>3. m \in {m + 1, (m + 1) - 1}
      BY <2>3
    <3>4. Bracket(nd, key, r)
      BY <1>3, <1>4, <3>1, <3>2, <3>3 DEF Bracket
    <3>5. ~(Key(nd, m) > key)
      BY <1>5, <2>3, <2>10
    <3> QED BY <2>4, <2>6, <2>7, <2>10, <3>4, <3>5
  <2>11. CASE Key(nd, m) = key
    <3>1. Turn(nd, key, g, s) = m
      BY <1>5, <2>3, <2>7, <2>11
    <3>2. m \in 1 .. Count(nd) + 1
      BY <1>3, <2>3
    <3>3. \A j \in 1 .. Count(nd) : IF j < m THEN Key(nd, j) < key ELSE Key(nd, j) >= key
      BY <1>5, <2>3, <2>8, <2>11
    <3> QED BY <3>1, <3>2, <3>3 DEF Place
  <2> QED BY <1>5, <2>3, <2>9, <2>10, <2>11
<1> QED BY <1>6, <1>7

\* The binary search finds the key's place.
\* The binary search of a sorted node returns where the key goes.
LEMMA SearchPlace ==
  ASSUME NEW nd, Ordered(nd), NEW key \in Nat
  PROVE  Place(nd, key, Search(nd, key))
<1>1. PICK g : /\ \A s \in Loops : g[s] = Turn(nd, key, g, s)
               /\ Search(nd, key) = g[<<1, Count(nd), 1>>]
  BY SearchLoop
<1> DEFINE T == {d \in Nat : \A s \in Loops : Bracket(nd, key, s) /\ Left(s) < d => Place(nd, key, g[s])}
<1>2. 0 \in T
  BY LeftBound
<1>3. ASSUME NEW d \in 0 .. (NODE_SIZE + 1) - 1, d \in T PROVE d + 1 \in T
  <2>1. ASSUME NEW s \in Loops, Bracket(nd, key, s), Left(s) < d + 1 PROVE Place(nd, key, g[s])
    <3>1. \A r \in Loops : Bracket(nd, key, r) /\ Left(r) < Left(s) => Place(nd, key, g[r])
      <4>1. \A r \in Loops : Left(r) < Left(s) => Left(r) < d
        BY <2>1, LeftBound
      <4> QED BY <1>3, <4>1
    <3>2. Place(nd, key, Turn(nd, key, g, s))
      BY <2>1, <3>1, TurnPlace
    <3> QED BY <1>1, <3>2
  <2> QED BY <2>1
<1>4. NODE_SIZE + 1 \in T
  <2>1. NODE_SIZE + 1 \in Nat /\ NODE_SIZE + 1 \in 0 .. NODE_SIZE + 1
    BY Sizes
  <2> HIDE DEF T
  <2> QED BY <1>2, <1>3, <2>1, Ascent
<1> DEFINE s == <<1, Count(nd), 1>>
<1>5. s \in Loops
  BY Sizes, OrderedCount DEF Loops
<1>6. Bracket(nd, key, s)
  BY OrderedCount DEF Bracket
<1>7. Left(s) < NODE_SIZE + 1
  BY <1>5, LeftBound
<1> HIDE DEF s
<1>8. Place(nd, key, g[s])
  BY <1>4, <1>5, <1>6, <1>7
<1> QED BY <1>1, <1>8 DEF s

-----------------------------------------------------------------------------
(* Free positions *)

\* The slots name as many positions as there are.
LEMMA UsedCount ==
  ASSUME NEW nd, Ordered(nd)
  PROVE  /\ IsFiniteSet(Used(nd)) /\ Cardinality(Used(nd)) = Count(nd) /\ Used(nd) \subseteq Entries
         /\ \A j \in 1 .. Count(nd) : nd.slot[j] \in Used(nd)
<1> DEFINE n == Count(nd)
           f == [j \in 1 .. n |-> nd.slot[j]]
<1>1. n \in Nat /\ \A i, j \in 1 .. n : f[i] = f[j] => i = j
  BY OrderedCount
<1>2. f \in [1 .. n -> Used(nd)] /\ \A u \in Used(nd) : \E j \in 1 .. n : f[j] = u
  BY DEF Used
<1> HIDE DEF f
<1>3. f \in Bijection(1 .. n, Used(nd))
  BY <1>1, <1>2 DEF Bijection, Injection, Surjection, IsInjective
<1>4. ExistsBijection(1 .. n, Used(nd))
  BY <1>3 DEF ExistsBijection
<1>5. Cardinality(Used(nd)) = n
  BY <1>1, <1>4, FS_CountingElements
<1>6. IsFiniteSet(Used(nd))
  BY <1>1, <1>4, FS_NatBijection
<1> QED BY <1>5, <1>6, OrderedCount DEF Used

\* checkBit of a node without repetitions: a position is free unless named.
LEMMA FreeBits ==
  ASSUME NEW nd, \A i, j \in 1 .. Count(nd) : nd.slot[i] = nd.slot[j] => i = j
  PROVE  missingMin(nd) = Min({i \in Slots : i \notin Used(nd)})
<1>1. ASSUME NEW i PROVE Cardinality({j \in 1 .. Count(nd) : nd.slot[j] = i}) % 2 = 0 <=> i \notin Used(nd)
  <2> DEFINE S == {j \in 1 .. Count(nd) : nd.slot[j] = i}
  <2>1. CASE i \in Used(nd)
    <3>1. PICK j \in 1 .. Count(nd) : nd.slot[j] = i
      BY <2>1 DEF Used
    <3>2. S = {j}
      BY <3>1
    <3>3. Cardinality(S) = 1
      BY <3>2, FS_Singleton
    <3> QED BY <2>1, <3>3
  <2>2. CASE i \notin Used(nd)
    <3>1. S = {}
      BY <2>2 DEF Used
    <3>2. Cardinality(S) = 0
      BY <3>1, FS_EmptySet
    <3> QED BY <2>2, <3>2
  <2> QED BY <2>1, <2>2
<1>2. {i \in Slots : Cardinality({j \in 1 .. Count(nd) : nd.slot[j] = i}) % 2 = 0}
        = {i \in Slots : i \notin Used(nd)}
  BY <1>1
<1> QED BY <1>2 DEF missingMin

\* Append finds a free position of a node that is not full.
LEMMA FreePosition ==
  ASSUME NEW nd, Ordered(nd), Count(nd) < NODE_SIZE
  PROVE  missingMin(nd) \in Entries /\ missingMin(nd) \notin Used(nd)
<1> DEFINE F == {i \in Slots : i \notin Used(nd)}
<1>1. missingMin(nd) = Min(F)
  BY FreeBits, OrderedCount
<1>2. \E e \in Entries : e \notin Used(nd)
  <2> SUFFICES ASSUME Entries \subseteq Used(nd) PROVE FALSE
    OBVIOUS
  <2>1. IsFiniteSet(Used(nd)) /\ Cardinality(Used(nd)) = Count(nd)
    BY UsedCount
  <2>2. Cardinality(Entries) <= Cardinality(Used(nd))
    BY <2>1, FS_Subset
  <2>3. Cardinality(Entries) = NODE_SIZE
    BY Sizes, FS_Interval DEF Entries
  <2> QED BY <2>1, <2>2, <2>3, Sizes, OrderedCount
<1>3. PICK e \in Entries : e \notin Used(nd)
  BY <1>2
<1>4. e \in F /\ F \subseteq Nat
  BY <1>3, Sizes
<1>5. Min(F) \in F /\ Min(F) <= e
  BY <1>4, LeastOf
<1>6. Min(F) \in Nat /\ e \in Nat /\ e <= NODE_SIZE - 1
  BY <1>4, <1>5, <1>3, Sizes DEF Entries
<1> HIDE DEF F
<1>7. Min(F) \in Entries
  BY <1>5, <1>6, Sizes DEF Entries
<1> QED BY <1>1, <1>5, <1>7 DEF F

-----------------------------------------------------------------------------
(* Insertion, deletion and the halves of a split *)

\* The entry at a slot.
Entry(nd, j) == nd.ent[nd.slot[j]]

\* The live entries, by slot.
LEMMA StoredSlots ==
  ASSUME NEW nd, NEW x
  PROVE  x \in Stored(nd) <=> \E j \in 1 .. Count(nd) : x = Entry(nd, j)
BY DEF Stored, Used, Entry

\* What insert_in_leaf leaves, slot by slot.
LEMMA InsertedSlots ==
  ASSUME NEW nd, Ordered(nd), Count(nd) < NODE_SIZE, NEW key \in Nat, NEW ptr,
         NEW p, p = Search(nd, key), NEW f, f = Inserted(nd, key, ptr)
  PROVE  /\ f = [slot |-> f.slot, ent |-> f.ent] /\ f.slot \in [Slots -> Slots]
         /\ DOMAIN f.ent = Entries /\ Count(f) = Count(nd) + 1
         /\ \A i \in Entries : f.ent[i].key \in Nat
         /\ p \in 1 .. Count(f) /\ f.slot[p] \in Entries /\ Entry(f, p) = [key |-> key, ptr |-> ptr]
         /\ \A j \in 1 .. Count(nd) : j < p => f.slot[j] = nd.slot[j] /\ Entry(f, j) = Entry(nd, j)
         /\ \A j \in 1 .. Count(nd) : j >= p => f.slot[j + 1] = nd.slot[j] /\ Entry(f, j + 1) = Entry(nd, j)
<1> DEFINE loc == missingMin(nd)
           x == [key |-> key, ptr |-> ptr]
           n == Count(nd)
<1>1. loc \in Entries /\ loc \notin Used(nd) /\ loc \in Slots
  BY FreePosition, Sizes
<1>2. /\ nd = [slot |-> nd.slot, ent |-> nd.ent] /\ nd.slot \in [Slots -> Slots]
      /\ DOMAIN nd.ent = Entries /\ \A i \in Entries : nd.ent[i].key \in Nat
  BY DEF Ordered
<1>3. n \in Nat /\ n <= NODE_SIZE /\ n < NODE_SIZE /\ NODE_SIZE \in Nat
  BY Sizes, OrderedCount
<1>4. p \in 1 .. n + 1
  BY SearchPlace DEF Place
<1> HIDE DEF loc
<1>5. /\ f.slot = Opened(nd.slot, p, loc) /\ f.ent = [nd.ent EXCEPT ![loc] = x]
      /\ f = [slot |-> f.slot, ent |-> f.ent]
  BY <1>2 DEF Inserted, Appended, loc
<1>6. DOMAIN f.ent = Entries /\ f.ent[loc] = x /\ \A i \in Entries : i # loc => f.ent[i] = nd.ent[i]
  BY <1>1, <1>2, <1>5
<1>7. \A i \in Entries : f.ent[i].key \in Nat
  BY <1>2, <1>6
<1>8. \A j \in Slots : f.slot[j] = IF j = 0 THEN n + 1 ELSE IF j = p THEN loc
                                   ELSE IF j < p THEN nd.slot[j] ELSE nd.slot[j - 1]
  BY <1>5 DEF Opened, Count
<1>9. f.slot \in [Slots -> Slots]
  <2>1. DOMAIN f.slot = Slots /\ f.slot = [j \in Slots |-> f.slot[j]]
    BY <1>5 DEF Opened
  <2>2. ASSUME NEW j \in Slots PROVE f.slot[j] \in Slots
    <3>1. n + 1 \in Slots
      BY <1>3 DEF Slots
    <3>2. j # 0 => j - 1 \in Slots
      BY <1>3 DEF Slots
    <3> QED BY <1>1, <1>2, <1>8, <3>1, <3>2
  <2> QED BY <2>1, <2>2
<1>10. Count(f) = n + 1
  BY <1>8, Sizes DEF Count
<1>11. p \in 1 .. Count(f) /\ p \in Slots /\ p # 0
  BY <1>3, <1>4, <1>10 DEF Slots
<1>12. f.slot[p] = loc
  BY <1>8, <1>11
<1>13. ASSUME NEW j \in 1 .. n
       PROVE  /\ nd.slot[j] \in Entries /\ nd.slot[j] # loc
              /\ j < p => f.slot[j] = nd.slot[j]
              /\ j >= p => f.slot[j + 1] = nd.slot[j]
  <2>1. nd.slot[j] \in Entries /\ nd.slot[j] # loc
    BY <1>1, UsedCount, OrderedCount
  <2>2. j < p => f.slot[j] = nd.slot[j]
    <3>1. j \in Slots /\ j # 0 /\ (j < p => j # p)
      BY <1>3, <1>4 DEF Slots
    <3> QED BY <1>8, <3>1
  <2>3. j >= p => f.slot[j + 1] = nd.slot[j]
    <3>1. j + 1 \in Slots /\ j + 1 # 0 /\ (j + 1) - 1 = j /\ (j >= p => j + 1 # p /\ ~(j + 1 < p))
      BY <1>3, <1>4 DEF Slots
    <3> QED BY <1>8, <3>1
  <2> QED BY <2>1, <2>2, <2>3
<1>14. ASSUME NEW j \in 1 .. n
       PROVE  /\ j < p => Entry(f, j) = Entry(nd, j)
              /\ j >= p => Entry(f, j + 1) = Entry(nd, j)
  BY <1>6, <1>13 DEF Entry
<1>15. Entry(f, p) = x /\ f.slot[p] \in Entries
  BY <1>1, <1>6, <1>12 DEF Entry
<1> QED BY <1>5, <1>6, <1>7, <1>9, <1>10, <1>11, <1>13, <1>14, <1>15

\* A key that is not there yet is put in its place, and nothing else changes.
LEMMA InsertedOrdered ==
  ASSUME NEW nd, Ordered(nd), Count(nd) < NODE_SIZE, NEW key \in Nat, NEW ptr,
         \A j \in 1 .. Count(nd) : Key(nd, j) # key
  PROVE  /\ Ordered(Inserted(nd, key, ptr)) /\ Count(Inserted(nd, key, ptr)) = Count(nd) + 1
         /\ Stored(Inserted(nd, key, ptr)) = Stored(nd) \cup {[key |-> key, ptr |-> ptr]}
<1> DEFINE f == Inserted(nd, key, ptr)
           x == [key |-> key, ptr |-> ptr]
           p == Search(nd, key)
           n == Count(nd)
<1>1. /\ f = [slot |-> f.slot, ent |-> f.ent] /\ f.slot \in [Slots -> Slots]
      /\ DOMAIN f.ent = Entries /\ Count(f) = n + 1
      /\ \A i \in Entries : f.ent[i].key \in Nat
      /\ p \in 1 .. Count(f) /\ f.slot[p] \in Entries /\ Entry(f, p) = x
      /\ \A j \in 1 .. n : j < p => f.slot[j] = nd.slot[j] /\ Entry(f, j) = Entry(nd, j)
      /\ \A j \in 1 .. n : j >= p => f.slot[j + 1] = nd.slot[j] /\ Entry(f, j + 1) = Entry(nd, j)
  BY InsertedSlots
<1>2. Place(nd, key, p)
  BY SearchPlace
<1>3. n \in Nat /\ \A j \in 1 .. n : nd.slot[j] \in Entries /\ Key(nd, j) \in Nat
  BY OrderedCount
<1> HIDE DEF f, p, n
<1>4. \A j \in 1 .. n : IF j < p THEN Key(nd, j) < key ELSE Key(nd, j) > key
  BY <1>2, <1>3 DEF Place, n
<1>5. ASSUME NEW j \in 1 .. n + 1
      PROVE  \/ j = p
             \/ j < p /\ j \in 1 .. n /\ f.slot[j] = nd.slot[j] /\ Entry(f, j) = Entry(nd, j)
             \/ j > p /\ j - 1 \in 1 .. n /\ j - 1 >= p /\ f.slot[j] = nd.slot[j - 1] /\ Entry(f, j) = Entry(nd, j - 1)
  <2>1. p \in 1 .. n + 1
    BY <1>1
  <2>2. CASE j < p
    <3>1. j \in 1 .. n
      BY <1>3, <2>1, <2>2
    <3> QED BY <1>1, <2>2, <3>1
  <2>3. CASE j > p
    <3>1. j - 1 \in 1 .. n /\ j - 1 >= p /\ (j - 1) + 1 = j
      BY <1>3, <2>1, <2>3
    <3> QED BY <1>1, <2>3, <3>1
  <2> QED BY <1>3, <2>1, <2>2, <2>3
<1>6. \A j \in 1 .. n + 1 : f.slot[j] \in Entries
  BY <1>1, <1>3, <1>5
<1>7. \A j \in 1 .. n + 1 :
         Key(f, j) = IF j = p THEN key ELSE IF j < p THEN Key(nd, j) ELSE Key(nd, j - 1)
  BY <1>1, <1>5 DEF Key, Entry
<1>8. ASSUME NEW i \in 1 .. n + 1, NEW j \in 1 .. n + 1, i < j PROVE Key(f, i) < Key(f, j)
  <2>1. p \in 1 .. n + 1 /\ i \in Nat /\ j \in Nat /\ n \in Nat
    BY <1>1, <1>3
  <2>2. \A a, b \in 1 .. n : a < b => Key(nd, a) < Key(nd, b)
    BY DEF Ordered, n
  <2>3. CASE j < p
    <3>1. i \in 1 .. n /\ j \in 1 .. n /\ i < p /\ i # p /\ j # p
      BY <1>8, <2>1, <2>3
    <3> QED BY <1>7, <1>8, <2>2, <2>3, <3>1
  <2>4. CASE j = p
    <3>1. i \in 1 .. n /\ i < p /\ i # p
      BY <1>8, <2>1, <2>4
    <3> QED BY <1>4, <1>7, <2>4, <3>1
  <2>5. CASE i = p
    <3>1. j - 1 \in 1 .. n /\ ~(j - 1 < p) /\ ~(j < p) /\ j # p
      BY <1>8, <2>1, <2>5
    <3> QED BY <1>3, <1>4, <1>7, <2>5, <3>1
  <2>6. CASE i < p /\ j > p
    <3>1. i \in 1 .. n /\ j - 1 \in 1 .. n /\ ~(j - 1 < p) /\ ~(j < p) /\ j # p /\ i # p
      BY <1>8, <2>1, <2>6
    <3>2. Key(nd, i) < key /\ Key(nd, j - 1) > key /\ Key(nd, i) \in Nat /\ Key(nd, j - 1) \in Nat
      BY <1>3, <1>4, <2>6, <3>1
    <3>3. Key(nd, i) < Key(nd, j - 1)
      BY <3>2
    <3> QED BY <1>7, <2>6, <3>1, <3>3
  <2>7. CASE i > p
    <3>1. i - 1 \in 1 .. n /\ j - 1 \in 1 .. n /\ i - 1 < j - 1 /\ ~(i < p) /\ ~(j < p) /\ i # p /\ j # p
      BY <1>8, <2>1, <2>7
    <3> QED BY <1>7, <2>2, <3>1
  <2> QED BY <1>8, <2>1, <2>3, <2>4, <2>5, <2>6, <2>7
<1>9. Ordered(f)
  <2>1. \A j \in 1 .. Count(f) : f.slot[j] \in Entries
    BY <1>1, <1>6
  <2>2. \A i, j \in 1 .. Count(f) : i < j => Key(f, i) < Key(f, j)
    BY <1>1, <1>8
  <2> QED BY <1>1, <2>1, <2>2 DEF Ordered
<1>10. ASSUME NEW y PROVE y \in Stored(f) <=> y \in Stored(nd) \/ y = x
  <2>1. y \in Stored(f) <=> \E j \in 1 .. n + 1 : y = Entry(f, j)
    BY <1>1, StoredSlots
  <2>2. y \in Stored(nd) <=> \E j \in 1 .. n : y = Entry(nd, j)
    BY StoredSlots DEF n
  <2>3. ASSUME NEW j \in 1 .. n + 1, y = Entry(f, j) PROVE y = x \/ \E i \in 1 .. n : y = Entry(nd, i)
    BY <1>1, <1>5, <2>3
  <2>4. ASSUME NEW j \in 1 .. n, y = Entry(nd, j) PROVE \E i \in 1 .. n + 1 : y = Entry(f, i)
    <3>1. p \in 1 .. n + 1 /\ j \in 1 .. n + 1 /\ j + 1 \in 1 .. n + 1
      BY <1>1, <1>3
    <3>2. CASE j < p
      BY <1>1, <2>4, <3>1, <3>2
    <3>3. CASE j >= p
      BY <1>1, <2>4, <3>1, <3>3
    <3> QED BY <3>1, <3>2, <3>3
  <2>5. p \in 1 .. n + 1 /\ Entry(f, p) = x
    BY <1>1
  <2> QED BY <2>1, <2>2, <2>3, <2>4, <2>5
<1>11. Stored(f) = Stored(nd) \cup {x}
  BY <1>10
<1> QED BY <1>1, <1>9, <1>11 DEF f, n

\* A key that is there is what the search returns.
LEMMA SearchFinds ==
  ASSUME NEW nd, Ordered(nd), NEW key \in Nat, NEW q \in 1 .. Count(nd), Key(nd, q) = key
  PROVE  Search(nd, key) = q
<1> DEFINE p == Search(nd, key)
           n == Count(nd)
<1>1. Place(nd, key, p)
  BY SearchPlace
<1>2. n \in Nat /\ \A j \in 1 .. n : Key(nd, j) \in Nat
  BY OrderedCount
<1> HIDE DEF p
<1>3. p \in 1 .. n + 1 /\ \A j \in 1 .. n : IF j < p THEN Key(nd, j) < key ELSE Key(nd, j) >= key
  BY <1>1 DEF Place
<1>4. ~(q < p)
  BY <1>2, <1>3
<1>5. ~(p < q)
  <2> SUFFICES ASSUME p < q PROVE FALSE
    OBVIOUS
  <2>1. p \in 1 .. n
    BY <1>2, <1>3
  <2>2. Key(nd, p) < Key(nd, q)
    BY <2>1 DEF Ordered
  <2>3. Key(nd, p) >= key
    BY <1>3, <2>1
  <2> QED BY <1>2, <2>1, <2>2, <2>3
<1>6. p \in Nat /\ q \in Nat
  BY <1>2, <1>3
<1> QED BY <1>4, <1>5, <1>6 DEF p

\* What delete_in_leaf leaves, slot by slot.
LEMMA DeletedSlots ==
  ASSUME NEW nd, Ordered(nd), NEW key \in Nat, NEW q \in 1 .. Count(nd), Key(nd, q) = key,
         NEW f, f = Deleted(nd, key)
  PROVE  /\ f = [slot |-> f.slot, ent |-> f.ent] /\ f.slot \in [Slots -> Slots]
         /\ f.ent = nd.ent /\ Count(f) = Count(nd) - 1
         /\ \A j \in 1 .. Count(f) : f.slot[j] = IF j < q THEN nd.slot[j] ELSE nd.slot[j + 1]
<1> DEFINE n == Count(nd)
<1>1. nd = [slot |-> nd.slot, ent |-> nd.ent] /\ nd.slot \in [Slots -> Slots]
  BY DEF Ordered
<1>2. n \in Nat /\ n <= NODE_SIZE /\ NODE_SIZE \in Nat
  BY Sizes, OrderedCount
<1>3. Search(nd, key) = q
  BY SearchFinds
<1>4. /\ f.slot = Closed(nd.slot, q) /\ f.ent = nd.ent
      /\ f = [slot |-> f.slot, ent |-> f.ent]
  BY <1>1, <1>3 DEF Deleted
<1>5. \A j \in Slots : f.slot[j] = IF j = 0 THEN n - 1 ELSE IF j < q THEN nd.slot[j]
                                   ELSE IF j < n THEN nd.slot[j + 1] ELSE 0
  BY <1>4 DEF Closed, Count
<1>6. f.slot \in [Slots -> Slots]
  <2>1. DOMAIN f.slot = Slots /\ f.slot = [j \in Slots |-> f.slot[j]]
    BY <1>4 DEF Closed
  <2>2. ASSUME NEW j \in Slots PROVE f.slot[j] \in Slots
    <3>1. n - 1 \in Slots
      BY <1>2 DEF Slots
    <3>2. j < n => j + 1 \in Slots
      BY <1>2 DEF Slots
    <3> QED BY <1>1, <1>5, <3>1, <3>2, Sizes
  <2> QED BY <2>1, <2>2
<1>7. Count(f) = n - 1
  BY <1>5, Sizes DEF Count
<1>8. ASSUME NEW j \in 1 .. n - 1 PROVE f.slot[j] = IF j < q THEN nd.slot[j] ELSE nd.slot[j + 1]
  <2>1. j \in Slots /\ j # 0 /\ j < n
    BY <1>2 DEF Slots
  <2> QED BY <1>5, <2>1
<1> QED BY <1>4, <1>6, <1>7, <1>8

\* The entry of the key is taken out, and nothing else changes.
LEMMA DeletedOrdered ==
  ASSUME NEW nd, Ordered(nd), NEW key \in Nat, NEW q \in 1 .. Count(nd), Key(nd, q) = key
  PROVE  /\ Ordered(Deleted(nd, key)) /\ Count(Deleted(nd, key)) = Count(nd) - 1
         /\ Stored(Deleted(nd, key)) = {x \in Stored(nd) : x.key # key}
<1> DEFINE f == Deleted(nd, key)
           n == Count(nd)
<1>1. /\ f = [slot |-> f.slot, ent |-> f.ent] /\ f.slot \in [Slots -> Slots]
      /\ f.ent = nd.ent /\ Count(f) = n - 1
      /\ \A j \in 1 .. Count(f) : f.slot[j] = IF j < q THEN nd.slot[j] ELSE nd.slot[j + 1]
  BY DeletedSlots
<1>2. n \in Nat /\ \A j \in 1 .. n : nd.slot[j] \in Entries /\ Key(nd, j) \in Nat
  BY OrderedCount
<1>3. /\ DOMAIN nd.ent = Entries /\ \A i \in Entries : nd.ent[i].key \in Nat
      /\ \A i, j \in 1 .. n : i < j => Key(nd, i) < Key(nd, j)
  BY DEF Ordered
<1> DEFINE to(j) == IF j < q THEN j ELSE j + 1
<1> HIDE DEF f, n
<1>0. q \in 1 .. n
  BY DEF n
<1>4. ASSUME NEW j \in 1 .. n - 1
      PROVE  /\ to(j) \in 1 .. n /\ to(j) # q /\ f.slot[j] = nd.slot[to(j)]
             /\ Entry(f, j) = Entry(nd, to(j)) /\ Key(f, j) = Key(nd, to(j))
  <2>1. to(j) \in 1 .. n /\ to(j) # q
    BY <1>0, <1>2
  <2>2. f.slot[j] = nd.slot[to(j)]
    BY <1>1
  <2> HIDE DEF to
  <2> QED BY <1>1, <2>1, <2>2 DEF Entry, Key
<1>5. Ordered(f)
  <2>1. \A j \in 1 .. Count(f) : f.slot[j] \in Entries
    BY <1>1, <1>2, <1>4
  <2>2. ASSUME NEW i \in 1 .. Count(f), NEW j \in 1 .. Count(f), i < j PROVE Key(f, i) < Key(f, j)
    <3>1. i \in 1 .. n - 1 /\ j \in 1 .. n - 1 /\ to(i) < to(j)
      BY <1>0, <1>1, <1>2, <2>2
    <3>2. Key(f, i) = Key(nd, to(i)) /\ Key(f, j) = Key(nd, to(j)) /\ to(i) \in 1 .. n /\ to(j) \in 1 .. n
      BY <1>4, <3>1
    <3> HIDE DEF to
    <3> QED BY <1>3, <3>1, <3>2
  <2> QED BY <1>1, <1>3, <2>1, <2>2 DEF Ordered
<1>6. ASSUME NEW y PROVE y \in Stored(f) <=> y \in Stored(nd) /\ y.key # key
  <2>1. y \in Stored(f) <=> \E j \in 1 .. n - 1 : y = Entry(f, j)
    BY <1>1, StoredSlots
  <2>2. y \in Stored(nd) <=> \E j \in 1 .. n : y = Entry(nd, j)
    BY StoredSlots DEF n
  <2>3. ASSUME NEW j \in 1 .. n PROVE Entry(nd, j).key = key <=> j = q
    <3>1. Entry(nd, j).key = Key(nd, j) /\ Key(nd, j) \in Nat /\ Key(nd, q) \in Nat
      BY <1>0, <1>2 DEF Entry, Key
    <3>2. j < q => Key(nd, j) < Key(nd, q)
      BY <1>0, <1>3
    <3>3. q < j => Key(nd, q) < Key(nd, j)
      BY <1>0, <1>3
    <3>4. j < q \/ q < j \/ j = q
      BY <1>0, <1>2
    <3> QED BY <3>1, <3>2, <3>3, <3>4
  <2>4. ASSUME NEW j \in 1 .. n - 1, y = Entry(f, j)
        PROVE  y.key # key /\ \E i \in 1 .. n : y = Entry(nd, i)
    <3> HIDE DEF to
    <3>1. to(j) \in 1 .. n /\ to(j) # q /\ y = Entry(nd, to(j))
      BY <1>4, <2>4
    <3> QED BY <2>3, <3>1
  <2>5. ASSUME NEW j \in 1 .. n, y = Entry(nd, j), y.key # key
        PROVE  \E i \in 1 .. n - 1 : y = Entry(f, i)
    <3>1. j # q
      BY <2>3, <2>5
    <3>2. CASE j < q
      <4>1. j \in 1 .. n - 1 /\ to(j) = j
        BY <1>0, <1>2, <3>2
      <4> QED BY <1>4, <2>5, <4>1
    <3>3. CASE j > q
      <4>1. j - 1 \in 1 .. n - 1 /\ to(j - 1) = j
        BY <1>0, <1>2, <3>3
      <4> QED BY <1>4, <2>5, <4>1
    <3> QED BY <1>0, <1>2, <3>1, <3>2, <3>3
  <2> QED BY <2>1, <2>2, <2>4, <2>5
<1>7. Stored(f) = {x \in Stored(nd) : x.key # key}
  BY <1>6
<1> QED BY <1>1, <1>5, <1>7 DEF f, n

\* slot[0] -= MIN_LIVE_ENTRIES leaves the smallest entries.
LEMMA LowerHalfOrdered ==
  ASSUME NEW nd, Ordered(nd), NEW m, m = Count(nd) - MIN_LIVE_ENTRIES, m >= 0
  PROVE  /\ Ordered(LowerHalf(nd)) /\ Count(LowerHalf(nd)) = m
         /\ Stored(LowerHalf(nd)) = {Entry(nd, j) : j \in 1 .. m}
         /\ \A j \in 1 .. m : Key(LowerHalf(nd), j) = Key(nd, j)
<1> DEFINE f == LowerHalf(nd)
           n == Count(nd)
<1>1. nd = [slot |-> nd.slot, ent |-> nd.ent] /\ nd.slot \in [Slots -> Slots]
  BY DEF Ordered
<1>2. n \in Nat /\ m \in Nat /\ m <= n /\ n <= NODE_SIZE /\ NODE_SIZE \in Nat /\ m \in Slots
  BY Sizes, OrderedCount DEF Slots
<1>3. /\ f.slot = [j \in Slots |-> IF j = 0 THEN m ELSE IF j <= m THEN nd.slot[j] ELSE 0]
      /\ f.ent = nd.ent /\ f = [slot |-> f.slot, ent |-> f.ent]
  BY <1>1 DEF LowerHalf
<1> HIDE DEF f
<1>4. f.slot \in [Slots -> Slots]
  BY <1>1, <1>2, <1>3, Sizes
<1>5. Count(f) = m
  BY <1>3, Sizes DEF Count
<1>6. ASSUME NEW j \in 1 .. m
      PROVE  j \in 1 .. n /\ f.slot[j] = nd.slot[j] /\ Key(f, j) = Key(nd, j) /\ Entry(f, j) = Entry(nd, j)
  <2>1. j \in 1 .. n /\ j \in Slots /\ j # 0 /\ j <= m
    BY <1>2 DEF Slots
  <2>2. f.slot[j] = nd.slot[j]
    BY <1>3, <2>1
  <2> QED BY <1>3, <2>1, <2>2 DEF Key, Entry
<1>7. Ordered(f)
  <2>1. /\ DOMAIN nd.ent = Entries /\ \A i \in Entries : nd.ent[i].key \in Nat
        /\ \A j \in 1 .. n : nd.slot[j] \in Entries
        /\ \A i, j \in 1 .. n : i < j => Key(nd, i) < Key(nd, j)
    BY DEF Ordered
  <2>2. \A j \in 1 .. Count(f) : f.slot[j] \in Entries
    BY <1>5, <1>6, <2>1
  <2>3. \A i, j \in 1 .. Count(f) : i < j => Key(f, i) < Key(f, j)
    BY <1>5, <1>6, <2>1
  <2> QED BY <1>3, <1>4, <2>1, <2>2, <2>3 DEF Ordered
<1>8. Stored(f) = {Entry(nd, j) : j \in 1 .. m}
  <2>1. ASSUME NEW y PROVE y \in Stored(f) <=> \E j \in 1 .. m : y = Entry(nd, j)
    BY <1>5, <1>6, StoredSlots
  <2> QED BY <2>1
<1> QED BY <1>5, <1>6, <1>7, <1>8 DEF f

\* One turn of the loop that fills the new node, to being what the turns
\* before it made.
Move(nd, to, j) ==
  LET loc == missingMin(to)
      cp  == Count(nd) - (MIN_LIVE_ENTRIES - j)
  IN  [slot |-> [to.slot EXCEPT ![0] = @ + 1, ![j] = loc],
       ent  |-> [to.ent EXCEPT ![loc] = nd.ent[nd.slot[cp]]]]

Moved(nd, g, j) == IF j = MIN_LIVE_ENTRIES + 1 THEN EmptyNode ELSE Move(nd, g[j + 1], j)

\* The loop's equation has a solution, and UpperHalf is its value at 1.
LEMMA MoveLoop ==
  ASSUME NEW nd
  PROVE  \E g : /\ \A j \in 1 .. MIN_LIVE_ENTRIES + 1 : g[j] = Moved(nd, g, j)
                /\ UpperHalf(nd) = g[1]
<1> DEFINE M == MIN_LIVE_ENTRIES
           J == 1 .. M + 1
           Mv(g, j) == Moved(nd, g, j)
           T == {d \in Nat : \E g : \A j \in J : M + 1 - j < d => g[j] = Mv(g, j)}
<1>0. M \in Nat /\ \A j \in J : j \in Nat /\ M + 1 - j \in Nat /\ M + 1 - j < M + 1 /\ (j # M + 1 => j + 1 \in J)
  BY Sizes
<1>1. 0 \in T
  <2>1. \A j \in J : ~(M + 1 - j < 0)
    BY <1>0
  <2> HIDE DEF Mv, M, J
  <2> QED BY <2>1
<1>2. ASSUME NEW d \in 0 .. (M + 1) - 1, d \in T PROVE d + 1 \in T
  <2>1. PICK g : \A j \in J : M + 1 - j < d => g[j] = Mv(g, j)
    BY <1>2
  <2> DEFINE f == [j \in J |-> IF M + 1 - j < d THEN g[j] ELSE Mv(g, j)]
  <2>2. ASSUME NEW j \in J, M + 1 - j < d + 1 PROVE f[j] = Mv(f, j)
    <3>1. j # M + 1 => j + 1 \in J /\ M + 1 - (j + 1) < d
      BY <1>0, <2>2
    <3>2. j # M + 1 => f[j + 1] = g[j + 1]
      BY <3>1
    <3> HIDE DEF f
    <3>3. Mv(f, j) = Mv(g, j)
      BY <3>2 DEF Moved
    <3>4. f[j] = IF M + 1 - j < d THEN g[j] ELSE Mv(g, j)
      BY DEF f
    <3> HIDE DEF Mv
    <3> QED BY <2>1, <3>3, <3>4
  <2>3. d + 1 \in Nat
    OBVIOUS
  <2> HIDE DEF f, Mv
  <2> QED BY <2>2, <2>3
<1>3. M + 1 \in T
  <2>1. M + 1 \in Nat /\ M + 1 \in 0 .. M + 1
    BY Sizes
  <2> HIDE DEF T
  <2> QED BY <1>1, <1>2, <2>1, Ascent
<1>4. PICK g : \A j \in J : g[j] = Mv(g, j)
  <2>1. PICK g : \A j \in J : M + 1 - j < M + 1 => g[j] = Mv(g, j)
    BY <1>3
  <2> HIDE DEF Mv, J, M
  <2> QED BY <2>1, <1>0
<1> DEFINE f == [j \in J |-> g[j]]
<1>5. ASSUME NEW j \in J PROVE Mv(f, j) = Mv(g, j)
  <2>1. j # M + 1 => f[j + 1] = g[j + 1]
    BY <1>0
  <2> HIDE DEF f
  <2> QED BY <2>1 DEF Moved
<1>6. f = [j \in J |-> Mv(f, j)]
  <2> HIDE DEF Mv, J
  <2> QED BY <1>4, <1>5
<1> DEFINE w == CHOOSE h : h = [j \in J |-> Mv(h, j)]
<1>7. w = [j \in J |-> Mv(w, j)]
  <2> HIDE DEF f, Mv, J
  <2> QED BY <1>6
<1>8. UpperHalf(nd) = w[1]
  BY DEF UpperHalf, Moved, Move
<1>9. \A j \in J : w[j] = Mv(w, j)
  <2> HIDE DEF w, Mv, J
  <2> QED BY <1>7
<1> QED BY <1>8, <1>9

\* The new node after t turns: the last t entries, the last one first.
Taken(nd, t, to) ==
  /\ to = [slot |-> to.slot, ent |-> to.ent]
  /\ to.slot \in [Slots -> Slots] /\ DOMAIN to.ent = Entries /\ Count(to) = t
  /\ \A i \in Entries : to.ent[i].key \in Nat
  /\ \A j \in 1 .. MIN_LIVE_ENTRIES - t : to.slot[j] = 0
  /\ \A j \in MIN_LIVE_ENTRIES - t + 1 .. MIN_LIVE_ENTRIES :
        /\ to.slot[j] = MIN_LIVE_ENTRIES - j
        /\ to.ent[MIN_LIVE_ENTRIES - j] = Entry(nd, Count(nd) - (MIN_LIVE_ENTRIES - j))

\* Append reads slots that are not filled yet: up to three entries it still
\* names the next position.
LEMMA NextFree ==
  ASSUME NEW nd, NEW to, MIN_LIVE_ENTRIES \in 1 .. 3, NEW t \in 0 .. MIN_LIVE_ENTRIES - 1, Taken(nd, t, to)
  PROVE  missingMin(to) = t
<1> DEFINE M == MIN_LIVE_ENTRIES
<1>1. Count(to) = t /\ t \in {0, 1, 2} /\ t < M
  BY DEF Taken
<1>2. t >= 1 => to.slot[1] = 0
  <2>1. t >= 1 => 1 \in 1 .. M - t
    BY <1>1
  <2> QED BY <2>1 DEF Taken
<1>3. t = 2 => to.slot[2] = 1
  <2>1. t = 2 => M = 3 /\ 2 \in M - t + 1 .. M /\ M - 2 = 1
    BY <1>1
  <2> QED BY <2>1 DEF Taken
<1>4. \A j \in 1 .. t : to.slot[j] = j - 1
  BY <1>1, <1>2, <1>3
<1>5. \A i, j \in 1 .. Count(to) : to.slot[i] = to.slot[j] => i = j
  BY <1>1, <1>4
<1>6. missingMin(to) = Min({i \in Slots : i \notin Used(to)})
  BY <1>5, FreeBits
<1>7. Used(to) = 0 .. t - 1
  BY <1>1, <1>4 DEF Used
<1> DEFINE F == {i \in Slots : i \notin Used(to)}
<1>8. t \in F /\ F \subseteq Nat /\ \A i \in F : i >= t
  <2>1. t \in Slots
    BY <1>1, Sizes DEF Slots
  <2>2. t \in Nat /\ t \notin Used(to)
    BY <1>1, <1>7
  <2>3. ASSUME NEW i \in Slots, i \notin Used(to) PROVE i >= t
    BY <1>7, <2>2, <2>3, Sizes
  <2> QED BY <2>1, <2>2, <2>3, Sizes
<1> HIDE DEF F
<1>9. Min(F) \in F /\ Min(F) <= t
  BY <1>8, LeastOf
<1> QED BY <1>1, <1>6, <1>8, <1>9 DEF F

\* Each turn takes the next entry.
LEMMA MoveTaken ==
  ASSUME NEW nd, Ordered(nd), Count(nd) >= MIN_LIVE_ENTRIES, MIN_LIVE_ENTRIES \in 1 .. 3,
         NEW to, NEW t \in 0 .. MIN_LIVE_ENTRIES - 1, Taken(nd, t, to)
  PROVE  Taken(nd, t + 1, Move(nd, to, MIN_LIVE_ENTRIES - t))
<1> DEFINE M == MIN_LIVE_ENTRIES
           b == M - t
           f == Move(nd, to, b)
           e == nd.ent[nd.slot[Count(nd) - t]]
<1>1. missingMin(to) = t
  BY NextFree
<1>2. M \in Nat /\ b \in 1 .. M /\ b \in Nat /\ M - b = t /\ t \in Nat /\ M < NODE_SIZE /\ NODE_SIZE \in Nat
  BY Sizes
<1>3. /\ to = [slot |-> to.slot, ent |-> to.ent]
      /\ to.slot \in [Slots -> Slots] /\ DOMAIN to.ent = Entries /\ Count(to) = t
      /\ \A i \in Entries : to.ent[i].key \in Nat
      /\ \A j \in 1 .. M - t : to.slot[j] = 0
      /\ \A j \in M - t + 1 .. M : to.slot[j] = M - j /\ to.ent[M - j] = Entry(nd, Count(nd) - (M - j))
  BY DEF Taken
<1>4. t \in Entries /\ t \in Slots /\ t + 1 \in Slots /\ b \in Slots /\ b # 0
  BY <1>2 DEF Entries, Slots
<1>5. f = [slot |-> [to.slot EXCEPT ![0] = @ + 1, ![b] = t], ent |-> [to.ent EXCEPT ![t] = e]]
  BY <1>1, <1>2 DEF Move
<1>6. e = Entry(nd, Count(nd) - t) /\ e.key \in Nat
  <2>1. Count(nd) - t \in 1 .. Count(nd)
    BY <1>2, OrderedCount
  <2>2. Key(nd, Count(nd) - t) \in Nat
    BY <2>1, OrderedCount
  <2> QED BY <2>2 DEF Entry, Key
<1> HIDE DEF f, e
<1>7. f = [slot |-> f.slot, ent |-> f.ent]
  BY <1>5
<1>8. /\ DOMAIN f.ent = Entries /\ f.ent[t] = e
      /\ \A i \in Entries : i # t => f.ent[i] = to.ent[i]
  BY <1>3, <1>4, <1>5
<1>9. /\ DOMAIN f.slot = Slots /\ f.slot[0] = t + 1 /\ f.slot[b] = t
      /\ \A j \in Slots : j # 0 /\ j # b => f.slot[j] = to.slot[j]
      /\ f.slot = [j \in Slots |-> f.slot[j]]
  BY <1>3, <1>4, <1>5, Sizes DEF Count
<1>10. f.slot \in [Slots -> Slots]
  BY <1>3, <1>4, <1>9
<1>11. Count(f) = t + 1
  BY <1>9 DEF Count
<1>12. \A i \in Entries : f.ent[i].key \in Nat
  BY <1>3, <1>6, <1>8
<1>13. ASSUME NEW j \in 1 .. M - (t + 1) PROVE f.slot[j] = 0
  <2>1. j \in 1 .. M - t /\ j # b /\ j # 0 /\ j \in Slots
    BY <1>2 DEF Slots
  <2> QED BY <1>3, <1>9, <2>1
<1>14. ASSUME NEW j \in M - (t + 1) + 1 .. M
       PROVE  f.slot[j] = M - j /\ f.ent[M - j] = Entry(nd, Count(nd) - (M - j))
  <2>1. CASE j = b
    BY <1>2, <1>6, <1>8, <1>9, <2>1
  <2>2. CASE j # b
    <3>1. j \in M - t + 1 .. M /\ j \in Slots /\ j # 0 /\ M - j \in Entries /\ M - j # t
      BY <1>2, <2>2 DEF Slots, Entries
    <3> QED BY <1>3, <1>8, <1>9, <2>2, <3>1
  <2> QED BY <2>1, <2>2
<1> QED BY <1>7, <1>8, <1>10, <1>11, <1>12, <1>13, <1>14 DEF Taken, f

\* The empty node is sorted, and is where the loop begins.
LEMMA EmptyOrdered ==
  /\ Ordered(EmptyNode) /\ Count(EmptyNode) = 0 /\ Stored(EmptyNode) = {}
  /\ \A nd : Taken(nd, 0, EmptyNode)
<1>1. /\ EmptyNode = [slot |-> EmptyNode.slot, ent |-> EmptyNode.ent]
      /\ EmptyNode.slot = [j \in Slots |-> 0] /\ EmptyNode.ent = [i \in Entries |-> NoEntry]
  BY DEF EmptyNode
<1>2. EmptyNode.slot \in [Slots -> Slots] /\ Count(EmptyNode) = 0
  BY <1>1, Sizes DEF Count
<1>3. DOMAIN EmptyNode.ent = Entries /\ \A i \in Entries : EmptyNode.ent[i].key \in Nat
  BY <1>1 DEF NoEntry
<1>4. Ordered(EmptyNode)
  BY <1>1, <1>2, <1>3 DEF Ordered
<1>5. Stored(EmptyNode) = {}
  BY <1>2 DEF Stored, Used
<1>6. ASSUME NEW nd PROVE Taken(nd, 0, EmptyNode)
  <2>1. \A j \in 1 .. MIN_LIVE_ENTRIES : EmptyNode.slot[j] = 0
    <3>1. 1 .. MIN_LIVE_ENTRIES \subseteq Slots
      BY Sizes DEF Slots
    <3> QED BY <1>1, <3>1
  <2>2. ~(\E j \in MIN_LIVE_ENTRIES - 0 + 1 .. MIN_LIVE_ENTRIES : TRUE)
    BY Sizes
  <2>3. MIN_LIVE_ENTRIES - 0 = MIN_LIVE_ENTRIES
    BY Sizes
  <2> QED BY <1>1, <1>2, <1>3, <2>1, <2>2, <2>3 DEF Taken
<1> QED BY <1>2, <1>4, <1>5, <1>6

\* The new node of a split holds the largest entries, in order.
LEMMA UpperHalfOrdered ==
  ASSUME NEW nd, Ordered(nd), MIN_LIVE_ENTRIES \in 1 .. 3,
         NEW m, m = Count(nd) - MIN_LIVE_ENTRIES, m >= 0
  PROVE  /\ Ordered(UpperHalf(nd)) /\ Count(UpperHalf(nd)) = MIN_LIVE_ENTRIES
         /\ \A j \in 1 .. MIN_LIVE_ENTRIES : Entry(UpperHalf(nd), j) = Entry(nd, m + j)
<1> DEFINE M == MIN_LIVE_ENTRIES
<1>1. PICK g : /\ \A j \in 1 .. M + 1 : g[j] = Moved(nd, g, j)
               /\ UpperHalf(nd) = g[1]
  BY MoveLoop
<1>2. M \in Nat /\ M > 0 /\ M < NODE_SIZE /\ NODE_SIZE \in Nat /\ Count(nd) \in Nat /\ Count(nd) >= M
  BY Sizes, OrderedCount
<1> DEFINE T == {t \in Nat : Taken(nd, t, g[M + 1 - t])}
<1>3. 0 \in T
  <2>1. g[M + 1] = EmptyNode
    BY <1>1, <1>2 DEF Moved
  <2>2. M + 1 - 0 = M + 1 /\ 0 \in Nat
    BY <1>2
  <2> QED BY <2>1, <2>2, EmptyOrdered
<1>4. ASSUME NEW t \in 0 .. M - 1, t \in T PROVE t + 1 \in T
  <2>1. M - t \in 1 .. M + 1 /\ M - t # M + 1 /\ (M - t) + 1 = M + 1 - t /\ M + 1 - (t + 1) = M - t /\ t + 1 \in Nat
    BY <1>2
  <2>2. g[M - t] = Move(nd, g[M + 1 - t], M - t)
    BY <1>1, <2>1 DEF Moved
  <2>3. Taken(nd, t, g[M + 1 - t])
    BY <1>4
  <2>4. Taken(nd, t + 1, Move(nd, g[M + 1 - t], M - t))
    BY <1>2, <2>3, MoveTaken
  <2> QED BY <2>1, <2>2, <2>4
<1>5. M \in T
  <2>1. M \in 0 .. M
    BY <1>2
  <2> HIDE DEF T
  <2> QED BY <1>2, <1>3, <1>4, <2>1, Ascent
<1> DEFINE f == UpperHalf(nd)
<1>6. Taken(nd, M, f)
  <2>1. M + 1 - M = 1
    BY <1>2
  <2> QED BY <1>1, <1>5, <2>1
<1> HIDE DEF f
<1>7. /\ f = [slot |-> f.slot, ent |-> f.ent]
      /\ f.slot \in [Slots -> Slots] /\ DOMAIN f.ent = Entries /\ Count(f) = M
      /\ \A i \in Entries : f.ent[i].key \in Nat
  BY <1>6 DEF Taken
<1>8. ASSUME NEW j \in 1 .. M
      PROVE  f.slot[j] = M - j /\ M - j \in Entries /\ m + j \in 1 .. Count(nd) /\ Entry(f, j) = Entry(nd, m + j)
  <2>1. j \in M - M + 1 .. M /\ M - j \in Entries /\ m + j \in 1 .. Count(nd) /\ Count(nd) - (M - j) = m + j
    BY <1>2 DEF Entries
  <2>2. f.slot[j] = M - j /\ f.ent[M - j] = Entry(nd, Count(nd) - (M - j))
    BY <1>6, <2>1 DEF Taken
  <2> QED BY <2>1, <2>2 DEF Entry
<1>9. Ordered(f)
  <2>1. ASSUME NEW i \in 1 .. M, NEW j \in 1 .. M, i < j PROVE Key(f, i) < Key(f, j)
    <3>1. Key(f, i) = Key(nd, m + i) /\ Key(f, j) = Key(nd, m + j)
      BY <1>8 DEF Entry, Key
    <3>2. m + i < m + j /\ m + i \in 1 .. Count(nd) /\ m + j \in 1 .. Count(nd)
      BY <1>2, <1>8, <2>1
    <3> QED BY <3>1, <3>2 DEF Ordered
  <2> QED BY <1>7, <1>8, <2>1 DEF Ordered
<1> QED BY <1>7, <1>8, <1>9 DEF f

\* Slot 1 has the smallest key.
LEMMA FirstKey ==
  ASSUME NEW nd, Ordered(nd), Count(nd) > 0
  PROVE  /\ Entry(nd, 1) \in Stored(nd) /\ Entry(nd, 1).key = Key(nd, 1)
         /\ \A x \in Stored(nd) : x.key \in Nat /\ Key(nd, 1) <= x.key
<1>1. Count(nd) \in Nat /\ 1 \in 1 .. Count(nd)
  BY OrderedCount
<1>2. Entry(nd, 1) \in Stored(nd) /\ Entry(nd, 1).key = Key(nd, 1)
  BY <1>1, StoredSlots DEF Entry, Key
<1>3. ASSUME NEW x \in Stored(nd) PROVE x.key \in Nat /\ Key(nd, 1) <= x.key
  <2>1. PICK j \in 1 .. Count(nd) : x = Entry(nd, j)
    BY StoredSlots
  <2>2. x.key = Key(nd, j) /\ Key(nd, j) \in Nat /\ Key(nd, 1) \in Nat
    BY <1>1, <2>1, OrderedCount DEF Entry, Key
  <2>3. j = 1 \/ Key(nd, 1) < Key(nd, j)
    BY <1>1 DEF Ordered
  <2> QED BY <2>2, <2>3
<1> QED BY <1>2, <1>3

\* A full leaf and a new key, over two nodes: nothing is lost, and the two are
\* parted at the first key of the upper one.
LEMMA SplitOrdered ==
  ASSUME NEW nd, Ordered(nd), Count(nd) = NODE_SIZE, MIN_LIVE_ENTRIES \in 1 .. 3,
         NEW key \in Nat, NEW ptr, \A j \in 1 .. Count(nd) : Key(nd, j) # key,
         NEW l, l = Split(nd, key, ptr).left, NEW r, r = Split(nd, key, ptr).right
  PROVE  /\ Ordered(l) /\ Ordered(r)
         /\ Stored(l) \cup Stored(r) = Stored(nd) \cup {[key |-> key, ptr |-> ptr]}
         /\ \A a \in Stored(l), b \in Stored(r) : a.key < Key(r, 1) /\ Key(r, 1) <= b.key
<1> DEFINE M == MIN_LIVE_ENTRIES
           m == Count(nd) - M
           low == LowerHalf(nd)
           up == UpperHalf(nd)
           x == [key |-> key, ptr |-> ptr]
           n == Count(nd)
<1>1. M \in Nat /\ M > 0 /\ m \in Nat /\ M < NODE_SIZE /\ m < NODE_SIZE /\ NODE_SIZE \in Nat /\ n \in Nat /\ m + M = n
  BY Sizes
<1>2. /\ Ordered(low) /\ Count(low) = m /\ Stored(low) = {Entry(nd, j) : j \in 1 .. m}
      /\ \A j \in 1 .. m : Key(low, j) = Key(nd, j)
  BY <1>1, LowerHalfOrdered
<1>3. /\ Ordered(up) /\ Count(up) = M
      /\ \A j \in 1 .. M : Entry(up, j) = Entry(nd, m + j)
  BY <1>1, UpperHalfOrdered
<1>4. /\ l = IF Key(up, 1) > key THEN Inserted(low, key, ptr) ELSE low
      /\ r = IF Key(up, 1) > key THEN up ELSE Inserted(up, key, ptr)
  BY DEF Split
<1> HIDE DEF low, up
<1>5. \A j \in 1 .. M : m + j \in 1 .. n /\ Key(up, j) = Key(nd, m + j)
  BY <1>1, <1>3 DEF Entry, Key
<1>6. Stored(low) \cup Stored(up) = Stored(nd)
  <2>1. ASSUME NEW y PROVE y \in Stored(nd) <=> y \in Stored(low) \/ y \in Stored(up)
    <3>1. y \in Stored(nd) <=> \E j \in 1 .. n : y = Entry(nd, j)
      BY StoredSlots
    <3>2. y \in Stored(up) <=> \E j \in 1 .. M : y = Entry(nd, m + j)
      BY <1>3, StoredSlots
    <3>3. y \in Stored(low) <=> \E j \in 1 .. m : y = Entry(nd, j)
      BY <1>2
    <3>4. ASSUME NEW j \in 1 .. n PROVE j \in 1 .. m \/ (j - m \in 1 .. M /\ m + (j - m) = j)
      BY <1>1
    <3>5. \A j \in 1 .. m : j \in 1 .. n
      BY <1>1
    <3> QED BY <1>5, <3>1, <3>2, <3>3, <3>4, <3>5
  <2> QED BY <2>1
<1>7. ASSUME NEW a \in Stored(low), NEW b \in Stored(up)
      PROVE  a.key \in Nat /\ b.key \in Nat /\ a.key < b.key
  <2>1. PICK i \in 1 .. m : a = Entry(nd, i)
    BY <1>2
  <2>2. PICK j \in 1 .. M : b = Entry(nd, m + j)
    BY <1>3, StoredSlots
  <2>3. i \in 1 .. n /\ m + j \in 1 .. n /\ i < m + j
    BY <1>1
  <2>4. Key(nd, i) < Key(nd, m + j) /\ Key(nd, i) \in Nat /\ Key(nd, m + j) \in Nat
    BY <2>3, OrderedCount DEF Ordered
  <2> QED BY <2>1, <2>2, <2>4 DEF Entry, Key
<1>8. /\ Entry(up, 1) \in Stored(up) /\ Entry(up, 1).key = Key(up, 1) /\ Key(up, 1) \in Nat
      /\ \A b \in Stored(up) : b.key \in Nat /\ Key(up, 1) <= b.key
  BY <1>1, <1>3, FirstKey
<1>9. CASE Key(up, 1) > key
  <2>1. l = Inserted(low, key, ptr) /\ r = up
    BY <1>4, <1>9
  <2>2. \A j \in 1 .. Count(low) : Key(low, j) # key
    BY <1>1, <1>2
  <2>3. Ordered(l) /\ Stored(l) = Stored(low) \cup {x}
    BY <1>1, <1>2, <2>1, <2>2, InsertedOrdered
  <2>4. ASSUME NEW a \in Stored(l), NEW b \in Stored(r) PROVE a.key < Key(r, 1) /\ Key(r, 1) <= b.key
    <3>1. CASE a = x
      BY <1>8, <1>9, <2>1, <3>1
    <3>2. CASE a \in Stored(low)
      BY <1>7, <1>8, <2>1, <3>2
    <3> QED BY <2>3, <3>1, <3>2
  <2> QED BY <1>3, <1>6, <2>1, <2>3, <2>4
<1>10. CASE ~(Key(up, 1) > key)
  <2>1. l = low /\ r = Inserted(up, key, ptr)
    BY <1>4, <1>10
  <2>2. \A j \in 1 .. Count(up) : Key(up, j) # key
    BY <1>3, <1>5
  <2>3. Ordered(r) /\ Stored(r) = Stored(up) \cup {x} /\ Count(r) = M + 1
    BY <1>1, <1>3, <2>1, <2>2, InsertedOrdered
  <2>4. /\ Entry(r, 1) \in Stored(r) /\ Entry(r, 1).key = Key(r, 1)
        /\ \A b \in Stored(r) : b.key \in Nat /\ Key(r, 1) <= b.key
    BY <1>1, <2>3, FirstKey
  <2>5. ASSUME NEW a \in Stored(l), NEW b \in Stored(r) PROVE a.key < b.key
    <3>1. CASE b = x
      <4>1. a.key < Key(up, 1) /\ Key(up, 1) <= key /\ a.key \in Nat
        BY <1>7, <1>8, <1>10, <2>1
      <4> QED BY <1>8, <3>1, <4>1
    <3>2. CASE b \in Stored(up)
      BY <1>7, <2>1, <3>2
    <3> QED BY <2>3, <3>1, <3>2
  <2> QED BY <1>2, <1>6, <2>1, <2>3, <2>4, <2>5
<1> QED BY <1>9, <1>10

-----------------------------------------------------------------------------
(* The leaf *)

\* What WellFormed asks is what the order gives.
LEMMA OrderedWellFormed ==
  ASSUME NEW nd, Ordered(nd)
  PROVE  WellFormed(nd)
<1>1. Count(nd) \in Nat /\ Count(nd) <= NODE_SIZE
  BY OrderedCount
<1>2. Cardinality(Used(nd)) = Count(nd) /\ Used(nd) \subseteq Entries
  BY UsedCount
<1>3. ASSUME NEW j \in 1 .. Count(nd) - 1 PROVE Key(nd, j) < Key(nd, j + 1)
  <2>1. j \in 1 .. Count(nd) /\ j + 1 \in 1 .. Count(nd) /\ j < j + 1
    BY <1>1
  <2> QED BY <2>1 DEF Ordered
<1> QED BY <1>1, <1>2, <1>3 DEF WellFormed

\* The inductive invariant: EntriesKept, and nodes in the order the search and
\* the loops of a split rely on.
IInv == keys \subseteq Keys /\ Ordered(leaf) /\ Ordered(right) /\ EntriesKept

\* Before a split, the leaf has the entries of keys and no others.
LEMMA BeforeSplit ==
  ASSUME IInv, right = EmptyNode, NEW k \in Keys
  PROVE  /\ Stored(leaf) = {[key |-> i, ptr |-> i] : i \in keys} /\ Stored(right) = {}
         /\ k \in Nat
         /\ \A j \in 1 .. Count(leaf) : Key(leaf, j) \in keys
         /\ k \in keys => \E j \in 1 .. Count(leaf) : Key(leaf, j) = k
<1>1. Stored(right) = {}
  BY EmptyOrdered
<1>2. Stored(leaf) = {[key |-> i, ptr |-> i] : i \in keys}
  BY <1>1 DEF IInv, EntriesKept
<1>3. ASSUME NEW j \in 1 .. Count(leaf) PROVE Key(leaf, j) \in keys
  <2>1. Entry(leaf, j) \in Stored(leaf)
    BY StoredSlots
  <2>2. PICK i \in keys : Entry(leaf, j) = [key |-> i, ptr |-> i]
    BY <1>2, <2>1
  <2>3. Entry(leaf, j).key = i
    BY <2>2
  <2> QED BY <2>3 DEF Entry, Key
<1>4. ASSUME k \in keys PROVE \E j \in 1 .. Count(leaf) : Key(leaf, j) = k
  <2>1. [key |-> k, ptr |-> k] \in Stored(leaf)
    BY <1>2, <1>4
  <2>2. PICK j \in 1 .. Count(leaf) : [key |-> k, ptr |-> k] = Entry(leaf, j)
    BY <2>1, StoredSlots
  <2>3. Entry(leaf, j).key = k
    BY <2>2
  <2> QED BY <2>3 DEF Entry, Key
<1> QED BY <1>1, <1>2, <1>3, <1>4, KeysAssumption

\* Insert, with or without a split, and Delete keep IInv.
LEMMA Kept ==
  ASSUME MIN_LIVE_ENTRIES \in 1 .. 3
  PROVE  /\ Init => IInv
         /\ IInv /\ [Next]_vars => IInv'
<1>1. ASSUME Init PROVE IInv
  <2>1. leaf = EmptyNode /\ right = EmptyNode /\ keys = {}
    BY <1>1 DEF Init
  <2> QED BY <2>1, EmptyOrdered DEF IInv, EntriesKept
<1>2. ASSUME IInv, NEW k \in Keys, Insert(k) PROVE IInv'
  <2>1. right = EmptyNode /\ k \notin keys /\ keys' = keys \cup {k} /\ Ordered(leaf) /\ Ordered(right)
    BY <1>2 DEF Insert, IInv
  <2>2. /\ Stored(leaf) = {[key |-> i, ptr |-> i] : i \in keys} /\ Stored(right) = {}
        /\ k \in Nat /\ \A j \in 1 .. Count(leaf) : Key(leaf, j) \in keys
    BY <1>2, <2>1, BeforeSplit
  <2>3. \A j \in 1 .. Count(leaf) : Key(leaf, j) # k
    BY <2>1, <2>2
  <2> DEFINE x == [key |-> k, ptr |-> k]
  <2>4. {[key |-> i, ptr |-> i] : i \in keys'} = Stored(leaf) \cup {x}
    BY <2>1, <2>2
  <2>5. CASE Count(leaf) = NODE_SIZE
    <3>1. leaf' = Split(leaf, k, k).left /\ right' = Split(leaf, k, k).right
      BY <1>2, <2>5 DEF Insert
    <3>2. PICK l, r : l = Split(leaf, k, k).left /\ r = Split(leaf, k, k).right
      OBVIOUS
    <3>3. /\ Ordered(l) /\ Ordered(r)
          /\ Stored(l) \cup Stored(r) = Stored(leaf) \cup {x}
          /\ \A a \in Stored(l), b \in Stored(r) : a.key < Key(r, 1) /\ Key(r, 1) <= b.key
      BY <2>1, <2>2, <2>3, <2>5, <3>2, SplitOrdered
    <3>4. leaf' = l /\ right' = r
      BY <3>1, <3>2
    <3> QED BY <1>2, <2>1, <2>4, <3>3, <3>4 DEF IInv, EntriesKept
  <2>6. CASE Count(leaf) # NODE_SIZE
    <3>1. leaf' = Inserted(leaf, k, k) /\ right' = right
      BY <1>2, <2>6 DEF Insert
    <3>2. Count(leaf) < NODE_SIZE
      BY <2>1, <2>6, OrderedCount, Sizes
    <3>3. PICK l : l = Inserted(leaf, k, k)
      OBVIOUS
    <3>4. Ordered(l) /\ Stored(l) = Stored(leaf) \cup {x}
      BY <2>1, <2>2, <2>3, <3>2, <3>3, InsertedOrdered
    <3>5. leaf' = l
      BY <3>1, <3>3
    <3> QED BY <1>2, <2>1, <2>2, <2>4, <3>1, <3>4, <3>5 DEF IInv, EntriesKept
  <2> QED BY <2>5, <2>6
<1>3. ASSUME IInv, NEW k \in Keys, Delete(k) PROVE IInv'
  <2>1. /\ right = EmptyNode /\ k \in keys /\ keys' = keys \ {k} /\ Ordered(leaf) /\ Ordered(right)
        /\ leaf' = Deleted(leaf, k) /\ right' = right
    BY <1>3 DEF Delete, IInv
  <2>2. /\ Stored(leaf) = {[key |-> i, ptr |-> i] : i \in keys} /\ Stored(right) = {} /\ k \in Nat
        /\ \E j \in 1 .. Count(leaf) : Key(leaf, j) = k
    BY <1>3, <2>1, BeforeSplit
  <2>3. PICK q \in 1 .. Count(leaf) : Key(leaf, q) = k
    BY <2>2
  <2>4. PICK l : l = Deleted(leaf, k)
    OBVIOUS
  <2>5. Ordered(l) /\ Stored(l) = {x \in Stored(leaf) : x.key # k}
    BY <2>1, <2>2, <2>3, <2>4, DeletedOrdered
  <2>6. Stored(l) = {[key |-> i, ptr |-> i] : i \in keys'}
    BY <2>1, <2>2, <2>5
  <2>7. leaf' = l
    BY <2>1, <2>4
  <2> QED BY <1>3, <2>1, <2>2, <2>5, <2>6, <2>7 DEF IInv, EntriesKept
<1>4. ASSUME IInv, UNCHANGED vars PROVE IInv'
  BY <1>4 DEF IInv, EntriesKept, vars
<1> QED BY <1>1, <1>2, <1>3, <1>4 DEF Next

\* After any inserts and deletes, and over both nodes of the split that ends
\* them, the slot word names each live entry once and in key order (slot_only/
\* wbtree.c: Append, Search, insert_in_leaf, delete_in_leaf, the two loops of a
\* split), for every node size and up to three moved entries; the code moves 3.
THEOREM Sorted ==
  ASSUME MIN_LIVE_ENTRIES \in 1 .. 3
  PROVE  Spec => []NodesWellFormed
<1>1. IInv => NodesWellFormed
  BY OrderedWellFormed DEF IInv, NodesWellFormed
<1> QED BY <1>1, Kept, PTL DEF Spec

\* The two nodes hold the keys inserted and not deleted, each under its own
\* pointer, and the split parts them at the first key of the right node.
THEOREM NothingLost ==
  ASSUME MIN_LIVE_ENTRIES \in 1 .. 3
  PROVE  Spec => []EntriesKept
<1>1. IInv => EntriesKept
  BY DEF IInv
<1> QED BY <1>1, Kept, PTL DEF Spec
=============================================================================
