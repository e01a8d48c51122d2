-------------------------- MODULE LazyPath_proofs ---------------------------
(***************************************************************************)
(* Proofs about the path-compressed trees, for any keys, any number of     *)
(* nodes, both trees and either ordering of clflush.                       *)
(*                                                                         *)
(* First what a tree is (Shape): each object hangs below one pointer, at   *)
(* one depth, on the path of a key that stands for it.  art_search,        *)
(* minimum, prefix_mismatch and recursive_insert's recursion are loops,    *)
(* and keep on the way of their key; each ends by induction on the depth.  *)
(* A node put between a pointer and what hung there (Interposed), over it  *)
(* or over a copy of it, leaves a tree: so do the four ways to insert.     *)
(*                                                                         *)
(* Then what is flushed when (IInv): the pointer that publishes an insert  *)
(* goes out behind everything it leads to, and when a call returns nothing *)
(* it stored is in the cache alone.                                        *)
(*                                                                         *)
(* Last, both together (RInv): the medium holds a tree S and the cache a   *)
(* tree S2, and while an insert is under way only the word at.ref of S is  *)
(* still to be written.  That word's arrival is the durable map's step.    *)
(* Of any such tree, Paths finds the forks of its keys and no other path.  *)
(***************************************************************************)
EXTENDS LazyPathTree, PMem_proofs, SequenceTheorems, FiniteSetTheorems

(* Numbers *)

\* What passes from each number to the next holds all the way up.
LEMMA Ascent ==
  ASSUME NEW b \in Nat, NEW T, 0 \in T,
         \A j \in 0 .. b - 1 : j \in T => j + 1 \in T
  PROVE  \A j \in 0 .. b : j \in T
<1> DEFINE S == {i \in 0 .. b : i \notin T}
<1>1. S \subseteq Nat
  OBVIOUS
<1>2. ASSUME NEW i \in S, \A m \in S : i <= m PROVE FALSE
  <2>1. i \in 0 .. b /\ i # 0 /\ i \notin T
    BY <1>2
  <2>2. i - 1 \in 0 .. b - 1 /\ i - 1 \notin S
    BY <1>2, <2>1
  <2> QED BY <2>1, <2>2
<1> HIDE DEF S
<1>3. S = {}
  BY <1>1, <1>2, LeastOf
<1> QED BY <1>3 DEF S

\* f applied again and again, from x on.
Again(f, x, g, n) == \A j \in 0 .. n : g[j] = IF j = 0 THEN x ELSE f[g[j - 1]]

Loop(f, x, n, g) == g = [j \in 0 .. n |-> IF j = 0 THEN x ELSE f[g[j - 1]]]

\* A loop has as many turns as one likes.
LEMMA Repeated ==
  ASSUME NEW f, NEW x, NEW n \in Nat
  PROVE  \E g : Loop(f, x, n, g)
<1> DEFINE T == {i \in 0 .. n : \E g : Again(f, x, g, i)}
<1>1. 0 \in T
  <2> DEFINE e == [j \in {0} |-> x]
  <2>1. Again(f, x, e, 0)
    BY DEF Again
  <2> HIDE DEF e
  <2> QED BY <2>1
<1>2. ASSUME NEW i \in 0 .. n - 1, i \in T PROVE i + 1 \in T
  <2>1. PICK g : Again(f, x, g, i)
    BY <1>2
  <2> DEFINE e == [j \in 0 .. n |-> IF j = i + 1 THEN f[g[i]] ELSE g[j]]
  <2>2. e[i + 1] = f[g[i]] /\ \A j \in 0 .. i : e[j] = g[j]
    OBVIOUS
  <2> HIDE DEF e
  <2>3. Again(f, x, e, i + 1)
    <3> SUFFICES ASSUME NEW j \in 0 .. i + 1 PROVE e[j] = IF j = 0 THEN x ELSE f[e[j - 1]]
      BY DEF Again
    <3>1. CASE j = i + 1
      BY <2>2, <3>1
    <3>2. CASE j # i + 1
      <4>1. j \in 0 .. i /\ (j # 0 => j - 1 \in 0 .. i)
        BY <3>2
      <4> QED BY <2>1, <2>2, <4>1 DEF Again
    <3> QED BY <3>1, <3>2
  <2>4. i + 1 \in 0 .. n
    OBVIOUS
  <2> QED BY <2>3, <2>4
<1>3. n \in T
  <2> HIDE DEF T
  <2> QED BY <1>1, <1>2, Ascent
<1>4. PICK g : Again(f, x, g, n)
  BY <1>3
<1> DEFINE e == [j \in 0 .. n |-> g[j]]
<1>5. \A j \in 0 .. n : e[j] = g[j]
  OBVIOUS
<1> HIDE DEF e
<1>6. ASSUME NEW j \in 0 .. n PROVE e[j] = IF j = 0 THEN x ELSE f[e[j - 1]]
  <2>1. j # 0 => j - 1 \in 0 .. n
    OBVIOUS
  <2> QED BY <1>4, <1>5, <2>1 DEF Again
<1>7. e = [j \in 0 .. n |-> IF j = 0 THEN x ELSE f[e[j - 1]]]
  BY <1>6 DEF e
<1> QED BY <1>7 DEF Loop

\* What a loop starts in and stays in, it is in at every turn.
LEMMA LoopIn ==
  ASSUME NEW D, NEW f, NEW x, NEW n \in Nat, NEW g, Loop(f, x, n, g),
         x \in D, \A s \in D : f[s] \in D
  PROVE  /\ g[0] = x /\ g = [j \in 0 .. n |-> g[j]]
         /\ \A j \in 0 .. n : g[j] \in D
         /\ \A j \in 0 .. n : j # 0 => g[j] = f[g[j - 1]]
<1>1. g = [j \in 0 .. n |-> IF j = 0 THEN x ELSE f[g[j - 1]]]
  BY DEF Loop
<1> DEFINE T == {j \in 0 .. n : g[j] \in D}
<1>2. g[0] = x /\ 0 \in T /\ g = [j \in 0 .. n |-> g[j]] /\ \A j \in 0 .. n : j # 0 => g[j] = f[g[j - 1]]
  BY <1>1
<1>3. ASSUME NEW j \in 0 .. n - 1, j \in T PROVE j + 1 \in T
  <2>1. j + 1 \in 0 .. n /\ j + 1 # 0 /\ (j + 1) - 1 = j
    OBVIOUS
  <2>2. g[j + 1] = f[g[j]]
    BY <1>2, <2>1
  <2> QED BY <1>3, <2>1, <2>2
<1>4. \A j \in 0 .. n : j \in T
  <2> HIDE DEF T
  <2> QED BY <1>2, <1>3, Ascent
<1> QED BY <1>2, <1>4

-----------------------------------------------------------------------------
(* Digits *)

\* What the sizes are.
LEMMA Sizes ==
  /\ MAX_DEPTH \in Nat /\ MAX_HEIGHT = MAX_DEPTH + 1 /\ MAX_HEIGHT \in Nat
  /\ FAN \in Nat /\ FAN > 0 /\ HDR = FAN /\ MaxNodes \in Nat /\ Keys \subseteq Nat
  /\ VALUE = 0 /\ KEY = 1
<1>1. FAN \in Nat /\ FAN > 0
  BY DigitsAssumption
<1>2. MAX_DEPTH \in Nat /\ MAX_HEIGHT = MAX_DEPTH + 1 /\ MAX_HEIGHT \in Nat
  BY ArtKeysAssumption DEF MAX_HEIGHT
<1>3. Keys \subseteq Nat
  BY LazyPathAssumption
<1> QED BY <1>1, <1>2, <1>3, LazyPathAssumption DEF HDR, VALUE, KEY

\* Objects of different kinds are different, and none is the null pointer.
LEMMA Objects ==
  /\ INodes \subseteq Nat /\ Leaves \subseteq Nat /\ NULL \notin INodes /\ NULL \notin Leaves /\ NULL # 0
  /\ 0 \notin INodes /\ 0 \notin Leaves /\ \A n \in INodes : n \notin Leaves
  /\ \A k \in Keys : Leaf(k) \in Leaves
  /\ \A j, k \in Keys : Leaf(j) = Leaf(k) => j = k
BY Sizes, LazyPathAssumption DEF INodes, Leaves, Leaf

\* A digit names a child.
LEMMA Digit ==
  ASSUME NEW k \in Keys, NEW d \in 0 .. MAX_DEPTH
  PROVE  get_index(k, d) \in 0 .. FAN - 1
<1> DEFINE q == 2 ^ ((MAX_DEPTH - d) * NODE_BITS)
<1>1. q \in Nat \ {0} /\ k \in Nat
  BY DigitsAssumption, Sizes
<1> HIDE DEF q
<1>2. k \div q \in Nat
  BY <1>1
<1>3. (k \div q) % FAN \in 0 .. FAN - 1
  BY <1>2, Sizes
<1> QED BY <1>3 DEF get_index, q

\* Two keys begin with the same e digits.
Same(j, k, e) == \A d \in 0 .. e - 1 : get_index(j, d) = get_index(k, d)

\* len digits of k from depth d on.
LEMMA DigitsAre ==
  ASSUME NEW k \in Keys, NEW d \in Nat, NEW len \in Nat, d + len <= MAX_HEIGHT
  PROVE  /\ Digits(k, d, len) \in Seq(Nat) /\ Len(Digits(k, d, len)) = len
         /\ \A i \in 1 .. len : Digits(k, d, len)[i] = get_index(k, d + i - 1)
<1>1. \A i \in 1 .. len : get_index(k, d + i - 1) \in Nat
  <2> SUFFICES ASSUME NEW i \in 1 .. len PROVE get_index(k, d + i - 1) \in Nat
    OBVIOUS
  <2>1. d + i - 1 \in 0 .. MAX_DEPTH
    BY Sizes
  <2> QED BY <2>1, Digit, Sizes
<1> QED BY <1>1 DEF Digits

\* Agree finds the first element at which two sequences differ.
LEMMA AgreeIs ==
  ASSUME NEW s \in Seq(Nat), NEW t \in Seq(Nat)
  PROVE  /\ Agree(s, t) \in 0 .. Len(s) /\ Agree(s, t) \in 0 .. Len(t)
         /\ \A i \in 1 .. Agree(s, t) : s[i] = t[i]
         /\ Agree(s, t) < Len(s) /\ Agree(s, t) < Len(t) => s[Agree(s, t) + 1] # t[Agree(s, t) + 1]
         /\ LongestCommonPrefix({s, t}) = SubSeq(s, 1, Agree(s, t))
<1> DEFINE P(n) == \A i \in 1 .. n : s[i] = t[i]
           C == CommonPrefixes({s, t})
<1>1. PICK n \in 0 .. Len(s) : n <= Len(t) /\ P(n) /\ (n < Len(s) /\ n < Len(t) => s[n + 1] # t[n + 1])
  <2> DEFINE B == {n \in 0 .. Len(s) : n = Len(s) \/ n = Len(t) \/ (n < Len(t) /\ s[n + 1] # t[n + 1])}
  <2>1. B \subseteq Nat /\ B # {}
    OBVIOUS
  <2> HIDE DEF B
  <2>2. PICK n \in B : \A m \in B : n <= m
    BY <2>1, LeastOf
  <2>3. n \in 0 .. Len(s) /\ Len(s) \in B /\ (Len(t) <= Len(s) => Len(t) \in B) /\ Len(s) \in Nat /\ Len(t) \in Nat
    BY DEF B
  <2>4. n <= Len(t)
    BY <2>2, <2>3
  <2>5. ASSUME NEW i \in 1 .. n PROVE s[i] = t[i]
    <3>1. i - 1 \in 0 .. Len(s) /\ i - 1 < n /\ i - 1 < Len(t)
      BY <2>3, <2>4
    <3>2. i - 1 \notin B
      BY <2>2, <2>3, <3>1
    <3> QED BY <3>1, <3>2 DEF B
  <2>6. n < Len(s) /\ n < Len(t) => s[n + 1] # t[n + 1]
    BY <2>3 DEF B
  <2> QED BY <2>3, <2>4, <2>5, <2>6
<1>2. SubSeq(s, 1, n) \in C
  <2>1. SubSeq(s, 1, n) \in UNION {Prefixes(q) : q \in {s, t}}
    BY DEF Prefixes
  <2>2. /\ Len(SubSeq(s, 1, n)) = n
        /\ SubSeq(SubSeq(s, 1, n), 1, n) = SubSeq(s, 1, n)
        /\ SubSeq(t, 1, n) = SubSeq(s, 1, n)
    BY <1>1
  <2>3. IsPrefix(SubSeq(s, 1, n), s) /\ IsPrefix(SubSeq(s, 1, n), t)
    BY <1>1, <2>2 DEF IsPrefix
  <2> QED BY <2>1, <2>3 DEF CommonPrefixes
<1>3. ASSUME NEW x \in C
      PROVE  /\ Len(x) \in Nat /\ Len(x) <= Len(s) /\ Len(x) <= Len(t) /\ P(Len(x))
             /\ x = SubSeq(s, 1, Len(x))
  <2>0. PICK q \in {s, t} : \E l \in 0 .. Len(q) : x = SubSeq(q, 1, l)
    BY DEF CommonPrefixes, Prefixes
  <2>1. PICK l \in 0 .. Len(q) : x = SubSeq(q, 1, l)
    BY <2>0
  <2>2. IsPrefix(x, s) /\ IsPrefix(x, t)
    BY DEF CommonPrefixes
  <2>3. Len(x) = l /\ l \in Nat
    BY <2>1
  <2>4. SubSeq(s, 1, l) = SubSeq(t, 1, l) /\ l <= Len(s) /\ l <= Len(t)
    BY <2>2, <2>3 DEF IsPrefix
  <2>5. \A i \in 1 .. l : s[i] = SubSeq(s, 1, l)[i] /\ t[i] = SubSeq(t, 1, l)[i]
    BY <2>3, <2>4
  <2>6. SubSeq(x, 1, Len(x)) = x
    BY <2>1, <2>3
  <2>7. SubSeq(x, 1, Len(x)) = SubSeq(s, 1, Len(x))
    BY <2>2 DEF IsPrefix
  <2> QED BY <2>3, <2>4, <2>5, <2>6, <2>7
<1>4. ASSUME NEW x \in C PROVE Len(x) <= n
  <2>1. Len(x) \in Nat /\ Len(x) <= Len(s) /\ Len(x) <= Len(t) /\ P(Len(x))
    BY <1>3
  <2>2. CASE Len(x) > n
    <3>1. n + 1 \in 1 .. Len(x) /\ n < Len(s) /\ n < Len(t)
      BY <2>1, <2>2
    <3> QED BY <1>1, <2>1, <3>1
  <2> QED BY <2>1, <2>2
<1>5. Len(SubSeq(s, 1, n)) = n
  OBVIOUS
<1> HIDE DEF C, P
<1>6. \E x \in C : \A y \in C : Len(y) <= Len(x)
  BY <1>2, <1>4, <1>5
<1>7. LongestCommonPrefix({s, t}) \in C /\ \A y \in C : Len(y) <= Len(LongestCommonPrefix({s, t}))
  BY <1>6 DEF LongestCommonPrefix, C
<1>8. Len(LongestCommonPrefix({s, t})) = n
  <2> DEFINE x == LongestCommonPrefix({s, t})
  <2>1. x \in C /\ \A y \in C : Len(y) <= Len(x)
    BY <1>7
  <2> HIDE DEF x
  <2>2. Len(x) \in Nat /\ Len(x) <= n
    BY <1>3, <1>4, <2>1
  <2>3. n <= Len(x)
    BY <1>2, <1>5, <2>1
  <2>4. n \in Nat
    BY <1>1
  <2> QED BY <2>2, <2>3, <2>4 DEF x
<1>9. Agree(s, t) = n
  BY <1>8 DEF Agree
<1>10. n \in 0 .. Len(t)
  <2>1. Len(t) \in Nat
    OBVIOUS
  <2> QED BY <1>1, <2>1
<1>11. LongestCommonPrefix({s, t}) = SubSeq(s, 1, n)
  BY <1>3, <1>7, <1>8
<1> QED BY <1>1, <1>9, <1>10, <1>11 DEF P

\* Where two keys' digits part, from depth d on.
LEMMA AgreeDigits ==
  ASSUME NEW j \in Keys, NEW k \in Keys, NEW d \in Nat, NEW len \in Nat, d + len <= MAX_HEIGHT,
         NEW n, n = Agree(Digits(j, d, len), Digits(k, d, len)), Same(j, k, d)
  PROVE  /\ n \in 0 .. len /\ Same(j, k, d + n)
         /\ n < len => get_index(j, d + n) # get_index(k, d + n)
<1> DEFINE s == Digits(j, d, len)
           t == Digits(k, d, len)
<1>1. /\ s \in Seq(Nat) /\ Len(s) = len /\ \A i \in 1 .. len : s[i] = get_index(j, d + i - 1)
      /\ t \in Seq(Nat) /\ Len(t) = len /\ \A i \in 1 .. len : t[i] = get_index(k, d + i - 1)
  BY DigitsAre
<1> HIDE DEF s, t
<1>2. /\ n \in 0 .. len /\ \A i \in 1 .. n : s[i] = t[i]
      /\ n < len => s[n + 1] # t[n + 1]
  BY <1>1, AgreeIs DEF s, t
<1>3. ASSUME NEW e \in 0 .. d + n - 1 PROVE get_index(j, e) = get_index(k, e)
  <2>1. CASE e < d
    BY <2>1 DEF Same
  <2>2. CASE e >= d
    <3>1. e - d + 1 \in 1 .. n /\ e - d + 1 \in 1 .. len /\ d + (e - d + 1) - 1 = e
      BY <1>2, <2>2
    <3> QED BY <1>1, <1>2, <3>1
  <2> QED BY <2>1, <2>2
<1>4. n < len => get_index(j, d + n) # get_index(k, d + n)
  <2> SUFFICES ASSUME n < len PROVE get_index(j, d + n) # get_index(k, d + n)
    OBVIOUS
  <2>1. n + 1 \in 1 .. len /\ d + (n + 1) - 1 = d + n
    BY <1>2
  <2> QED BY <1>1, <1>2, <2>1
<1> QED BY <1>2, <1>3, <1>4 DEF Same

\* Keys that agree agree on fewer digits, and the other way round.
LEMMA SameTo ==
  ASSUME NEW j, NEW k, NEW e \in Int, NEW d \in Int, Same(j, k, e), d <= e
  PROVE  Same(j, k, d) /\ Same(k, j, d)
BY DEF Same

\* Two keys that agree with a third agree with each other.
LEMMA SameVia ==
  ASSUME NEW j, NEW k, NEW l, NEW e, Same(j, k, e), Same(k, l, e)
  PROVE  Same(j, l, e)
BY DEF Same

-----------------------------------------------------------------------------
(* The tree *)

\* Where the path of inner node n ends, and how deep a child of o hangs.
End(c, dep, n) == dep[n] + c[n][HDR].partial_len
Level(c, dep, o) == IF o = 0 THEN 0 ELSE End(c, dep, o) + 1

\* The pointers of an object, and which keys go through one.
Ways(o) == IF o = 0 THEN {0} ELSE 0 .. FAN - 1
Through(c, dep, rep, o, w, k) ==
  o = 0 \/ (Same(k, rep[o], End(c, dep, o)) /\ get_index(k, End(c, dep, o)) = w)

Above(S) == {0} \cup (S \cap INodes)

\* Header, by the form of the tree.
HeaderOf(p, path) == [partial_len |-> Len(path), partial |-> IF p THEN path ELSE <<>>]

Headed(p, c, S, dep, rep) ==
  \A n \in S \cap INodes :
    \E len \in 0 .. MAX_DEPTH : dep[n] + len <= MAX_DEPTH /\ c[n][HDR] = HeaderOf(p, Digits(rep[n], dep[n], len))

\* No inner node is without a child.
Forked(c, S) == \A n \in S \cap INodes : \E i \in 0 .. FAN - 1 : c[n][i] # NULL

Holding(c, S, rep) == \A m \in S \cap Leaves : m = Leaf(rep[m]) /\ c[m][KEY] = rep[m]

Child(c, S, dep, rep, o, w, m) ==
  m \in S /\ dep[m] = Level(c, dep, o) /\ Through(c, dep, rep, o, w, rep[m])

Hanging(c, S, dep, rep) ==
  \A o \in Above(S) : \A w \in Ways(o) : c[o][w] = NULL \/ Child(c, S, dep, rep, o, w, c[o][w])

Hung(c, S) == \A m \in S : \E o \in Above(S) : \E w \in Ways(o) : c[o][w] = m

Once(c, S) ==
  \A o, o2 \in Above(S) : \A w \in Ways(o), w2 \in Ways(o2) :
    c[o][w] = c[o2][w2] => c[o][w] = NULL \/ (o = o2 /\ w = w2)

Placed(S, dep, rep) ==
  S \subseteq INodes \cup Leaves /\ dep \in [S -> 0 .. MAX_HEIGHT] /\ rep \in [S -> Keys]

\* c's tree is made of the objects S: each hangs at the depth dep below one
\* pointer, and rep is a key of it, or one that could be.
Shape(p, c, S, dep, rep) ==
  /\ Placed(S, dep, rep)
  /\ Headed(p, c, S, dep, rep) /\ Forked(c, S) /\ Holding(c, S, rep)
  /\ Hanging(c, S, dep, rep) /\ Hung(c, S) /\ Once(c, S)

\* What a tree's inner node is.
LEMMA InnerNode ==
  ASSUME NEW p, NEW c, NEW S, NEW dep, NEW rep, Shape(p, c, S, dep, rep), NEW n \in S \cap INodes
  PROVE  /\ n \in S /\ n \in INodes /\ n \in Nat /\ n # 0 /\ n # NULL /\ n \notin Leaves
         /\ dep[n] \in 0 .. MAX_DEPTH /\ rep[n] \in Keys
         /\ c[n][HDR].partial_len \in 0 .. MAX_DEPTH
         /\ End(c, dep, n) \in 0 .. MAX_DEPTH /\ dep[n] <= End(c, dep, n)
         /\ c[n][HDR] = HeaderOf(p, Digits(rep[n], dep[n], c[n][HDR].partial_len))
         /\ End(c, dep, n) = dep[n] + c[n][HDR].partial_len
         /\ dep[n] + c[n][HDR].partial_len <= MAX_HEIGHT
<1>1. PICK len \in 0 .. MAX_DEPTH : dep[n] + len <= MAX_DEPTH /\ c[n][HDR] = HeaderOf(p, Digits(rep[n], dep[n], len))
  BY DEF Shape, Headed
<1>2. n \in S /\ n \in INodes /\ n \in Nat /\ n # 0 /\ n # NULL /\ n \notin Leaves
  BY Objects
<1>3. dep[n] \in 0 .. MAX_HEIGHT /\ rep[n] \in Keys
  BY <1>2 DEF Shape, Placed
<1>4. dep[n] + len <= MAX_HEIGHT /\ dep[n] \in 0 .. MAX_DEPTH
  BY <1>1, <1>3, Sizes
<1>5. Len(Digits(rep[n], dep[n], len)) = len
  <2>1. dep[n] \in Nat /\ len \in Nat
    BY <1>3, Sizes
  <2> QED BY <1>3, <1>4, <2>1, DigitsAre
<1>6. c[n][HDR].partial_len = len
  BY <1>1, <1>5 DEF HeaderOf
<1>7. End(c, dep, n) = dep[n] + len
  BY <1>6 DEF End
<1> QED BY <1>1, <1>2, <1>3, <1>4, <1>6, <1>7, Sizes

\* What hangs below a pointer of the tree.
LEMMA ChildIs ==
  ASSUME NEW p, NEW c, NEW S, NEW dep, NEW rep, Shape(p, c, S, dep, rep),
         NEW n \in S \cap INodes, NEW i \in 0 .. FAN - 1, c[n][i] # NULL
  PROVE  /\ c[n][i] \in S /\ dep[c[n][i]] = End(c, dep, n) + 1 /\ rep[c[n][i]] \in Keys
         /\ Same(rep[c[n][i]], rep[n], End(c, dep, n)) /\ get_index(rep[c[n][i]], End(c, dep, n)) = i
<1>1. n # 0
  BY InnerNode
<1>2. n \in Above(S) /\ i \in Ways(n)
  BY <1>1 DEF Above, Ways
<1>3. Child(c, S, dep, rep, n, i, c[n][i])
  BY <1>2 DEF Shape, Hanging
<1> QED BY <1>1, <1>3 DEF Child, Level, Through, Shape, Placed

\* The root hangs at depth 0.
LEMMA RootIs ==
  ASSUME NEW p, NEW c, NEW S, NEW dep, NEW rep, Shape(p, c, S, dep, rep), c[0][0] # NULL
  PROVE  c[0][0] \in S /\ dep[c[0][0]] = 0
<1>1. 0 \in Above(S) /\ 0 \in Ways(0)
  BY DEF Above, Ways
<1>2. Child(c, S, dep, rep, 0, 0, c[0][0])
  BY <1>1 DEF Shape, Hanging
<1> QED BY <1>2 DEF Child, Level

\* What a tree's leaf is.
LEMMA LeafIs ==
  ASSUME NEW p, NEW c, NEW S, NEW dep, NEW rep, Shape(p, c, S, dep, rep), NEW m \in S, m \notin INodes
  PROVE  /\ m \in Leaves /\ rep[m] \in Keys /\ m = Leaf(rep[m]) /\ c[m][KEY] = rep[m]
         /\ dep[m] \in 0 .. MAX_HEIGHT /\ \A k \in Keys : m = Leaf(k) => rep[m] = k
<1>1. m \in Leaves /\ rep[m] \in Keys /\ dep[m] \in 0 .. MAX_HEIGHT
  BY DEF Shape, Placed
<1>2. m = Leaf(rep[m]) /\ c[m][KEY] = rep[m]
  BY <1>1 DEF Shape, Holding
<1> QED BY <1>1, <1>2, Objects

\* The objects a key hangs under: from the root on each leads to the next by the
\* key's own digits.
OnTheWay(c, dep, rep, k, A) ==
  /\ c[0][0] \in A
  /\ \A n \in A : n # Leaf(k) =>
       n \in INodes /\ Same(k, rep[n], End(c, dep, n)) /\ c[n][get_index(k, End(c, dep, n))] \in A

\* Each key of the tree hangs under such objects, from the root on.
LEMMA WayExists ==
  ASSUME NEW p, NEW c, NEW S, NEW dep, NEW rep, Shape(p, c, S, dep, rep), NEW k \in Keys, Leaf(k) \in S
  PROVE  \E A : A \subseteq S /\ OnTheWay(c, dep, rep, k, A)
<1> DEFINE l == Leaf(k)
           Leads(n, B) == \E i \in 0 .. FAN - 1 : c[n][i] # NULL /\ c[n][i] \in B
           Upward(B) == l \in B /\ \A n \in S \cap INodes : Leads(n, B) => n \in B
           A == {n \in S : \A B \in SUBSET S : Upward(B) => n \in B}
           G(n) == n = l \/ (n \in INodes /\ Same(k, rep[n], End(c, dep, n)))
<1>0. l \in S /\ l \in Leaves /\ l \notin INodes /\ rep[l] = k
  <2>1. l \in S /\ l \in Leaves /\ l \notin INodes
    BY Objects
  <2>2. rep[l] = k
    BY <2>1, LeafIs
  <2> QED BY <2>1, <2>2
<1>1. l \in A
  BY <1>0
<1>2. ASSUME NEW n \in S \cap INodes, Leads(n, A) PROVE n \in A
  <2> SUFFICES ASSUME NEW B \in SUBSET S, Upward(B) PROVE n \in B
    OBVIOUS
  <2>1. Leads(n, B)
    BY <1>2
  <2> QED BY <2>1
<1>3. ASSUME NEW B \in SUBSET S, Upward(B) PROVE A \subseteq B
  BY <1>3
<1>4. ASSUME NEW n \in S \cap INodes, NEW i \in 0 .. FAN - 1, c[n][i] # NULL, G(c[n][i])
      PROVE  Same(k, rep[n], End(c, dep, n)) /\ get_index(k, End(c, dep, n)) = i
  <2> DEFINE x == c[n][i]
             e == End(c, dep, n)
  <2>1. x \in S /\ dep[x] = e + 1 /\ Same(rep[x], rep[n], e) /\ get_index(rep[x], e) = i /\ e \in 0 .. MAX_DEPTH
    BY <1>4, ChildIs, InnerNode
  <2>2. CASE x = l
    BY <1>0, <2>1, <2>2
  <2>3. CASE x \in INodes /\ Same(k, rep[x], End(c, dep, x))
    <3>1. End(c, dep, x) \in 0 .. MAX_DEPTH /\ dep[x] <= End(c, dep, x)
      BY <2>1, <2>3, InnerNode
    <3>2. Same(k, rep[x], e) /\ get_index(k, e) = get_index(rep[x], e)
      <4> HIDE DEF x, e
      <4> QED BY <2>1, <2>3, <3>1, Sizes DEF Same
    <3> QED BY <2>1, <3>2, SameVia
  <2> QED BY <1>4, <2>2, <2>3
<1>5. \A n \in A : G(n)
  <2> DEFINE B == {n \in S : G(n)}
  <2>1. l \in B
    BY <1>0
  <2>2. ASSUME NEW n \in S \cap INodes, Leads(n, B) PROVE n \in B
    <3>1. PICK i \in 0 .. FAN - 1 : c[n][i] # NULL /\ c[n][i] \in B
      BY <2>2
    <3>2. Same(k, rep[n], End(c, dep, n))
      BY <1>4, <3>1
    <3> QED BY <3>2
  <2>3. B \in SUBSET S
    OBVIOUS
  <2>4. Upward(B)
    BY <2>1, <2>2
  <2> HIDE DEF A, Upward, G
  <2>5. A \subseteq B
    BY <1>3, <2>3, <2>4
  <2> QED BY <2>5
<1>6. ASSUME NEW n \in A, n # l PROVE n \in S \cap INodes /\ Leads(n, A)
  <2>1. n \in S \cap INodes
    BY <1>5, <1>6
  <2>2. CASE ~Leads(n, A)
    <3> DEFINE B == A \ {n}
    <3>1. Upward(B)
      <4>1. l \in B
        BY <1>1, <1>6
      <4>2. ASSUME NEW m \in S \cap INodes, Leads(m, B) PROVE m \in B
        <5>1. Leads(m, A)
          BY <4>2
        <5>2. m \in A /\ m # n
          <6> HIDE DEF A
          <6> QED BY <1>2, <2>2, <5>1
        <5> QED BY <5>2
      <4> QED BY <4>1, <4>2
    <3>2. B \in SUBSET S
      OBVIOUS
    <3> HIDE DEF A, Upward, Leads
    <3>3. A \subseteq B
      BY <1>3, <3>1, <3>2
    <3> QED BY <1>6, <3>3
  <2> QED BY <2>1, <2>2
<1>7. A \subseteq S
  OBVIOUS
<1> HIDE DEF A
<1>8. ASSUME NEW n \in A, n # l
      PROVE  n \in INodes /\ Same(k, rep[n], End(c, dep, n)) /\ c[n][get_index(k, End(c, dep, n))] \in A
  <2>1. PICK i \in 0 .. FAN - 1 : n \in S \cap INodes /\ c[n][i] # NULL /\ c[n][i] \in A
    BY <1>6, <1>8
  <2>2. G(c[n][i])
    BY <1>5, <2>1
  <2>3. Same(k, rep[n], End(c, dep, n)) /\ get_index(k, End(c, dep, n)) = i
    BY <1>4, <2>1, <2>2
  <2> QED BY <2>1, <2>3
<1>9. c[0][0] \in A
  <2> DEFINE D == {dep[n] : n \in A}
  <2>1. D \subseteq Nat /\ D # {}
    BY <1>1, <1>7, Sizes DEF Shape, Placed
  <2> HIDE DEF D
  <2>2. PICK d \in D : \A e \in D : d <= e
    BY <2>1, LeastOf
  <2>3. PICK m \in A : d = dep[m]
    BY DEF D
  <2>4. PICK o \in Above(S) : \E w \in Ways(o) : c[o][w] = m
    BY <1>7 DEF Shape, Hung
  <2>5. PICK w \in Ways(o) : c[o][w] = m
    BY <2>4
  <2>6. CASE o = 0
    BY <2>5, <2>6 DEF Ways
  <2>7. CASE o # 0
    <3>1. o \in S \cap INodes /\ w \in 0 .. FAN - 1
      BY <2>7 DEF Above, Ways
    <3>2. m # NULL
      BY <1>7, Objects DEF Shape, Placed
    <3>3. o \in A
      BY <1>2, <2>5, <3>1, <3>2
    <3>4. dep[m] = End(c, dep, o) + 1 /\ dep[o] <= End(c, dep, o) /\ dep[o] \in Nat /\ End(c, dep, o) \in Nat
      BY <2>5, <3>1, <3>2, ChildIs, InnerNode, Sizes
    <3>5. dep[o] \in D
      BY <3>3 DEF D
    <3> QED BY <2>2, <2>3, <3>4, <3>5
  <2> QED BY <2>6, <2>7
<1> QED BY <1>7, <1>8, <1>9 DEF OnTheWay

-----------------------------------------------------------------------------
(* The leftmost leaf *)

\* An inner node has a leftmost child.
LEMMA LeftChild ==
  ASSUME NEW p, NEW c, NEW S, NEW dep, NEW rep, Shape(p, c, S, dep, rep), NEW n \in S \cap INodes
  PROVE  \E i \in 0 .. FAN - 1 : c[n][i] # NULL /\ Left(c, n) = c[n][i]
<1> DEFINE I == {i \in 0 .. FAN - 1 : c[n][i] # NULL}
<1>1. I \subseteq Nat /\ I # {}
  BY DEF Shape, Forked
<1> HIDE DEF I
<1>2. \E i \in I : \A j \in I : i <= j
  BY <1>1, LeastOf
<1>3. Min(I) \in I
  BY <1>2 DEF Min
<1>4. n \in INodes
  OBVIOUS
<1>5. Left(c, n) = c[n][Min(I)]
  BY <1>4 DEF Left, I
<1> QED BY <1>3, <1>5 DEF I

\* minimum goes down left pointers, ends at a leaf and stays on the path of n.
LEMMA MinimumIs ==
  ASSUME NEW p, NEW c, NEW S, NEW dep, NEW rep, Shape(p, c, S, dep, rep), NEW n \in S \cap INodes
  PROVE  /\ minimum(c, n) \in S /\ minimum(c, n) \in Leaves
         /\ c[minimum(c, n)][KEY] \in Keys
         /\ Same(c[minimum(c, n)][KEY], rep[n], End(c, dep, n))
<1> DEFINE e == End(c, dep, n)
           D == {m \in S : m = n \/ (dep[m] > e /\ Same(rep[m], rep[n], e))}
           f == [m \in D |-> Left(c, m)]
<1>0. n \in D /\ e \in 0 .. MAX_DEPTH /\ MAX_HEIGHT \in Nat /\ MAX_HEIGHT = MAX_DEPTH + 1 /\ MAX_DEPTH \in Nat
  BY InnerNode, Sizes
<1>1. ASSUME NEW m \in D, m \in INodes
      PROVE  /\ Left(c, m) \in D /\ dep[Left(c, m)] = End(c, dep, m) + 1
             /\ dep[m] <= End(c, dep, m) /\ End(c, dep, m) \in 0 .. MAX_DEPTH
  <2>1. m \in S \cap INodes
    BY <1>1
  <2>2. PICK i \in 0 .. FAN - 1 : c[m][i] # NULL /\ Left(c, m) = c[m][i]
    BY <2>1, LeftChild
  <2> DEFINE x == Left(c, m)
  <2>3. x \in S /\ dep[x] = End(c, dep, m) + 1 /\ Same(rep[x], rep[m], End(c, dep, m))
    BY <2>1, <2>2, ChildIs
  <2>4. dep[m] <= End(c, dep, m) /\ dep[m] \in Nat /\ End(c, dep, m) \in 0 .. MAX_DEPTH
    BY <2>1, InnerNode, Sizes
  <2> HIDE DEF x
  <2>5. dep[x] > e /\ Same(rep[x], rep[n], e)
    <3>1. CASE m = n
      BY <1>0, <2>3, <2>4, <3>1
    <3>2. CASE m # n
      <4>1. dep[m] > e /\ Same(rep[m], rep[n], e)
        BY <3>2
      <4>2. Same(rep[x], rep[m], e) /\ dep[x] > e
        BY <1>0, <2>3, <2>4, <4>1, SameTo
      <4> QED BY <4>1, <4>2, SameVia
    <3> QED BY <3>1, <3>2
  <2> QED BY <2>3, <2>4, <2>5 DEF x
<1>2. ASSUME NEW m \in D PROVE Left(c, m) \in D
  <2>1. CASE m \in INodes
    BY <1>1, <2>1
  <2>2. CASE m \notin INodes
    BY <2>2 DEF Left
  <2> QED BY <2>1, <2>2
<1>3. \A m \in D : f[m] = Left(c, m)
  OBVIOUS
<1>4. D \subseteq S
  OBVIOUS
<1> HIDE DEF f
<1>5. \E g : g = [j \in 0 .. MAX_HEIGHT |-> IF j = 0 THEN n ELSE Left(c, g[j - 1])]
  <2>1. PICK g : Loop(f, n, MAX_HEIGHT, g)
    BY <1>0, Repeated
  <2> HIDE DEF D
  <2>2. /\ g[0] = n /\ g = [j \in 0 .. MAX_HEIGHT |-> g[j]]
        /\ \A j \in 0 .. MAX_HEIGHT : g[j] \in D
        /\ \A j \in 0 .. MAX_HEIGHT : j # 0 => g[j] = f[g[j - 1]]
    BY <1>0, <1>2, <1>3, <2>1, LoopIn
  <2>3. ASSUME NEW j \in 0 .. MAX_HEIGHT PROVE g[j] = IF j = 0 THEN n ELSE Left(c, g[j - 1])
    <3>1. CASE j = 0
      BY <2>2, <3>1
    <3>2. CASE j # 0
      <4>1. j - 1 \in 0 .. MAX_HEIGHT
        BY <1>0, <3>2
      <4> QED BY <1>3, <2>2, <3>2, <4>1
    <3> QED BY <3>1, <3>2
  <2>5. g = [j \in 0 .. MAX_HEIGHT |-> IF j = 0 THEN n ELSE Left(c, g[j - 1])]
    BY <2>2, <2>3
  <2> QED BY <2>5
<1>6. PICK g : /\ g = [j \in 0 .. MAX_HEIGHT |-> IF j = 0 THEN n ELSE Left(c, g[j - 1])]
               /\ minimum(c, n) = g[MAX_HEIGHT]
  BY <1>5 DEF minimum
<1> DEFINE U == {j \in 0 .. MAX_HEIGHT : g[j] \in D /\ (g[j] \in INodes => dep[g[j]] >= j)}
<1>7. \A j \in 0 .. MAX_HEIGHT : j \in U
  <2>1. 0 \in U
    BY <1>0, <1>6, InnerNode
  <2>2. ASSUME NEW j \in 0 .. MAX_HEIGHT - 1, j \in U PROVE j + 1 \in U
    <3>1. g[j] \in D /\ j + 1 \in 0 .. MAX_HEIGHT /\ j + 1 # 0 /\ (j + 1) - 1 = j /\ (g[j] \in INodes => dep[g[j]] >= j)
      BY <1>0, <2>2
    <3> HIDE DEF D
    <3>2. g[j + 1] = Left(c, g[j]) /\ g[j + 1] \in D
      BY <1>2, <1>6, <3>1
    <3>3. CASE g[j] \in INodes
      <4>1. dep[g[j + 1]] = End(c, dep, g[j]) + 1 /\ dep[g[j]] <= End(c, dep, g[j])
            /\ End(c, dep, g[j]) \in 0 .. MAX_DEPTH /\ dep[g[j]] >= j
        BY <1>1, <3>1, <3>2, <3>3
      <4>2. dep[g[j]] \in Nat
        BY <1>4, <3>1, Sizes DEF Shape, Placed
      <4>3. dep[g[j + 1]] >= j + 1
        BY <4>1, <4>2
      <4> QED BY <3>1, <3>2, <4>3
    <3>4. CASE g[j] \notin INodes
      <4>1. g[j + 1] \notin INodes
        BY <3>2, <3>4 DEF Left
      <4> QED BY <3>1, <3>2, <4>1
    <3> QED BY <3>3, <3>4
  <2> HIDE DEF U
  <2> QED BY <1>0, <2>1, <2>2, Ascent
<1> DEFINE m == minimum(c, n)
<1>8. m \in D /\ (m \in INodes => dep[m] >= MAX_HEIGHT)
  <2>1. MAX_HEIGHT \in U
    BY <1>0, <1>7
  <2> QED BY <1>6, <2>1
<1> HIDE DEF m
<1>9. m \in S /\ m \notin INodes
  <2>1. CASE m \in INodes
    <3>1. dep[m] \in 0 .. MAX_DEPTH
      BY <1>4, <1>8, <2>1, InnerNode
    <3> QED BY <1>0, <1>8, <2>1, <3>1
  <2> QED BY <1>4, <1>8, <2>1
<1>10. Same(rep[m], rep[n], e)
  BY <1>8, <1>9
<1>11. m \in Leaves /\ rep[m] \in Keys /\ c[m][KEY] = rep[m]
  BY <1>9, LeafIs
<1> QED BY <1>9, <1>10, <1>11 DEF m

-----------------------------------------------------------------------------
(* Paths *)

\* A path, held in the header or not.
LEMMA HeaderIs ==
  ASSUME NEW p \in BOOLEAN, NEW k, NEW d, NEW len
  PROVE  /\ HeaderOf(p, Digits(k, d, len)).partial_len = Len(Digits(k, d, len))
         /\ p => HeaderOf(p, Digits(k, d, len)).partial = Digits(k, d, len)
         /\ ~p => HeaderOf(p, Digits(k, d, len)).partial = <<>>
BY DEF HeaderOf

\* A key that goes below n passes its path.
LEMMA PathPassed ==
  ASSUME NEW p \in BOOLEAN, NEW c, NEW S, NEW dep, NEW rep, Shape(p, c, S, dep, rep),
         NEW n \in S \cap INodes, NEW k \in Keys, Same(k, rep[n], End(c, dep, n))
  PROVE  check_prefix(c, n, k, dep[n]) = Len(c[n][HDR].partial)
<1> DEFINE h == c[n][HDR]
           len == h.partial_len
           d == dep[n]
           r == rep[n]
           P == Digits(r, d, len)
<1>1. /\ d \in Nat /\ len \in Nat /\ r \in Keys /\ d + len <= MAX_HEIGHT /\ End(c, dep, n) = d + len
      /\ h = HeaderOf(p, P)
  BY InnerNode, Sizes
<1> HIDE DEF h, len, d, r
<1>2. P \in Seq(Nat) /\ Len(P) = len
  BY <1>1, DigitsAre
<1>3. check_prefix(c, n, k, d) = Agree(h.partial, Digits(k, d, Len(h.partial)))
  BY DEF check_prefix, h
<1>4. CASE p
  <2>1. h.partial = P
    BY <1>1, <1>4, HeaderIs
  <2>2. Same(r, k, d) /\ Same(r, k, d + len)
    BY <1>1, SameTo DEF r
  <2>3. check_prefix(c, n, k, d) = Agree(P, Digits(k, d, len))
    BY <1>2, <1>3, <2>1
  <2> DEFINE m == Agree(P, Digits(k, d, len))
  <2>4. m \in 0 .. len /\ (m < len => get_index(r, d + m) # get_index(k, d + m))
    BY <1>1, <2>2, AgreeDigits
  <2> HIDE DEF m
  <2>5. m = len
    <3>1. CASE m < len
      <4>1. d + m \in 0 .. (d + len) - 1
        BY <1>1, <2>4, <3>1
      <4> QED BY <2>2, <2>4, <3>1, <4>1 DEF Same
    <3> QED BY <1>1, <2>4, <3>1
  <2> QED BY <1>2, <2>1, <2>3, <2>5 DEF m, h, d
<1>5. CASE ~p
  <2>1. h.partial = <<>>
    BY <1>1, <1>5, HeaderIs
  <2>2. <<>> \in Seq(Nat) /\ Len(<<>>) = 0
    OBVIOUS
  <2>3. Digits(k, d, 0) \in Seq(Nat)
    <3>1. 0 \in Nat /\ d + 0 <= MAX_HEIGHT
      BY <1>1, Sizes
    <3> QED BY <1>1, <3>1, DigitsAre
  <2>4. Agree(<<>>, Digits(k, d, 0)) \in 0 .. 0
    BY <2>2, <2>3, AgreeIs
  <2> QED BY <1>3, <2>1, <2>2, <2>4 DEF h, d
<1> QED BY <1>4, <1>5

\* prefix_mismatch finds the first digit at which a key leaves the path of n.
LEMMA MismatchIs ==
  ASSUME pessimistic \in BOOLEAN, NEW c, NEW S, NEW dep, NEW rep, Shape(pessimistic, c, S, dep, rep),
         NEW n \in S \cap INodes, NEW k \in Keys, Same(k, rep[n], dep[n]),
         NEW m, m = prefix_mismatch(c, n, k, dep[n])
  PROVE  /\ m \in Nat
         /\ ~(m < c[n][HDR].partial_len) => Same(k, rep[n], End(c, dep, n))
         /\ m < c[n][HDR].partial_len =>
              Same(k, rep[n], dep[n] + m) /\ get_index(k, dep[n] + m) # get_index(rep[n], dep[n] + m)
<1> DEFINE h == c[n][HDR]
           len == h.partial_len
           d == dep[n]
           r == rep[n]
           P == Digits(r, d, len)
           e == End(c, dep, n)
<1>1. /\ d \in Nat /\ len \in Nat /\ r \in Keys /\ d + len <= MAX_HEIGHT /\ e = d + len
      /\ h = HeaderOf(pessimistic, P) /\ e \in Nat
  BY InnerNode, Sizes
<1>0. Same(r, k, d)
  BY <1>1, SameTo
<1> HIDE DEF h, len, d, r, e
<1>2. P \in Seq(Nat) /\ Len(P) = len
  BY <1>1, DigitsAre
<1>4. CASE pessimistic
  <2>1. h.partial = P
    BY <1>1, <1>4, HeaderIs
  <2>2. prefix_mismatch(c, n, k, d) = Agree(h.partial, Digits(k, d, Len(h.partial)))
    BY <1>4 DEF prefix_mismatch, check_prefix, h
  <2>3. m = Agree(P, Digits(k, d, len))
    BY <1>2, <2>1, <2>2 DEF d
  <2>4. m \in 0 .. len /\ Same(r, k, d + m) /\ (m < len => get_index(r, d + m) # get_index(k, d + m))
    BY <1>0, <1>1, <2>3, AgreeDigits
  <2>5. Same(k, r, d + m)
    BY <1>1, <2>4, SameTo
  <2>6. ~(m < len) => Same(k, r, e)
    BY <1>1, <2>4, <2>5
  <2> QED BY <2>4, <2>5, <2>6 DEF h, len, d, r, e
<1>5. CASE ~pessimistic
  <2> DEFINE l == c[minimum(c, n)][KEY]
             H == MAX_HEIGHT - d
  <2>1. l \in Keys /\ Same(l, r, e)
    BY MinimumIs DEF r, e
  <2>2. m = Agree(Digits(l, d, H), Digits(k, d, H))
    BY <1>5 DEF prefix_mismatch, longest_common_prefix, d
  <2> HIDE DEF l
  <2>3. H \in Nat /\ d + H <= MAX_HEIGHT /\ len <= H
    BY <1>1, Sizes
  <2> HIDE DEF H
  <2>4. Same(l, r, d) /\ Same(l, k, d)
    <3>1. Same(l, r, d)
      BY <1>1, <2>1, SameTo
    <3> QED BY <1>0, <3>1, SameVia
  <2>5. m \in 0 .. H /\ Same(l, k, d + m) /\ (m < H => get_index(l, d + m) # get_index(k, d + m))
    BY <1>1, <2>1, <2>2, <2>3, <2>4, AgreeDigits
  <2>6. CASE ~(m < len)
    <3>1. Same(k, l, e)
      BY <1>1, <2>5, <2>6, SameTo
    <3>2. Same(k, r, e)
      BY <2>1, <3>1, SameVia
    <3> QED BY <2>5, <2>6, <3>2 DEF h, len, r, e
  <2>7. CASE m < len
    <3>1. d + m <= e /\ d + m \in 0 .. e - 1 /\ d + m \in Int
      BY <1>1, <2>5, <2>7
    <3>2. Same(k, l, d + m) /\ Same(l, r, d + m)
      BY <1>1, <2>1, <2>5, <3>1, SameTo
    <3>3. Same(k, r, d + m)
      BY <3>2, SameVia
    <3>4. get_index(l, d + m) = get_index(r, d + m) /\ m < H
      BY <1>1, <2>1, <2>3, <2>5, <2>7, <3>1 DEF Same
    <3> QED BY <2>5, <2>7, <3>3, <3>4 DEF h, len, d, r
  <2> QED BY <2>6, <2>7
<1> QED BY <1>4, <1>5

-----------------------------------------------------------------------------
(* art_search *)

Going(c, S, dep, k, A, s) ==
  /\ s.n \in S \cup {NULL} /\ s.depth \in Nat
  /\ s.n \in S => s.depth = dep[s.n]
  /\ Leaf(k) \in S => s.n \in A

\* A turn of art_search stays on the key's way and goes deeper until it is off it.
LEMMA TurnIs ==
  ASSUME NEW p \in BOOLEAN, NEW c, NEW S, NEW dep, NEW rep, Shape(p, c, S, dep, rep), NEW k \in Keys,
         NEW A, Leaf(k) \in S => A \subseteq S /\ OnTheWay(c, dep, rep, k, A),
         NEW s \in [n : INodes \cup Leaves \cup {NULL}, depth : Nat], Going(c, S, dep, k, A, s)
  PROVE  /\ Turn(c, k, s) \in [n : INodes \cup Leaves \cup {NULL}, depth : Nat]
         /\ Going(c, S, dep, k, A, Turn(c, k, s))
         /\ s.n \notin INodes => Turn(c, k, s) = s
         /\ s.n \in INodes => Turn(c, k, s).n = NULL \/ s.depth < Turn(c, k, s).depth
<1>1. CASE s.n \notin INodes
  BY <1>1 DEF Turn
<1>2. CASE s.n \in INodes
  <2> DEFINE n == s.n
             e == End(c, dep, n)
             x == c[n][get_index(k, e)]
             t == Turn(c, k, s)
  <2>1. n \in S \cap INodes /\ s.depth = dep[n]
    BY <1>2, Objects DEF Going
  <2>2. /\ e \in 0 .. MAX_DEPTH /\ e = s.depth + c[n][HDR].partial_len /\ dep[n] <= e /\ dep[n] \in Nat
        /\ n \notin Leaves
    BY <2>1, InnerNode, Sizes
  <2>3. t = IF check_prefix(c, n, k, dep[n]) # Len(c[n][HDR].partial)
              THEN [n |-> NULL, depth |-> e] ELSE [n |-> x, depth |-> e + 1]
    BY <1>2, <2>1, <2>2 DEF Turn
  <2>4. get_index(k, e) \in 0 .. FAN - 1
    BY <2>2, Digit
  <2> HIDE DEF t, e
  <2>5. x = NULL \/ (x \in S /\ dep[x] = e + 1)
    <3>1. ASSUME NEW i \in 0 .. FAN - 1, c[n][i] # NULL PROVE c[n][i] \in S /\ dep[c[n][i]] = e + 1
      BY <2>1, <3>1, ChildIs DEF e
    <3> QED BY <2>4, <3>1
  <2>6. Leaf(k) \in S => x \in A /\ check_prefix(c, n, k, dep[n]) = Len(c[n][HDR].partial)
    <3> SUFFICES ASSUME Leaf(k) \in S
                 PROVE  x \in A /\ check_prefix(c, n, k, dep[n]) = Len(c[n][HDR].partial)
      OBVIOUS
    <3>1. n \in A /\ OnTheWay(c, dep, rep, k, A) /\ n # Leaf(k)
      BY <2>2, Objects DEF Going
    <3>2. Same(k, rep[n], End(c, dep, n)) /\ x \in A
      BY <3>1 DEF OnTheWay, e
    <3> QED BY <2>1, <3>2, PathPassed
  <2> HIDE DEF x
  <2>7. S \subseteq INodes \cup Leaves /\ NULL \notin S
    BY Objects DEF Shape, Placed
  <2>8. e \in Nat /\ e + 1 \in Nat /\ s.depth < e + 1
    BY <2>1, <2>2, Sizes
  <2>9. CASE check_prefix(c, n, k, dep[n]) # Len(c[n][HDR].partial)
    <3>1. t = [n |-> NULL, depth |-> e] /\ Leaf(k) \notin S
      BY <2>3, <2>6, <2>9
    <3> QED BY <1>2, <2>7, <2>8, <3>1 DEF Going, t
  <2>10. CASE check_prefix(c, n, k, dep[n]) = Len(c[n][HDR].partial)
    <3>1. t = [n |-> x, depth |-> e + 1]
      BY <2>3, <2>10
    <3> QED BY <1>2, <2>5, <2>6, <2>7, <2>8, <3>1 DEF Going, t
  <2> QED BY <2>9, <2>10
<1> QED BY <1>1, <1>2

\* art_search returns the value of the key's own leaf.
LEMMA Found ==
  ASSUME NEW p \in BOOLEAN, NEW c, NEW S, NEW dep, NEW rep, Shape(p, c, S, dep, rep), NEW k \in Keys
  PROVE  art_search(c, k) = IF Leaf(k) \in S THEN c[Leaf(k)][VALUE] ELSE NULL
<1> DEFINE Places == [n : INodes \cup Leaves \cup {NULL}, depth : Nat]
           turn == [s \in Places |-> Turn(c, k, s)]
           x == [n |-> c[0][0], depth |-> 0]
           value == [n \in INodes \cup Leaves \cup {NULL} |->
                       IF n \in Leaves /\ c[n][KEY] = k THEN c[n][VALUE] ELSE NULL]
<1>1. PICK A : Leaf(k) \in S => A \subseteq S /\ OnTheWay(c, dep, rep, k, A)
  BY WayExists
<1>2. \E g : Loop(turn, x, MAX_HEIGHT, g)
  <2> HIDE DEF turn
  <2> QED BY Repeated, Sizes
<1>3. PICK g : Loop(turn, x, MAX_HEIGHT, g) /\ art_search(c, k) = value[g[MAX_HEIGHT].n]
  BY <1>2 DEF art_search, Loop
<1> DEFINE D == {s \in Places : Going(c, S, dep, k, A, s)}
<1>4. x \in D
  <2>1. S \subseteq INodes \cup Leaves /\ NULL \notin S
    BY Objects DEF Shape, Placed
  <2>2. c[0][0] = NULL \/ (c[0][0] \in S /\ dep[c[0][0]] = 0)
    BY RootIs
  <2>3. Leaf(k) \in S => c[0][0] \in A
    BY <1>1 DEF OnTheWay
  <2> QED BY <2>1, <2>2, <2>3 DEF Going
<1>5. ASSUME NEW s \in D
      PROVE  /\ turn[s] \in D /\ (s.n \notin INodes => turn[s] = s)
             /\ s.n \in INodes => turn[s].n = NULL \/ s.depth < turn[s].depth
  <2>1. turn[s] = Turn(c, k, s)
    OBVIOUS
  <2> HIDE DEF turn
  <2> QED BY <1>1, <2>1, TurnIs
<1>6. \A s \in D : s.depth \in Nat
  OBVIOUS
<1> HIDE DEF turn, x
<1> DEFINE H == MAX_HEIGHT
<1>7. /\ g[0] = x /\ \A j \in 0 .. H : g[j] \in D
      /\ \A j \in 0 .. H : j # 0 => g[j] = turn[g[j - 1]]
  <2>1. \A s \in D : turn[s] \in D
    BY <1>5
  <2> HIDE DEF D
  <2>2. MAX_HEIGHT \in Nat
    BY Sizes
  <2> QED BY <1>3, <1>4, <2>1, <2>2, LoopIn
<1> DEFINE T == {j \in 0 .. H : g[j].n \in INodes => g[j].depth >= j}
<1>8. H \in T
  <2>1. 0 \in T
    BY <1>7, Sizes DEF x
  <2>2. ASSUME NEW j \in 0 .. H - 1, j \in T PROVE j + 1 \in T
    <3>1. j + 1 \in 0 .. H /\ j + 1 # 0 /\ (j + 1) - 1 = j /\ j \in 0 .. H
      BY Sizes
    <3>2. g[j + 1] = turn[g[j]] /\ g[j] \in D /\ g[j + 1] \in D
      BY <1>7, <3>1
    <3> HIDE DEF D
    <3>3. g[j].depth \in Nat /\ g[j + 1].depth \in Nat
      BY <1>6, <3>2
    <3>4. CASE g[j].n \in INodes
      BY <1>5, <2>2, <3>1, <3>2, <3>3, <3>4, Objects
    <3>5. CASE g[j].n \notin INodes
      BY <1>5, <3>1, <3>2, <3>5
    <3> QED BY <3>4, <3>5
  <2> HIDE DEF T
  <2>3. \A j \in 0 .. H : j \in T
    BY <2>1, <2>2, Ascent, Sizes
  <2> QED BY <2>3, Sizes
<1> DEFINE m == g[H].n
<1>9. /\ m \in S \cup {NULL} /\ m \notin INodes /\ m \in INodes \cup Leaves \cup {NULL}
      /\ Leaf(k) \in S => m \in A
  <2>1. g[H] \in D /\ H \in Nat /\ H = MAX_DEPTH + 1 /\ MAX_DEPTH \in Nat
    BY <1>7, Sizes
  <2>2. m \in INodes => g[H].depth >= H
    BY <1>8
  <2>3. /\ m \in S \cup {NULL} /\ m \in INodes \cup Leaves \cup {NULL}
        /\ m \in S => g[H].depth = dep[m]
        /\ Leaf(k) \in S => m \in A
    BY <2>1 DEF Going
  <2>4. g[H].depth \in Nat
    BY <1>6, <2>1
  <2> HIDE DEF m, D
  <2>5. m \notin INodes
    <3>1. CASE m \in INodes
      <4>1. m \in S \cap INodes
        BY <2>3, <3>1, Objects
      <4>2. dep[m] \in 0 .. MAX_DEPTH
        BY <4>1, InnerNode
      <4> QED BY <2>1, <2>2, <2>3, <2>4, <3>1, <4>1, <4>2
    <3> QED BY <3>1
  <2> QED BY <2>3, <2>5 DEF m
<1>10. art_search(c, k) = IF m \in Leaves /\ c[m][KEY] = k THEN c[m][VALUE] ELSE NULL
  BY <1>3, <1>9
<1> HIDE DEF m, value
<1>11. CASE Leaf(k) \in S
  <2>1. m = Leaf(k)
    BY <1>1, <1>9, <1>11 DEF OnTheWay
  <2>2. m \in Leaves /\ c[m][KEY] = k
    BY <1>9, <1>11, <2>1, LeafIs
  <2> QED BY <1>10, <1>11, <2>1, <2>2
<1>12. CASE Leaf(k) \notin S
  <2>1. CASE m \in Leaves /\ c[m][KEY] = k
    <3>1. m \in S
      BY <1>9, <2>1, Objects
    <3>2. m = Leaf(k)
      BY <1>9, <2>1, <3>1, LeafIs
    <3> QED BY <1>12, <3>1, <3>2
  <2> QED BY <1>10, <1>12, <2>1
<1> QED BY <1>11, <1>12

-----------------------------------------------------------------------------
(* recursive_insert's way *)

\* A pointer is at one of the depths.
LEMMA LevelIs ==
  ASSUME NEW p, NEW c, NEW S, NEW dep, NEW rep, Shape(p, c, S, dep, rep), NEW o \in Above(S)
  PROVE  /\ Level(c, dep, o) \in 0 .. MAX_HEIGHT /\ o \in Nat
         /\ o # 0 => o \in S \cap INodes /\ Level(c, dep, o) = End(c, dep, o) + 1 /\ dep[o] < Level(c, dep, o)
<1>1. CASE o = 0
  BY <1>1, Sizes DEF Level
<1>2. CASE o # 0
  <2>1. o \in S \cap INodes
    BY <1>2 DEF Above
  <2>2. End(c, dep, o) \in 0 .. MAX_DEPTH /\ dep[o] <= End(c, dep, o) /\ dep[o] \in 0 .. MAX_DEPTH /\ o \in Nat
    BY <2>1, InnerNode
  <2> QED BY <1>2, <2>1, <2>2, Sizes DEF Level
<1> QED BY <1>1, <1>2

\* A key that goes through a pointer agrees with all that hangs there.
LEMMA Beneath ==
  ASSUME NEW p, NEW c, NEW S, NEW dep, NEW rep, Shape(p, c, S, dep, rep), NEW k \in Keys,
         NEW o \in Above(S), NEW w \in Ways(o), Through(c, dep, rep, o, w, k), c[o][w] # NULL
  PROVE  /\ c[o][w] \in S /\ dep[c[o][w]] = Level(c, dep, o) /\ rep[c[o][w]] \in Keys
         /\ Through(c, dep, rep, o, w, rep[c[o][w]])
         /\ Same(k, rep[c[o][w]], Level(c, dep, o))
<1> DEFINE m == c[o][w]
<1>1. m \in S /\ dep[m] = Level(c, dep, o) /\ Through(c, dep, rep, o, w, rep[m])
  BY DEF Shape, Hanging, Child
<1> HIDE DEF m
<1>2. rep[m] \in Keys
  BY <1>1 DEF Shape, Placed
<1>3. CASE o = 0
  <2>1. Level(c, dep, o) = 0
    BY <1>3 DEF Level
  <2>2. Same(k, rep[m], 0)
    BY DEF Same
  <2> QED BY <1>1, <1>2, <2>1, <2>2 DEF m
<1>4. CASE o # 0
  <2> DEFINE e == End(c, dep, o)
  <2>1. e \in 0 .. MAX_DEPTH /\ Level(c, dep, o) = e + 1
    BY <1>4, LevelIs, InnerNode
  <2>2. Same(k, rep[o], e) /\ get_index(k, e) = w /\ Same(rep[m], rep[o], e) /\ get_index(rep[m], e) = w
    BY <1>1, <1>4 DEF Through
  <2> HIDE DEF e
  <2>3. Same(k, rep[m], e + 1)
    <3> SUFFICES ASSUME NEW d \in 0 .. (e + 1) - 1 PROVE get_index(k, d) = get_index(rep[m], d)
      BY DEF Same
    <3>1. d = e \/ d \in 0 .. e - 1
      BY <2>1, Sizes
    <3> QED BY <2>2, <3>1 DEF Same
  <2> QED BY <1>1, <1>2, <2>1, <2>3 DEF m
<1> QED BY <1>3, <1>4

\* The arguments of a call of recursive_insert for key k.
Call(c, dep, o, w) == [ref |-> <<o, w>>, n |-> c[o][w], depth |-> Level(c, dep, o)]

Stays(c, k, s) == s.n \notin INodes \/ prefix_mismatch(c, s.n, k, s.depth) < c[s.n][HDR].partial_len

Calling(c, S, dep, rep, k, A, s) ==
  \E o \in Above(S) : \E w \in Ways(o) :
    /\ s = Call(c, dep, o, w) /\ Through(c, dep, rep, o, w, k)
    /\ Leaf(k) \in S => c[o][w] \in A

\* What a call of recursive_insert is about.
LEMMA CallIs ==
  ASSUME NEW p, NEW c, NEW S, NEW dep, NEW rep, Shape(p, c, S, dep, rep),
         NEW k \in Keys, NEW A, NEW s, Calling(c, S, dep, rep, k, A, s)
  PROVE  /\ s \in [ref : Above(S) \X Nat, n : S \cup {NULL}, depth : Nat]
         /\ s.depth \in 0 .. MAX_HEIGHT
         /\ s.n # NULL => s.n \in S /\ dep[s.n] = s.depth /\ Same(k, rep[s.n], s.depth)
         /\ Leaf(k) \in S => s.n \in A
<1>1. PICK o \in Above(S), w \in Nat : /\ w \in Ways(o) /\ s = Call(c, dep, o, w)
                                       /\ Through(c, dep, rep, o, w, k) /\ (Leaf(k) \in S => c[o][w] \in A)
  <2>1. \A o : Ways(o) \subseteq Nat
    BY Sizes DEF Ways
  <2> QED BY <2>1 DEF Calling
<1>2. Level(c, dep, o) \in 0 .. MAX_HEIGHT
  BY LevelIs
<1>3. c[o][w] # NULL => /\ c[o][w] \in S /\ dep[c[o][w]] = Level(c, dep, o)
                        /\ Same(k, rep[c[o][w]], Level(c, dep, o))
  BY <1>1, Beneath
<1>4. s.ref = <<o, w>> /\ s.n = c[o][w] /\ s.depth = Level(c, dep, o) /\ s = [ref |-> s.ref, n |-> s.n, depth |-> s.depth]
  BY <1>1 DEF Call
<1>5. s.depth \in Nat
  BY <1>2, <1>4, Sizes
<1>6. s \in [ref : Above(S) \X Nat, n : S \cup {NULL}, depth : Nat]
  BY <1>1, <1>3, <1>4, <1>5
<1> QED BY <1>1, <1>2, <1>3, <1>4, <1>6

\* A call leads to one on the key's way, deeper unless it is the last.
LEMMA DeeperIs ==
  ASSUME pessimistic \in BOOLEAN, NEW c, NEW S, NEW dep, NEW rep, Shape(pessimistic, c, S, dep, rep),
         NEW k \in Keys, NEW A, Leaf(k) \in S => A \subseteq S /\ OnTheWay(c, dep, rep, k, A),
         NEW s, Calling(c, S, dep, rep, k, A, s)
  PROVE  /\ Calling(c, S, dep, rep, k, A, Deeper(c, k, s))
         /\ Stays(c, k, s) => Deeper(c, k, s) = s
         /\ ~Stays(c, k, s) => s.depth < Deeper(c, k, s).depth
<1>1. CASE Stays(c, k, s)
  <2>1. Deeper(c, k, s) = s
    BY <1>1 DEF Deeper, Stays
  <2> QED BY <1>1, <2>1
<1>2. CASE ~Stays(c, k, s)
  <2> DEFINE n == s.n
             e == End(c, dep, n)
             i == get_index(k, e)
  <2>1. n \in INodes /\ ~(prefix_mismatch(c, n, k, s.depth) < c[n][HDR].partial_len)
    BY <1>2 DEF Stays
  <2>2. n \in S \cap INodes /\ dep[n] = s.depth /\ Same(k, rep[n], s.depth) /\ s.depth \in 0 .. MAX_HEIGHT
    BY <2>1, CallIs, Objects
  <2>3. e \in 0 .. MAX_DEPTH /\ e = s.depth + c[n][HDR].partial_len /\ s.depth <= e
        /\ n \notin Leaves /\ n # 0
    BY <2>2, InnerNode
  <2>4. Same(k, rep[n], e)
    BY <2>1, <2>2, MismatchIs
  <2>5. i \in 0 .. FAN - 1
    BY <2>3, Digit
  <2>6. Deeper(c, k, s) = [ref |-> <<n, i>>, n |-> c[n][i], depth |-> e + 1]
    BY <1>2, <2>3 DEF Deeper, Stays
  <2>7. n \in Above(S) /\ i \in Ways(n) /\ Level(c, dep, n) = e + 1 /\ Through(c, dep, rep, n, i, k)
    BY <2>2, <2>3, <2>4, <2>5 DEF Above, Ways, Level, Through
  <2>8. Deeper(c, k, s) = Call(c, dep, n, i)
    BY <2>6, <2>7 DEF Call
  <2>9. Leaf(k) \in S => c[n][i] \in A
    <3> SUFFICES ASSUME Leaf(k) \in S PROVE c[n][i] \in A
      OBVIOUS
    <3>1. n \in A /\ n # Leaf(k) /\ OnTheWay(c, dep, rep, k, A)
      BY <2>3, CallIs, Objects
    <3> QED BY <3>1 DEF OnTheWay
  <2>10. s.depth < Deeper(c, k, s).depth
    <3>1. Deeper(c, k, s).depth = e + 1
      BY <2>6
    <3> HIDE DEF e
    <3> QED BY <2>2, <2>3, <3>1, Sizes
  <2> HIDE DEF i, n
  <2> QED BY <1>2, <2>7, <2>8, <2>9, <2>10 DEF Calling
<1> QED BY <1>1, <1>2

\* The recursion of recursive_insert ends at a pointer that the key goes through,
\* at nothing, at a leaf or at a node whose path the key leaves; and at the key's
\* own leaf, if there is one.
LEMMA SiteIs ==
  ASSUME pessimistic \in BOOLEAN, NEW c, NEW S, NEW dep, NEW rep, Shape(pessimistic, c, S, dep, rep),
         NEW k \in Keys, NEW s, s = Site(c, k)
  PROVE  /\ \E o \in Above(S) : \E w \in Ways(o) : s = Call(c, dep, o, w) /\ Through(c, dep, rep, o, w, k)
         /\ s.n \in S \cup {NULL} /\ Stays(c, k, s)
         /\ Leaf(k) \in S => s.n = Leaf(k)
<1>1. PICK A : Leaf(k) \in S => A \subseteq S /\ OnTheWay(c, dep, rep, k, A)
  BY WayExists
<1> DEFINE D == {t \in [ref : Above(S) \X Nat, n : S \cup {NULL}, depth : Nat] : Calling(c, S, dep, rep, k, A, t)}
           f == [t \in D |-> Deeper(c, k, t)]
           x == [ref |-> Root, n |-> c[0][0], depth |-> 0]
           H == MAX_HEIGHT
<1>2. x \in D
  <2>1. x = Call(c, dep, 0, 0)
    BY DEF Call, Root, Level
  <2>2. 0 \in Above(S) /\ 0 \in Ways(0) /\ Through(c, dep, rep, 0, 0, k)
    BY DEF Above, Ways, Through
  <2>3. Leaf(k) \in S => c[0][0] \in A
    BY <1>1 DEF OnTheWay
  <2>4. Calling(c, S, dep, rep, k, A, x)
    BY <2>1, <2>2, <2>3 DEF Calling
  <2> HIDE DEF x
  <2> QED BY <2>4, CallIs
<1>3. ASSUME NEW t \in D
      PROVE  /\ f[t] = Deeper(c, k, t) /\ f[t] \in D /\ t.depth \in Nat
             /\ Stays(c, k, t) => f[t] = t
             /\ ~Stays(c, k, t) => t.depth < f[t].depth
  <2>1. f[t] = Deeper(c, k, t)
    OBVIOUS
  <2> HIDE DEF f
  <2>2. Calling(c, S, dep, rep, k, A, f[t])
    BY <1>1, <2>1, DeeperIs
  <2>3. f[t] \in D
    BY <2>2, CallIs
  <2> QED BY <1>1, <2>1, <2>3, DeeperIs
<1>4. \A t \in D : Calling(c, S, dep, rep, k, A, t)
  OBVIOUS
<1> HIDE DEF f, x, D
<1>5. H \in Nat /\ H = MAX_DEPTH + 1 /\ MAX_DEPTH \in Nat
  BY Sizes
<1>6. PICK F : F = f
  OBVIOUS
<1>7. \E g : g = [j \in 0 .. H |-> IF j = 0 THEN x ELSE Deeper(c, k, g[j - 1])]
  <2>1. MAX_HEIGHT \in Nat /\ \A t \in D : F[t] \in D
    BY <1>3, <1>5, <1>6
  <2>2. PICK g : Loop(F, x, MAX_HEIGHT, g)
    BY <2>1, Repeated
  <2>3. /\ g[0] = x /\ g = [j \in 0 .. MAX_HEIGHT |-> g[j]]
        /\ \A j \in 0 .. MAX_HEIGHT : g[j] \in D
        /\ \A j \in 0 .. MAX_HEIGHT : j # 0 => g[j] = F[g[j - 1]]
    <3>1. x \in D /\ MAX_HEIGHT \in Nat /\ \A t \in D : F[t] \in D
      BY <1>2, <2>1
    <3> QED BY <2>2, <3>1, LoopIn, SMTT(30)
  <2>4. ASSUME NEW j \in 0 .. H PROVE g[j] = IF j = 0 THEN x ELSE Deeper(c, k, g[j - 1])
    <3>1. CASE j = 0
      BY <2>3, <3>1
    <3>2. CASE j # 0
      <4>1. j - 1 \in 0 .. H
        BY <1>5, <3>2
      <4> QED BY <1>3, <1>6, <2>3, <3>2, <4>1
    <3> QED BY <3>1, <3>2
  <2> QED BY <2>3, <2>4
<1>8. PICK g : g = [j \in 0 .. H |-> IF j = 0 THEN x ELSE Deeper(c, k, g[j - 1])] /\ Site(c, k) = g[H]
  BY <1>7 DEF Site, x
<1> DEFINE T == {j \in 0 .. H : g[j] \in D /\ (Stays(c, k, g[j]) \/ g[j].depth >= j)}
<1>9. H \in T
  <2>1. 0 \in T
    BY <1>2, <1>5, <1>8 DEF x
  <2>2. ASSUME NEW j \in 0 .. H - 1, j \in T PROVE j + 1 \in T
    <3>1. j + 1 \in 0 .. H /\ j + 1 # 0 /\ (j + 1) - 1 = j
      BY <1>5
    <3>2. g[j + 1] = f[g[j]] /\ g[j + 1] \in D /\ g[j] \in D
      BY <1>3, <1>8, <2>2, <3>1
    <3>3. CASE Stays(c, k, g[j])
      BY <1>3, <3>1, <3>2, <3>3
    <3>4. CASE ~Stays(c, k, g[j])
      <4>1. g[j].depth < g[j + 1].depth /\ g[j].depth \in Nat /\ g[j + 1].depth \in Nat /\ g[j].depth >= j
        BY <1>3, <2>2, <3>2, <3>4
      <4> QED BY <3>1, <3>2, <4>1
    <3> QED BY <3>3, <3>4
  <2>3. H \in Nat
    BY <1>5
  <2> HIDE DEF T
  <2>4. \A j \in 0 .. H : j \in T
    BY <2>1, <2>2, <2>3, Ascent
  <2> QED BY <1>5, <2>4
<1>10. s \in D /\ (Stays(c, k, s) \/ s.depth >= H)
  BY <1>8, <1>9
<1>11. Calling(c, S, dep, rep, k, A, s)
  BY <1>4, <1>10
<1>12. /\ s.depth \in 0 .. MAX_HEIGHT /\ s.n \in S \cup {NULL}
       /\ s.n # NULL => s.n \in S /\ dep[s.n] = s.depth
       /\ Leaf(k) \in S => s.n \in A
  BY <1>11, CallIs
<1>13. Stays(c, k, s)
  <2>1. CASE s.n \in INodes
    <3>1. s.n \in S \cap INodes /\ dep[s.n] = s.depth
      BY <1>12, <2>1, Objects
    <3>2. s.depth \in 0 .. MAX_DEPTH
      BY <3>1, InnerNode
    <3> QED BY <1>5, <1>10, <3>2
  <2>2. CASE s.n \notin INodes
    BY <2>2 DEF Stays
  <2> QED BY <2>1, <2>2
<1>14. Leaf(k) \in S => s.n = Leaf(k)
  <2> SUFFICES ASSUME Leaf(k) \in S, s.n # Leaf(k) PROVE FALSE
    OBVIOUS
  <2>1. s.n \in INodes /\ Same(k, rep[s.n], End(c, dep, s.n))
    BY <1>1, <1>12 DEF OnTheWay
  <2>2. s.n \in S \cap INodes /\ dep[s.n] = s.depth /\ Same(k, rep[s.n], s.depth)
    BY <1>11, <2>1, CallIs, Objects
  <2> DEFINE n == s.n
             m == prefix_mismatch(c, n, k, s.depth)
             len == c[n][HDR].partial_len
  <2>3. m < len
    BY <1>13, <2>1 DEF Stays
  <2>4. m \in Nat /\ get_index(k, s.depth + m) # get_index(rep[n], s.depth + m)
    BY <2>2, <2>3, MismatchIs
  <2>5. End(c, dep, n) = s.depth + len /\ len \in Nat /\ s.depth \in Nat
    BY <2>2, InnerNode, Sizes
  <2> HIDE DEF m, len
  <2>6. s.depth + m \in 0 .. (s.depth + len) - 1
    BY <2>3, <2>4, <2>5
  <2> QED BY <2>1, <2>4, <2>5, <2>6 DEF Same
<1>15. \E o \in Above(S) : \E w \in Ways(o) : s = Call(c, dep, o, w) /\ Through(c, dep, rep, o, w, k)
  BY <1>11 DEF Calling
<1> QED BY <1>12, <1>13, <1>14, <1>15

-----------------------------------------------------------------------------
(* What a restart can reach *)

\* What nodes of the tree lead to is in the tree.
LEMMA BelowIs ==
  ASSUME NEW p, NEW c, NEW S, NEW dep, NEW rep, Shape(p, c, S, dep, rep),
         NEW N, N \subseteq S \cap INodes
  PROVE  Below(c, N) \subseteq S \cap INodes
<1> SUFFICES ASSUME NEW n \in N, NEW i \in 0 .. FAN - 1, c[n][i] \in INodes
             PROVE  c[n][i] \in S
  BY DEF Below
<1>1. c[n][i] # NULL /\ n \in S \cap INodes
  BY Objects
<1> QED BY <1>1, ChildIs

\* Level by level, Reachable finds the inner nodes of the tree and no others.
LEMMA ReachableIs ==
  ASSUME NEW p, NEW c, NEW S, NEW dep, NEW rep, Shape(p, c, S, dep, rep)
  PROVE  Reachable(c) = S \cap INodes
<1> DEFINE I == S \cap INodes
           D == SUBSET I
           f == [N \in D |-> Below(c, N)]
           x == {c[0][0]} \cap INodes
<1>1. x \in D
  <2> SUFFICES ASSUME c[0][0] \in INodes PROVE c[0][0] \in S
    OBVIOUS
  <2> QED BY RootIs, Objects
<1>2. \A N \in D : f[N] = Below(c, N) /\ f[N] \in D
  <2> SUFFICES ASSUME NEW N \in D PROVE Below(c, N) \in D
    OBVIOUS
  <2> QED BY BelowIs
<1> HIDE DEF f, x, D
<1>3. MAX_HEIGHT \in Nat /\ MAX_HEIGHT = MAX_DEPTH + 1 /\ MAX_DEPTH \in Nat
  BY Sizes
<1>4. \E g : g = [j \in 0 .. MAX_HEIGHT |-> IF j = 0 THEN x ELSE Below(c, g[j - 1])]
  <2>1. PICK g : Loop(f, x, MAX_HEIGHT, g)
    BY <1>3, Repeated
  <2>2. /\ g[0] = x /\ g = [j \in 0 .. MAX_HEIGHT |-> g[j]]
        /\ \A j \in 0 .. MAX_HEIGHT : g[j] \in D
        /\ \A j \in 0 .. MAX_HEIGHT : j # 0 => g[j] = f[g[j - 1]]
    <3>1. MAX_HEIGHT \in Nat /\ \A N \in D : f[N] \in D
      BY <1>2, <1>3
    <3> QED BY <1>1, <2>1, <3>1, LoopIn
  <2>3. ASSUME NEW j \in 0 .. MAX_HEIGHT PROVE g[j] = IF j = 0 THEN x ELSE Below(c, g[j - 1])
    <3>1. CASE j = 0
      BY <2>2, <3>1
    <3>2. CASE j # 0
      <4>1. j - 1 \in 0 .. MAX_HEIGHT
        BY <1>3, <3>2
      <4> QED BY <1>2, <2>2, <3>2, <4>1
    <3> QED BY <3>1, <3>2
  <2> QED BY <2>2, <2>3
<1>5. PICK g : /\ g = [j \in 0 .. MAX_HEIGHT |-> IF j = 0 THEN x ELSE Below(c, g[j - 1])]
               /\ Reachable(c) = UNION {g[j] : j \in 0 .. MAX_HEIGHT}
  BY <1>4 DEF Reachable, x
<1>6. g[0] = x
  BY <1>3, <1>5
<1>7. ASSUME NEW j \in 0 .. MAX_HEIGHT - 1 PROVE j + 1 \in 0 .. MAX_HEIGHT /\ g[j + 1] = Below(c, g[j])
  <2>1. j + 1 \in 0 .. MAX_HEIGHT /\ j + 1 # 0 /\ (j + 1) - 1 = j
    BY <1>3
  <2> QED BY <1>5, <2>1
<1>8. \A j \in 0 .. MAX_HEIGHT : g[j] \in D
  <2> DEFINE T == {j \in 0 .. MAX_HEIGHT : g[j] \in D}
  <2>1. 0 \in T
    BY <1>1, <1>3, <1>6
  <2>2. ASSUME NEW j \in 0 .. MAX_HEIGHT - 1, j \in T PROVE j + 1 \in T
    BY <1>2, <1>7, <2>2
  <2> HIDE DEF T
  <2>3. \A j \in 0 .. MAX_HEIGHT : j \in T
    BY <1>3, <2>1, <2>2, Ascent
  <2> QED BY <2>3 DEF T
<1> DEFINE At(m) == \E j \in 0 .. dep[m] : m \in g[j]
<1>9. \A m \in I : dep[m] \in 0 .. MAX_DEPTH
  BY InnerNode
<1>10. \A m \in I : At(m)
  <2> DEFINE U == {m \in I : ~At(m)}
             V == {dep[m] : m \in U}
  <2> SUFFICES ASSUME U # {} PROVE FALSE
    OBVIOUS
  <2>1. V \subseteq Nat /\ V # {}
    BY <1>9
  <2> HIDE DEF V
  <2>2. PICK d \in V : \A e \in V : d <= e
    BY <2>1, LeastOf
  <2>3. PICK m \in U : d = dep[m]
    BY DEF V
  <2>4. \A n \in U : dep[n] \in V
    BY DEF V
  <2>5. PICK o \in Above(S) : \E w \in Ways(o) : c[o][w] = m
    BY <2>3 DEF Shape, Hung
  <2>6. PICK w \in Ways(o) : c[o][w] = m
    BY <2>5
  <2>7. dep[m] \in 0 .. MAX_DEPTH /\ m \in INodes /\ m # NULL /\ ~At(m)
    BY <1>9, <2>3, Objects
  <2>8. CASE o = 0
    <3>1. m \in g[0]
      BY <1>6, <2>6, <2>7, <2>8 DEF Ways, x
    <3>2. 0 \in 0 .. dep[m]
      BY <2>7
    <3> QED BY <2>7, <3>1, <3>2
  <2>9. CASE o # 0
    <3>1. o \in I /\ w \in 0 .. FAN - 1
      BY <2>9 DEF Above, Ways
    <3>2. dep[m] = End(c, dep, o) + 1
      BY <2>6, <2>7, <3>1, ChildIs
    <3>3. dep[o] \in 0 .. MAX_DEPTH /\ dep[o] < dep[m]
      BY <1>9, <2>9, <3>1, <3>2, LevelIs, InnerNode
    <3>4. At(o)
      <4>1. CASE o \in U
        <5>1. dep[o] \in V
          BY <2>4, <4>1
        <5> QED BY <1>3, <2>2, <2>3, <2>7, <3>3, <5>1
      <4> QED BY <3>1, <4>1
    <3>5. PICK j \in 0 .. dep[o] : o \in g[j]
      BY <3>4
    <3>6. j \in 0 .. MAX_HEIGHT - 1 /\ j + 1 \in 0 .. dep[m]
      BY <1>3, <2>7, <3>3
    <3>7. m \in g[j + 1]
      BY <1>7, <2>6, <2>7, <3>1, <3>5, <3>6 DEF Below
    <3> QED BY <2>7, <3>6, <3>7
  <2> QED BY <2>8, <2>9
<1>11. \A m \in I : \E j \in 0 .. MAX_HEIGHT : m \in g[j]
  <2> SUFFICES ASSUME NEW m \in I PROVE \E j \in 0 .. MAX_HEIGHT : m \in g[j]
    OBVIOUS
  <2>1. PICK j \in 0 .. dep[m] : m \in g[j]
    BY <1>10
  <2>2. j \in 0 .. MAX_HEIGHT
    BY <1>3, <1>9, <2>1
  <2> QED BY <2>1, <2>2
<1> HIDE DEF I
<1> QED BY <1>5, <1>8, <1>11 DEF D, I

-----------------------------------------------------------------------------
(* What the tree does not depend on *)

\* c2 holds the objects S as c does, values apart.
Alike(c, c2, S) ==
  /\ c2[0][0] = c[0][0]
  /\ \A n \in S \cap INodes : c2[n][HDR] = c[n][HDR] /\ \A i \in 0 .. FAN - 1 : c2[n][i] = c[n][i]
  /\ \A m \in S \cap Leaves : c2[m][KEY] = c[m][KEY]

\* A tree stays one where only values are written.
LEMMA ShapeSame ==
  ASSUME NEW p, NEW c, NEW c2, NEW S, NEW dep, NEW rep, Shape(p, c, S, dep, rep), Alike(c, c2, S)
  PROVE  Shape(p, c2, S, dep, rep)
<1>1. \A o \in Above(S) : \A w \in Ways(o) : c2[o][w] = c[o][w]
  <2> SUFFICES ASSUME NEW o \in Above(S), NEW w \in Ways(o) PROVE c2[o][w] = c[o][w]
    OBVIOUS
  <2>1. CASE o = 0
    BY <2>1 DEF Ways, Alike
  <2>2. CASE o # 0
    BY <2>2 DEF Above, Ways, Alike
  <2> QED BY <2>1, <2>2
<1>2. \A n \in S \cap INodes : End(c2, dep, n) = End(c, dep, n)
  BY DEF End, Alike
<1>3. \A o \in Above(S) : Level(c2, dep, o) = Level(c, dep, o)
  BY <1>2 DEF Above, Level
<1>4. \A o \in Above(S) : \A w, k : Through(c2, dep, rep, o, w, k) = Through(c, dep, rep, o, w, k)
  BY <1>2 DEF Above, Through
<1>5. Placed(S, dep, rep)
  BY DEF Shape
<1>6. Headed(p, c2, S, dep, rep)
  BY DEF Shape, Headed, Alike
<1>7. Forked(c2, S)
  BY DEF Shape, Forked, Alike
<1>8. Holding(c2, S, rep)
  BY DEF Shape, Holding, Alike
<1>9. Hanging(c2, S, dep, rep)
  BY <1>1, <1>3, <1>4 DEF Shape, Hanging, Child
<1>10. Hung(c2, S)
  BY <1>1 DEF Shape, Hung
<1>11. Once(c2, S)
  BY <1>1 DEF Shape, Once
<1> QED BY <1>5, <1>6, <1>7, <1>8, <1>9, <1>10, <1>11 DEF Shape

\* The map that the tree S in c is.
ContentOf(c) == [k \in Keys |-> art_search(c, k)]

\* The map of a tree has each leaf's value under its key.
LEMMA ContentIs ==
  ASSUME NEW p \in BOOLEAN, NEW c, NEW S, NEW dep, NEW rep, Shape(p, c, S, dep, rep)
  PROVE  ContentOf(c) = [k \in Keys |-> IF Leaf(k) \in S THEN c[Leaf(k)][VALUE] ELSE NULL]
BY Found DEF ContentOf

-----------------------------------------------------------------------------
(* The tree grows *)

\* Each inner node has two children at least.
Branching(c, S) ==
  \A n \in S \cap INodes : \E i, j \in 0 .. FAN - 1 : i # j /\ c[n][i] # NULL /\ c[n][j] # NULL

Formed(p, c, S) == \E dep, rep : Shape(p, c, S, dep, rep)
Tree(p, c, S) == Formed(p, c, S) /\ Branching(c, S)

\* c2 holds the objects S as c does, values and word w of o apart.
AlikeBut(c, c2, S, o, w) ==
  /\ \A q \in Above(S) : \A v \in Ways(q) : <<q, v>> # <<o, w>> => c2[q][v] = c[q][v]
  /\ \A n \in S \cap INodes : c2[n][HDR] = c[n][HDR]
  /\ \A m \in S \cap Leaves : c2[m][KEY] = c[m][KEY]

\* No node loses a child when a pointer is stored that is not null.
LEMMA BranchingKept ==
  ASSUME NEW c, NEW S, Branching(c, S), NEW c2, NEW R, R \subseteq S, NEW o, NEW w, AlikeBut(c, c2, R, o, w), c2[o][w] # NULL
  PROVE  Branching(c2, R)
<1> SUFFICES ASSUME NEW n \in R \cap INodes
             PROVE  \E i, j \in 0 .. FAN - 1 : i # j /\ c2[n][i] # NULL /\ c2[n][j] # NULL
  BY DEF Branching
<1>1. PICK i, j \in 0 .. FAN - 1 : i # j /\ c[n][i] # NULL /\ c[n][j] # NULL
  BY DEF Branching
<1>2. ASSUME NEW u \in 0 .. FAN - 1, c[n][u] # NULL PROVE c2[n][u] # NULL
  <2>1. n \in Above(R) /\ u \in Ways(n)
    BY Objects DEF Above, Ways
  <2>2. CASE <<n, u>> = <<o, w>>
    BY <2>2
  <2>3. CASE <<n, u>> # <<o, w>>
    BY <1>2, <2>1, <2>3 DEF AlikeBut
  <2> QED BY <2>2, <2>3
<1> QED BY <1>1, <1>2

\* A leaf is hung where there was nothing.
LEMMA Planted ==
  ASSUME NEW p, NEW c, NEW S, NEW dep, NEW rep, Shape(p, c, S, dep, rep),
         NEW k \in Keys, Leaf(k) \notin S,
         NEW o \in Above(S), NEW w \in Ways(o), Through(c, dep, rep, o, w, k), c[o][w] = NULL,
         NEW c2, AlikeBut(c, c2, S, o, w), c2[o][w] = Leaf(k), c2[Leaf(k)][KEY] = k
  PROVE  Formed(p, c2, S \cup {Leaf(k)})
<1> DEFINE l == Leaf(k)
           T == S \cup {l}
           dep2 == [m \in T |-> IF m = l THEN Level(c, dep, o) ELSE dep[m]]
           rep2 == [m \in T |-> IF m = l THEN k ELSE rep[m]]
<1>1. l \in Leaves /\ l \notin INodes /\ l # NULL /\ l \notin S /\ c2[o][w] = l /\ c2[l][KEY] = k /\ l = Leaf(k)
  BY Objects
<1>2. /\ S \subseteq INodes \cup Leaves /\ NULL \notin S
      /\ \A m \in S : dep[m] \in 0 .. MAX_HEIGHT /\ rep[m] \in Keys
      /\ Level(c, dep, o) \in 0 .. MAX_HEIGHT
  BY Objects, LevelIs DEF Shape, Placed
<1>3. Placed(T, dep2, rep2)
  BY <1>1, <1>2 DEF Placed
<1>4. /\ \A m \in S : dep2[m] = dep[m] /\ rep2[m] = rep[m]
      /\ dep2[l] = Level(c, dep, o) /\ rep2[l] = k
  BY <1>1
<1>5. T \cap INodes = S \cap INodes /\ Above(T) = Above(S)
  BY <1>1 DEF Above
<1>a. l \in T /\ S \subseteq T /\ \A m \in T : m # l => m \in S
  OBVIOUS
<1> HIDE DEF dep2, rep2, l, T
<1>6. \A n \in S \cap INodes : End(c2, dep2, n) = End(c, dep, n)
  BY <1>4 DEF End, AlikeBut
<1>7. \A q \in Above(S) : Level(c2, dep2, q) = Level(c, dep, q)
  BY <1>6 DEF Above, Level
<1>8. \A q \in Above(S) : \A v, j : Through(c2, dep2, rep2, q, v, j) = Through(c, dep, rep, q, v, j)
  BY <1>4, <1>6 DEF Above, Through
<1>9. \A q \in Above(S) : \A v \in Ways(q) : <<q, v>> # <<o, w>> => c2[q][v] = c[q][v]
  BY DEF AlikeBut
<1>10. \A q \in Above(S) : \A v \in Ways(q) : c[q][v] = NULL \/ Child(c, S, dep, rep, q, v, c[q][v])
  BY DEF Shape, Hanging
<1>11. Headed(p, c2, T, dep2, rep2)
  BY <1>4, <1>5 DEF Shape, Headed, AlikeBut
<1>12. Forked(c2, T)
  <2> SUFFICES ASSUME NEW n \in S \cap INodes PROVE \E i \in 0 .. FAN - 1 : c2[n][i] # NULL
    BY <1>5 DEF Forked
  <2>1. PICK i \in 0 .. FAN - 1 : c[n][i] # NULL
    BY DEF Shape, Forked
  <2>2. n \in Above(S) /\ i \in Ways(n)
    BY Objects DEF Above, Ways
  <2>3. CASE <<n, i>> = <<o, w>>
    BY <1>1, <2>3
  <2>4. CASE <<n, i>> # <<o, w>>
    BY <1>9, <2>1, <2>2, <2>4
  <2> QED BY <2>3, <2>4
<1>13. Holding(c2, T, rep2)
  <2> SUFFICES ASSUME NEW m \in T \cap Leaves PROVE m = Leaf(rep2[m]) /\ c2[m][KEY] = rep2[m]
    BY DEF Holding
  <2>1. CASE m = l
    BY <1>1, <1>4, <2>1
  <2>2. CASE m # l
    <3>1. m \in S \cap Leaves
      BY <1>a, <2>2
    <3> QED BY <1>4, <3>1 DEF Shape, Holding, AlikeBut
  <2> QED BY <2>1, <2>2
<1>14. Hanging(c2, T, dep2, rep2)
  <2> SUFFICES ASSUME NEW q \in Above(S), NEW v \in Ways(q)
               PROVE  c2[q][v] = NULL \/ Child(c2, T, dep2, rep2, q, v, c2[q][v])
    BY <1>5 DEF Hanging
  <2>1. CASE <<q, v>> = <<o, w>>
    <3>1. q = o /\ v = w
      BY <2>1
    <3> QED BY <1>1, <1>4, <1>7, <1>8, <1>a, <3>1 DEF Child
  <2>2. CASE <<q, v>> # <<o, w>>
    BY <1>4, <1>7, <1>8, <1>9, <1>10, <1>a, <2>2 DEF Child
  <2> QED BY <2>1, <2>2
<1>15. Hung(c2, T)
  <2> SUFFICES ASSUME NEW m \in T PROVE \E q \in Above(S) : \E v \in Ways(q) : c2[q][v] = m
    BY <1>5 DEF Hung
  <2>1. CASE m = l
    BY <1>1, <2>1
  <2>2. CASE m # l
    <3>1. m \in S /\ m # NULL
      BY <1>2, <1>a, <2>2
    <3>2. PICK q \in Above(S) : \E v \in Ways(q) : c[q][v] = m
      BY <3>1 DEF Shape, Hung
    <3>3. PICK v \in Ways(q) : c[q][v] = m
      BY <3>2
    <3>4. <<q, v>> # <<o, w>>
      BY <3>1, <3>3
    <3> QED BY <1>9, <3>3, <3>4
  <2> QED BY <2>1, <2>2
<1>16. Once(c2, T)
  <2> SUFFICES ASSUME NEW q \in Above(S), NEW q2 \in Above(S), NEW v \in Ways(q), NEW v2 \in Ways(q2),
                      c2[q][v] = c2[q2][v2], c2[q][v] # NULL
               PROVE  q = q2 /\ v = v2
    BY <1>5 DEF Once
  <2>1. ASSUME NEW r \in Above(S), NEW u \in Ways(r), c2[r][u] = l PROVE r = o /\ u = w
    <3>1. CASE <<r, u>> # <<o, w>>
      <4>1. c[r][u] = l
        BY <1>9, <2>1, <3>1
      <4> QED BY <1>1, <1>10, <4>1 DEF Child
    <3> QED BY <3>1
  <2>2. CASE c2[q][v] = l
    BY <2>1, <2>2
  <2>3. CASE c2[q][v] # l
    <3>1. <<q, v>> # <<o, w>> /\ <<q2, v2>> # <<o, w>>
      BY <1>1, <2>3
    <3>2. c[q][v] = c[q2][v2] /\ c[q][v] # NULL
      BY <1>9, <3>1
    <3> QED BY <3>2 DEF Shape, Once
  <2> QED BY <2>2, <2>3
<1>17. Shape(p, c2, T, dep2, rep2)
  BY <1>3, <1>11, <1>12, <1>13, <1>14, <1>15, <1>16 DEF Shape
<1> QED BY <1>17 DEF T, l, Formed

\* c2 is c with a copy m2 of the inner node m where m hung.
Replaced(c, c2, S, o, w, m, m2) ==
  /\ m = c[o][w] /\ m \in S \cap INodes /\ m2 \in INodes \ S
  /\ AlikeBut(c, c2, S \ {m}, o, w) /\ c2[o][w] = m2
  /\ c2[m2][HDR] = c[m][HDR] /\ \A i \in 0 .. FAN - 1 : c2[m2][i] = c[m][i]

\* The tree is still one, with m2 for m.
LEMMA Renamed ==
  ASSUME NEW p, NEW c, NEW S, NEW dep, NEW rep, Shape(p, c, S, dep, rep), NEW o \in Above(S), NEW w \in Ways(o),
         NEW m, NEW m2, NEW c2, Replaced(c, c2, S, o, w, m, m2),
         NEW T, T = (S \ {m}) \cup {m2}, NEW dep2, dep2 = [x \in T |-> IF x = m2 THEN dep[m] ELSE dep[x]],
         NEW rep2, rep2 = [x \in T |-> IF x = m2 THEN rep[m] ELSE rep[x]]
  PROVE  Shape(p, c2, T, dep2, rep2)
<1> DEFINE old(q) == IF q = m2 THEN m ELSE q
<1>1. /\ m = c[o][w] /\ m \in S \cap INodes /\ m2 \in INodes /\ m2 \notin S /\ m # NULL /\ m # 0 /\ m2 # 0 /\ m # m2
      /\ c2[o][w] = m2 /\ c2[m2][HDR] = c[m][HDR] /\ \A i \in 0 .. FAN - 1 : c2[m2][i] = c[m][i]
      /\ m2 # NULL /\ m2 \notin Leaves /\ m \notin Leaves
  BY Objects DEF Replaced
<1>2. AlikeBut(c, c2, S \ {m}, o, w)
  BY DEF Replaced
<1>3. /\ S \subseteq INodes \cup Leaves /\ NULL \notin S /\ 0 \notin S
      /\ \A x \in S : dep[x] \in 0 .. MAX_HEIGHT /\ rep[x] \in Keys
  BY Objects DEF Shape, Placed
<1>4. o # m /\ o # m2
  <2>1. o # 0 => dep[o] < Level(c, dep, o) /\ Level(c, dep, o) \in 0 .. MAX_HEIGHT
    BY LevelIs
  <2>2. dep[m] = Level(c, dep, o)
    BY <1>1 DEF Shape, Hanging, Child
  <2>3. o # 0 => dep[o] \in 0 .. MAX_HEIGHT
    BY <1>3 DEF Above
  <2> QED BY <1>1, <2>1, <2>2, <2>3 DEF Above
<1>5. \A x \in T : old(x) \in S /\ dep2[x] = dep[old(x)] /\ rep2[x] = rep[old(x)] /\ (x # m2 => x \in S \ {m})
  BY <1>1
<1>5a. T \subseteq INodes \cup Leaves /\ \A x \in S \ {m} : x \in T /\ x # m2
  BY <1>1, <1>3
<1>5b. m2 \in T /\ dep2[m2] = dep[m] /\ rep2[m2] = rep[m]
  BY <1>1
<1>6. Placed(T, dep2, rep2)
  <2>1. \A x \in T : dep2[x] \in 0 .. MAX_HEIGHT /\ rep2[x] \in Keys
    BY <1>3, <1>5
  <2> QED BY <1>5a, <2>1 DEF Placed
<1>7. \A q \in T \cap INodes : old(q) \in S \cap INodes /\ c2[q][HDR] = c[old(q)][HDR]
  <2> SUFFICES ASSUME NEW q \in T \cap INodes PROVE old(q) \in S \cap INodes /\ c2[q][HDR] = c[old(q)][HDR]
    OBVIOUS
  <2>1. CASE q = m2
    BY <1>1, <2>1
  <2>2. CASE q # m2
    <3>1. q \in (S \ {m}) \cap INodes
      BY <1>5, <2>2
    <3> QED BY <1>2, <2>2, <3>1 DEF AlikeBut
  <2> QED BY <2>1, <2>2
<1>8. \A q \in T \cap INodes : End(c2, dep2, q) = End(c, dep, old(q)) /\ rep2[q] = rep[old(q)]
  BY <1>5, <1>7 DEF End
<1>9. \A q \in Above(T) : /\ old(q) \in Above(S) /\ (q = 0 <=> old(q) = 0) /\ Ways(q) = Ways(old(q))
                          /\ (q # 0 => q \in T \cap INodes)
  <2> SUFFICES ASSUME NEW q \in Above(T)
               PROVE  /\ old(q) \in Above(S) /\ (q = 0 <=> old(q) = 0) /\ Ways(q) = Ways(old(q))
                      /\ (q # 0 => q \in T \cap INodes)
    OBVIOUS
  <2>1. CASE q = 0
    BY <1>1, <2>1 DEF Above
  <2>2. CASE q # 0
    <3>1. q \in T \cap INodes
      BY <2>2 DEF Above
    <3>2. old(q) \in S \cap INodes
      BY <1>7, <3>1
    <3>3. old(q) # 0
      BY <1>3, <3>2
    <3> QED BY <2>2, <3>1, <3>2, <3>3 DEF Above, Ways
  <2> QED BY <2>1, <2>2
<1>a. \A x \in T : dep2[x] = dep[old(x)] /\ rep2[x] = rep[old(x)]
  BY <1>5
<1> HIDE DEF old
<1>10. \A q \in Above(T) : Level(c2, dep2, q) = Level(c, dep, old(q))
  BY <1>8, <1>9 DEF Level
<1>11. \A q \in Above(T) : \A v, j : Through(c2, dep2, rep2, q, v, j) = Through(c, dep, rep, old(q), v, j)
  BY <1>8, <1>9 DEF Through
<1>12. \A q \in Above(T) : \A v \in Ways(q) : <<q, v>> # <<o, w>> =>
         c2[q][v] = c[old(q)][v] /\ <<old(q), v>> # <<o, w>>
  <2> SUFFICES ASSUME NEW q \in Above(T), NEW v \in Ways(q), <<q, v>> # <<o, w>>
               PROVE  c2[q][v] = c[old(q)][v] /\ <<old(q), v>> # <<o, w>>
    OBVIOUS
  <2>1. CASE q = m2
    <3>1. v \in 0 .. FAN - 1 /\ old(q) = m
      BY <1>1, <2>1 DEF Ways, old
    <3> QED BY <1>1, <1>4, <2>1, <3>1
  <2>2. CASE q # m2
    <3>1. q \in Above(S \ {m}) /\ old(q) = q
      BY <1>5, <2>2 DEF Above, old
    <3> QED BY <1>2, <3>1 DEF AlikeBut
  <2> QED BY <2>1, <2>2
<1>13. o \in Above(T) /\ old(o) = o
  BY <1>4, <1>5a DEF Above, old
<1>14. \A q \in Above(S) : \A v \in Ways(q) :
         \/ c[q][v] = NULL
         \/ Child(c, S, dep, rep, q, v, c[q][v]) /\ (<<q, v>> # <<o, w>> => c[q][v] # m)
  BY <1>1 DEF Shape, Hanging, Once
<1>15. Headed(p, c2, T, dep2, rep2)
  <2> SUFFICES ASSUME NEW q \in T \cap INodes
               PROVE  \E len \in 0 .. MAX_DEPTH : dep2[q] + len <= MAX_DEPTH /\ c2[q][HDR] = HeaderOf(p, Digits(rep2[q], dep2[q], len))
    BY DEF Headed
  <2>1. old(q) \in S \cap INodes /\ c2[q][HDR] = c[old(q)][HDR] /\ dep2[q] = dep[old(q)] /\ rep2[q] = rep[old(q)]
    BY <1>7, <1>a
  <2>2. PICK x : x = old(q)
    OBVIOUS
  <2>3. \E len \in 0 .. MAX_DEPTH : dep[x] + len <= MAX_DEPTH /\ c[x][HDR] = HeaderOf(p, Digits(rep[x], dep[x], len))
    BY <2>1, <2>2 DEF Shape, Headed
  <2> QED BY <2>1, <2>2, <2>3
<1>16. Forked(c2, T)
  <2> SUFFICES ASSUME NEW q \in T \cap INodes PROVE \E i \in 0 .. FAN - 1 : c2[q][i] # NULL
    BY DEF Forked
  <2>1. old(q) \in S \cap INodes /\ q \in Above(T) /\ q # 0
    BY <1>3, <1>5a, <1>7, Objects DEF Above
  <2>2. PICK i \in 0 .. FAN - 1 : c[old(q)][i] # NULL
    BY <2>1 DEF Shape, Forked
  <2>3. i \in Ways(q)
    BY <2>1 DEF Ways
  <2> QED BY <1>1, <1>12, <2>1, <2>2, <2>3
<1>17. Holding(c2, T, rep2)
  <2> SUFFICES ASSUME NEW x \in T \cap Leaves PROVE x = Leaf(rep2[x]) /\ c2[x][KEY] = rep2[x]
    BY DEF Holding
  <2>1. x # m2 /\ x \in (S \ {m}) \cap Leaves /\ old(x) = x
    BY <1>1, <1>5 DEF old
  <2>2. x = Leaf(rep[x]) /\ c[x][KEY] = rep[x]
    BY <2>1 DEF Shape, Holding
  <2>3. c2[x][KEY] = c[x][KEY]
    BY <1>2, <2>1 DEF AlikeBut
  <2> QED BY <1>5, <2>1, <2>2, <2>3
<1>18. Hanging(c2, T, dep2, rep2)
  <2> SUFFICES ASSUME NEW q \in Above(T), NEW v \in Ways(q)
               PROVE  c2[q][v] = NULL \/ Child(c2, T, dep2, rep2, q, v, c2[q][v])
    BY DEF Hanging
  <2>1. CASE <<q, v>> = <<o, w>>
    <3>1. q = o /\ v = w
      BY <2>1
    <3>2. Child(c, S, dep, rep, o, w, m)
      BY <1>1, <1>14
    <3>3. dep[m] = Level(c, dep, o) /\ Through(c, dep, rep, o, w, rep[m])
      BY <3>2 DEF Child
    <3>4. dep2[m2] = Level(c2, dep2, o)
      BY <1>5b, <1>10, <1>13, <3>3
    <3>5. Through(c2, dep2, rep2, o, w, rep2[m2])
      BY <1>5b, <1>11, <1>13, <3>3
    <3>6. Child(c2, T, dep2, rep2, o, w, m2)
      BY <1>5b, <3>4, <3>5 DEF Child
    <3> QED BY <1>1, <3>1, <3>6
  <2>2. CASE <<q, v>> # <<o, w>>
    <3>1. c2[q][v] = c[old(q)][v] /\ <<old(q), v>> # <<o, w>> /\ old(q) \in Above(S) /\ v \in Ways(old(q))
      BY <1>9, <1>12, <2>2
    <3>2. CASE c[old(q)][v] = NULL
      BY <3>1, <3>2
    <3>3. CASE c[old(q)][v] # NULL
      <4>1. PICK x : x = c[old(q)][v]
        OBVIOUS
      <4>2. Child(c, S, dep, rep, old(q), v, x) /\ x # m
        BY <1>14, <3>1, <3>3, <4>1
      <4>3. x \in S \ {m} /\ dep[x] = Level(c, dep, old(q)) /\ Through(c, dep, rep, old(q), v, rep[x])
        BY <4>2 DEF Child
      <4>4. x \in T /\ dep2[x] = dep[x] /\ rep2[x] = rep[x]
        BY <1>5, <1>5a, <4>3 DEF old
      <4>5. dep2[x] = Level(c2, dep2, q)
        BY <1>10, <4>3, <4>4
      <4>6. Through(c2, dep2, rep2, q, v, rep2[x])
        BY <1>11, <4>3, <4>4
      <4>7. Child(c2, T, dep2, rep2, q, v, x)
        BY <4>4, <4>5, <4>6 DEF Child
      <4> QED BY <3>1, <4>1, <4>7
    <3> QED BY <3>2, <3>3
  <2> QED BY <2>1, <2>2
<1>19. Hung(c2, T)
  <2> SUFFICES ASSUME NEW x \in T PROVE \E q \in Above(T) : \E v \in Ways(q) : c2[q][v] = x
    BY DEF Hung
  <2>1. CASE x = m2
    BY <1>1, <1>13, <2>1
  <2>2. CASE x # m2
    <3>1. x \in S /\ x # m /\ x # NULL
      BY <1>3, <1>5, <2>2
    <3>2. PICK q \in Above(S) : \E v \in Ways(q) : c[q][v] = x
      BY <3>1 DEF Shape, Hung
    <3>3. PICK v \in Ways(q) : c[q][v] = x
      BY <3>2
    <3>4. <<q, v>> # <<o, w>>
      BY <1>1, <3>1, <3>3
    <3>5. CASE q = m
      <4>1. m2 \in Above(T) /\ v \in 0 .. FAN - 1 /\ v \in Ways(m2)
        BY <1>1, <1>5b, <3>5 DEF Above, Ways
      <4> QED BY <1>1, <3>3, <3>5, <4>1
    <3>6. CASE q # m
      <4>1. q \in Above(S \ {m}) /\ q \in Above(T)
        BY <1>5a, <3>6 DEF Above
      <4>2. c2[q][v] = c[q][v]
        BY <1>2, <3>4, <4>1 DEF AlikeBut
      <4> QED BY <3>3, <4>1, <4>2
    <3> QED BY <3>5, <3>6
  <2> QED BY <2>1, <2>2
<1>20. Once(c2, T)
  <2> SUFFICES ASSUME NEW q \in Above(T), NEW q2 \in Above(T), NEW v \in Ways(q), NEW v2 \in Ways(q2),
                      c2[q][v] = c2[q2][v2], c2[q][v] # NULL
               PROVE  q = q2 /\ v = v2
    BY DEF Once
  <2>1. ASSUME NEW r \in Above(T), NEW u \in Ways(r), c2[r][u] = m2 PROVE r = o /\ u = w
    <3>1. CASE <<r, u>> # <<o, w>>
      <4>1. c[old(r)][u] = m2 /\ old(r) \in Above(S) /\ u \in Ways(old(r))
        BY <1>9, <1>12, <2>1, <3>1
      <4> QED BY <1>1, <1>14, <4>1 DEF Child
    <3> QED BY <3>1
  <2>2. CASE c2[q][v] = m2
    BY <2>1, <2>2
  <2>3. CASE c2[q][v] # m2
    <3>1. <<q, v>> # <<o, w>> /\ <<q2, v2>> # <<o, w>>
      BY <1>1, <2>3
    <3>2. /\ c[old(q)][v] = c[old(q2)][v2] /\ c[old(q)][v] # NULL
          /\ old(q) \in Above(S) /\ old(q2) \in Above(S) /\ v \in Ways(old(q)) /\ v2 \in Ways(old(q2))
      BY <1>9, <1>12, <3>1
    <3>3. old(q) = old(q2) /\ v = v2
      BY <3>2 DEF Shape, Once
    <3>4. q \in {0} \cup T /\ q2 \in {0} \cup T
      BY DEF Above
    <3>5. ASSUME NEW x \in {0} \cup T, x # m2 PROVE x # m
      BY <1>1, <1>5, <3>5
    <3> QED BY <3>3, <3>4, <3>5 DEF old
  <2> QED BY <2>2, <2>3
<1>21. Shape(p, c2, T, dep2, rep2)
  BY <1>6, <1>15, <1>16, <1>17, <1>18, <1>19, <1>20 DEF Shape
<1> QED BY <1>21

\* What the node n, put over m where it hung, leads to: m itself, a leaf, or a
\* copy of m that starts len + 1 digits deeper.
Moved(p, c, c2, S, n, m, m2, d, len, r) ==
  \/ m \in Leaves /\ m2 = m /\ c2[m][KEY] = c[m][KEY]
  \/ /\ m \in INodes /\ m2 \in INodes \ S /\ m2 # n
     /\ len < c[m][HDR].partial_len
     /\ c2[m2][HDR] = HeaderOf(p, Digits(r, d + len + 1, c[m][HDR].partial_len - len - 1))
     /\ \A i \in 0 .. FAN - 1 : c2[m2][i] = c[m][i]

\* c2 is c with the node n put between the pointer <<o, w>>, at depth d, and
\* what hung there; k and what hung there part after len digits more.
Between(p, c, c2, S, dep, rep, k, o, w, m, d, len, n, m2) ==
  /\ m = c[o][w] /\ m # NULL /\ d = Level(c, dep, o)
  /\ d + len <= MAX_DEPTH /\ Same(rep[m], k, d + len)
  /\ Moved(p, c, c2, S, n, m, m2, d, len, rep[m])
  /\ AlikeBut(c, c2, S \ {m}, o, w) /\ c2[o][w] = n
  /\ c2[n][HDR] = HeaderOf(p, Digits(k, d, len))
  /\ \A i \in 0 .. FAN - 1 : c2[n][i] = IF i = get_index(rep[m], d + len) THEN m2 ELSE NULL

\* The objects T are a tree in c with node n at depth d, whose path is k's up to e.
NodeAt(p, c, T, n, d, k, e) ==
  \E dep, rep : Shape(p, c, T, dep, rep) /\ dep[n] = d /\ rep[n] = k /\ End(c, dep, n) = e

\* The tree is still one.
LEMMA Interposed ==
  ASSUME NEW p, NEW c, NEW S, NEW dep, NEW rep, Shape(p, c, S, dep, rep),
         NEW k \in Keys, NEW o \in Above(S), NEW w \in Ways(o), Through(c, dep, rep, o, w, k),
         NEW n \in INodes \ S, NEW len \in Nat,
         NEW m, NEW d, NEW m2, NEW c2, Between(p, c, c2, S, dep, rep, k, o, w, m, d, len, n, m2)
  PROVE  NodeAt(p, c2, (S \ {m}) \cup {n, m2}, n, d, k, d + len)
<1> DEFINE i0 == get_index(rep[m], d + len)
           T == (S \ {m}) \cup {n, m2}
           dep2 == [x \in T |-> IF x = n THEN d ELSE IF x = m2 THEN d + len + 1 ELSE dep[x]]
           rep2 == [x \in T |-> IF x = n THEN k ELSE IF x = m2 THEN rep[m] ELSE rep[x]]
           old(q) == IF q = m2 THEN m ELSE q
<1>0. /\ m = c[o][w] /\ m # NULL /\ d = Level(c, dep, o)
      /\ d + len <= MAX_DEPTH /\ Same(rep[m], k, d + len)
      /\ Moved(p, c, c2, S, n, m, m2, d, len, rep[m])
      /\ AlikeBut(c, c2, S \ {m}, o, w) /\ c2[o][w] = n
      /\ c2[n][HDR] = HeaderOf(p, Digits(k, d, len))
      /\ \A i \in 0 .. FAN - 1 : c2[n][i] = IF i = i0 THEN m2 ELSE NULL
  BY DEF Between
<1> USE <1>0
<1>1. /\ S \subseteq INodes \cup Leaves /\ NULL \notin S /\ NULL \notin INodes
      /\ \A x \in S : dep[x] \in 0 .. MAX_HEIGHT /\ rep[x] \in Keys
      /\ MAX_DEPTH \in Nat /\ MAX_HEIGHT = MAX_DEPTH + 1
      /\ d \in Nat /\ \A x \in INodes : x \notin Leaves /\ x # 0
  <2>1. d \in Nat
    BY LevelIs, Sizes
  <2>2. S \subseteq INodes \cup Leaves /\ \A x \in S : dep[x] \in 0 .. MAX_HEIGHT /\ rep[x] \in Keys
    BY DEF Shape, Placed
  <2> QED BY <2>1, <2>2, Objects, Sizes
<1>2. m \in S /\ dep[m] = d /\ rep[m] \in Keys /\ Through(c, dep, rep, o, w, rep[m])
  BY Beneath
<1>3. n \in INodes /\ n \notin S /\ n # m /\ n # o /\ n # 0
  BY <1>1, <1>2 DEF Above
<1>4. o # m /\ (o # 0 => o \in (S \ {m}) \cap INodes)
  <2>1. CASE o = 0
    BY <1>1, <1>2, <2>1, Objects
  <2>2. CASE o # 0
    <3>1. o \in S \cap INodes /\ dep[o] < dep[m]
      BY <1>2, <2>2, LevelIs
    <3> QED BY <1>1, <3>1
  <2> QED BY <2>1, <2>2
<1>5. i0 \in 0 .. FAN - 1
  <2>1. d + len \in 0 .. MAX_DEPTH
    BY <1>1
  <2> QED BY <1>2, <2>1, Digit
<1>6. /\ m2 # n /\ m2 # NULL /\ m2 \in INodes \cup Leaves /\ (m2 = m \/ m2 \notin S) /\ m2 # o
      /\ (m2 \in INodes <=> m \in INodes) /\ (m2 \in Leaves => m2 = m) /\ (m2 \in INodes => m2 \notin S)
  BY <1>1, <1>2, <1>3, <1>4, Objects DEF Moved, Above
<1>7. /\ n \in T /\ m2 \in T /\ (S \ {m}) \subseteq T
      /\ \A x \in T : x # n /\ x # m2 => x \in S /\ x # m
  OBVIOUS
<1>8. /\ dep2[n] = d /\ rep2[n] = k /\ dep2[m2] = d + len + 1 /\ rep2[m2] = rep[m]
      /\ \A x \in S \ {m} : x # n /\ x # m2 /\ dep2[x] = dep[x] /\ rep2[x] = rep[x]
  BY <1>2, <1>3, <1>6
<1>9. Placed(T, dep2, rep2)
  <2>1. T \subseteq INodes \cup Leaves
    BY <1>1, <1>3, <1>6
  <2>2. d \in 0 .. MAX_HEIGHT /\ d + len + 1 \in 0 .. MAX_HEIGHT
    BY <1>1
  <2>3. \A x \in T : dep2[x] \in 0 .. MAX_HEIGHT /\ rep2[x] \in Keys
    BY <1>1, <1>2, <1>7, <2>2
  <2> QED BY <2>1, <2>3 DEF Placed
<1> HIDE DEF dep2, rep2, i0, T
<1>10. /\ Above(T) \subseteq Nat /\ 0 \in Above(T) /\ n \in Above(T) /\ o \in Above(T)
       /\ \A q \in Above(S) : q # m => q \in Above(T)
       /\ \A q \in Above(T) : q # n => old(q) \in Above(S)
       /\ \A q \in Above(T) : q # n /\ q # m2 => q \in Above(S) /\ q # m
       /\ m \in INodes => m2 \in Above(T)
  BY <1>1, <1>2, <1>3, <1>4, <1>6, <1>7, Objects DEF Above
<1>11. \A q \in Above(T) : Ways(q) = Ways(old(q))
  BY <1>1, <1>2, <1>6, <1>10, Objects DEF Ways, Above
<1>12. End(c2, dep2, n) = d + len
  <2>1. k \in Keys /\ d \in Nat /\ len \in Nat /\ d + len <= MAX_HEIGHT
    BY <1>1, Sizes
  <2>2. Len(Digits(k, d, len)) = len
    BY <2>1, DigitsAre
  <2> QED BY <1>8, <2>2 DEF End, HeaderOf
<1>13. m \in INodes => End(c2, dep2, m2) = End(c, dep, m)
  <2> SUFFICES ASSUME m \in INodes PROVE End(c2, dep2, m2) = End(c, dep, m)
    OBVIOUS
  <2> DEFINE pl == c[m][HDR].partial_len
  <2>1. m \in S \cap INodes /\ m \notin Leaves
    BY <1>1, <1>2
  <2>2. pl \in 0 .. MAX_DEPTH /\ d + pl <= MAX_HEIGHT /\ End(c, dep, m) = d + pl
    BY <1>2, <2>1, InnerNode
  <2>3. len < pl /\ c2[m2][HDR] = HeaderOf(p, Digits(rep[m], d + len + 1, pl - len - 1))
    BY <2>1 DEF Moved
  <2> HIDE DEF pl
  <2>4. d + len + 1 \in Nat /\ pl - len - 1 \in Nat /\ (d + len + 1) + (pl - len - 1) <= MAX_HEIGHT
    BY <1>1, <2>2, <2>3
  <2>5. Len(Digits(rep[m], d + len + 1, pl - len - 1)) = pl - len - 1
    BY <1>2, <2>4, DigitsAre
  <2>6. c2[m2][HDR].partial_len = pl - len - 1
    BY <2>3, <2>5 DEF HeaderOf
  <2>7. End(c2, dep2, m2) = (d + len + 1) + (pl - len - 1)
    BY <1>8, <2>6 DEF End
  <2> QED BY <1>1, <2>2, <2>7
<1>14. \A q \in (S \ {m}) \cap INodes : End(c2, dep2, q) = End(c, dep, q)
  BY <1>8 DEF End, AlikeBut
<1>15. \A q \in Above(T) : q # n /\ q # 0 => End(c2, dep2, q) = End(c, dep, old(q)) /\ rep2[q] = rep[old(q)]
  <2> SUFFICES ASSUME NEW q \in Above(T), q # n, q # 0
               PROVE  End(c2, dep2, q) = End(c, dep, old(q)) /\ rep2[q] = rep[old(q)]
    OBVIOUS
  <2>1. CASE q = m2
    <3>1. m \in INodes
      BY <1>1, <1>6, <2>1, Objects DEF Above
    <3> QED BY <1>8, <1>13, <2>1, <3>1
  <2>2. CASE q # m2
    <3>1. q \in (S \ {m}) \cap INodes
      BY <1>10, <2>2 DEF Above
    <3> QED BY <1>8, <1>14, <2>2, <3>1
  <2> QED BY <2>1, <2>2
<1>16. \A q \in Above(T) : q # n => old(q) \in Above(S) /\ (old(q) = 0 <=> q = 0)
  BY <1>1, <1>2, <1>6, <1>10, Objects
<1>17. \A q \in Above(T) : q # n => Level(c2, dep2, q) = Level(c, dep, old(q))
  BY <1>15, <1>16 DEF Level
<1>18. \A q \in Above(T) : q # n => \A v, j : Through(c2, dep2, rep2, q, v, j) = Through(c, dep, rep, old(q), v, j)
  BY <1>15, <1>16 DEF Through
<1>19. \A q \in Above(T) : q # n => \A v \in Ways(q) : <<q, v>> # <<o, w>> =>
         c2[q][v] = c[old(q)][v] /\ <<old(q), v>> # <<o, w>>
  <2> SUFFICES ASSUME NEW q \in Above(T), q # n, NEW v \in Ways(q), <<q, v>> # <<o, w>>
               PROVE  c2[q][v] = c[old(q)][v] /\ <<old(q), v>> # <<o, w>>
    OBVIOUS
  <2>1. CASE q = m2
    <3>1. m \in INodes /\ v \in 0 .. FAN - 1 /\ m \notin Leaves
      BY <1>1, <1>6, <2>1, Objects DEF Above, Ways
    <3> QED BY <1>4, <2>1, <3>1 DEF Moved
  <2>2. CASE q # m2
    <3>1. q \in Above(S \ {m})
      BY <1>10, <2>2 DEF Above
    <3> QED BY <2>2, <3>1 DEF AlikeBut
  <2> QED BY <2>1, <2>2
<1>20. \A q \in Above(S) : \A v \in Ways(q) : <<q, v>> # <<o, w>> =>
         c[q][v] = NULL \/ (Child(c, S, dep, rep, q, v, c[q][v]) /\ c[q][v] # m)
  BY DEF Shape, Hanging, Once
<1>21. Headed(p, c2, T, dep2, rep2)
  <2> SUFFICES ASSUME NEW q \in T \cap INodes
               PROVE  \E l \in 0 .. MAX_DEPTH : dep2[q] + l <= MAX_DEPTH /\ c2[q][HDR] = HeaderOf(p, Digits(rep2[q], dep2[q], l))
    BY DEF Headed
  <2>1. CASE q = n
    BY <1>1, <1>8, <2>1
  <2>2. CASE q = m2
    <3> DEFINE pl == c[m][HDR].partial_len
    <3>1. m \in S \cap INodes /\ m \notin Leaves
      BY <1>1, <1>2, <1>6, <2>2
    <3>2. pl \in 0 .. MAX_DEPTH /\ End(c, dep, m) \in 0 .. MAX_DEPTH /\ End(c, dep, m) = d + pl
      BY <1>2, <3>1, InnerNode
    <3>3. len < pl /\ c2[m2][HDR] = HeaderOf(p, Digits(rep[m], d + len + 1, pl - len - 1))
      BY <3>1 DEF Moved
    <3> HIDE DEF pl
    <3>4. pl - len - 1 \in 0 .. MAX_DEPTH /\ (d + len + 1) + (pl - len - 1) <= MAX_DEPTH
      BY <1>1, <3>2, <3>3
    <3> QED BY <1>8, <2>2, <3>3, <3>4
  <2>3. CASE q # n /\ q # m2
    <3>1. q \in (S \ {m}) \cap INodes /\ q \in S \cap INodes
      BY <1>7, <2>3
    <3> QED BY <1>8, <3>1 DEF Shape, Headed, AlikeBut
  <2> QED BY <2>1, <2>2, <2>3
<1>22. Forked(c2, T)
  <2> SUFFICES ASSUME NEW q \in T \cap INodes PROVE \E i \in 0 .. FAN - 1 : c2[q][i] # NULL
    BY DEF Forked
  <2>1. CASE q = n
    BY <1>5, <1>6, <2>1 DEF i0
  <2>2. CASE q # n
    <3>1. q \in Above(T) /\ q # 0 /\ old(q) \in S \cap INodes
      BY <1>1, <1>2, <1>6, <1>7, <2>2 DEF Above
    <3>2. PICK i \in 0 .. FAN - 1 : c[old(q)][i] # NULL
      BY <3>1 DEF Shape, Forked
    <3>3. i \in Ways(q)
      BY <3>1 DEF Ways
    <3>4. CASE <<q, i>> = <<o, w>>
      BY <1>1, <1>3, <3>4
    <3>5. CASE <<q, i>> # <<o, w>>
      BY <1>19, <2>2, <3>1, <3>2, <3>3, <3>5
    <3> QED BY <3>4, <3>5
  <2> QED BY <2>1, <2>2
<1>23. Holding(c2, T, rep2)
  <2> SUFFICES ASSUME NEW q \in T \cap Leaves PROVE q = Leaf(rep2[q]) /\ c2[q][KEY] = rep2[q]
    BY DEF Holding
  <2>1. q # n
    BY <1>1, <1>3
  <2>2. CASE q = m2
    <3>1. m2 = m /\ m \in S \cap Leaves /\ m \notin INodes /\ c2[m][KEY] = c[m][KEY]
      BY <1>1, <1>2, <1>6, <2>2 DEF Moved
    <3> QED BY <1>8, <2>2, <3>1 DEF Shape, Holding
  <2>3. CASE q # m2
    <3>1. q \in (S \ {m}) \cap Leaves /\ q \in S \cap Leaves
      BY <1>7, <2>1, <2>3
    <3> QED BY <1>8, <3>1 DEF Shape, Holding, AlikeBut
  <2> QED BY <2>2, <2>3
<1>24. \A q \in Above(T) : \A v \in Ways(q) :
         \/ q = n /\ v = i0 /\ c2[q][v] = m2
         \/ q = n /\ v # i0 /\ c2[q][v] = NULL
         \/ q = o /\ w = v /\ c2[q][v] = n
         \/ q # n /\ <<q, v>> # <<o, w>> /\ c2[q][v] = NULL
         \/ q # n /\ <<q, v>> # <<o, w>> /\ c2[q][v] \in S \ {m}
  <2> SUFFICES ASSUME NEW q \in Above(T), NEW v \in Ways(q), q # n, <<q, v>> # <<o, w>>, c2[q][v] # NULL
               PROVE  c2[q][v] \in S \ {m}
    BY <1>3 DEF i0, Ways
  <2>1. c2[q][v] = c[old(q)][v] /\ <<old(q), v>> # <<o, w>> /\ old(q) \in Above(S) /\ v \in Ways(old(q))
    BY <1>10, <1>11, <1>19
  <2> HIDE DEF old
  <2> QED BY <1>20, <2>1 DEF Child
<1>25. Hanging(c2, T, dep2, rep2)
  <2> SUFFICES ASSUME NEW q \in Above(T), NEW v \in Ways(q)
               PROVE  c2[q][v] = NULL \/ Child(c2, T, dep2, rep2, q, v, c2[q][v])
    BY DEF Hanging
  <2>1. CASE q = n /\ v = i0
    <3>1. c2[q][v] = m2
      BY <1>5, <2>1 DEF i0
    <3>2. Level(c2, dep2, n) = d + len + 1
      BY <1>3, <1>12 DEF Level
    <3>3. Through(c2, dep2, rep2, n, i0, rep[m])
      BY <1>8, <1>12 DEF Through, i0
    <3> QED BY <1>7, <1>8, <2>1, <3>1, <3>2, <3>3 DEF Child
  <2>2. CASE q = o /\ v = w
    <3>1. old(o) = o /\ c2[q][v] = n /\ q # n
      BY <1>3, <1>6, <2>2
    <3>2. Level(c2, dep2, o) = d /\ Through(c2, dep2, rep2, o, w, k)
      BY <1>10, <1>17, <1>18, <1>3, <3>1
    <3> QED BY <1>7, <1>8, <2>2, <3>1, <3>2 DEF Child
  <2>3. CASE q # n /\ <<q, v>> # <<o, w>> /\ c2[q][v] # NULL
    <3>1. c2[q][v] = c[old(q)][v] /\ <<old(q), v>> # <<o, w>> /\ old(q) \in Above(S) /\ v \in Ways(old(q))
      BY <1>10, <1>11, <1>19, <2>3
    <3> DEFINE x == c2[q][v]
    <3>2. Child(c, S, dep, rep, old(q), v, x) /\ x # m /\ x \in S \ {m}
      BY <1>20, <2>3, <3>1 DEF Child
    <3>3. dep2[x] = dep[x] /\ rep2[x] = rep[x] /\ x \in T
      BY <1>7, <1>8, <3>2
    <3> HIDE DEF x, old
    <3>4. Child(c2, T, dep2, rep2, q, v, x)
      BY <1>17, <1>18, <2>3, <3>2, <3>3 DEF Child
    <3> QED BY <3>4 DEF x
  <2> QED BY <1>24, <2>1, <2>2, <2>3
<1>26. Hung(c2, T)
  <2> SUFFICES ASSUME NEW x \in T PROVE \E q \in Above(T) : \E v \in Ways(q) : c2[q][v] = x
    BY DEF Hung
  <2>1. CASE x = n
    BY <1>10, <2>1
  <2>2. CASE x = m2
    BY <1>3, <1>5, <1>10, <2>2 DEF i0, Ways
  <2>3. CASE x # n /\ x # m2
    <3>1. x \in S /\ x # m
      BY <1>7, <2>3
    <3>2. PICK q \in Above(S) : \E v \in Ways(q) : c[q][v] = x
      BY <3>1 DEF Shape, Hung
    <3>3. PICK v \in Ways(q) : c[q][v] = x
      BY <3>2
    <3>4. <<q, v>> # <<o, w>>
      BY <3>1, <3>3
    <3>5. CASE q = m
      <4>1. m \in INodes
        BY <1>1, <1>2, <3>5, Objects DEF Above
      <4>2. m2 \in Above(T) /\ m2 # n /\ old(m2) = m /\ <<m2, v>> # <<o, w>>
        BY <1>6, <1>10, <4>1
      <4>3. v \in Ways(m2)
        BY <1>11, <3>5, <4>2
      <4> QED BY <1>19, <3>3, <3>5, <4>2, <4>3
    <3>6. CASE q # m
      <4>1. q \in Above(T) /\ q # n
        BY <1>3, <1>10, <3>6 DEF Above
      <4>2. old(q) = q
        BY <1>1, <1>6, <3>6, Objects DEF Above
      <4> QED BY <1>19, <3>3, <3>4, <4>1, <4>2
    <3> QED BY <3>5, <3>6
  <2> QED BY <2>1, <2>2, <2>3
<1>27. Once(c2, T)
  <2> SUFFICES ASSUME NEW q \in Above(T), NEW q2 \in Above(T), NEW v \in Ways(q), NEW v2 \in Ways(q2),
                      c2[q][v] = c2[q2][v2], c2[q][v] # NULL
               PROVE  q = q2 /\ v = v2
    BY DEF Once
  <2>1. m2 # n /\ n \notin S \ {m} /\ m2 \notin S \ {m}
    BY <1>3, <1>6
  <2>2. CASE c2[q][v] \in S \ {m}
    <3>1. /\ q # n /\ <<q, v>> # <<o, w>> /\ q2 # n /\ <<q2, v2>> # <<o, w>>
      BY <1>24, <2>1, <2>2
    <3>2. /\ c[old(q)][v] = c[old(q2)][v2] /\ c[old(q)][v] # NULL
          /\ old(q) \in Above(S) /\ old(q2) \in Above(S) /\ v \in Ways(old(q)) /\ v2 \in Ways(old(q2))
      BY <1>10, <1>11, <1>19, <3>1
    <3>3. old(q) = old(q2) /\ v = v2
      <4> HIDE DEF old
      <4> QED BY <3>2 DEF Shape, Once
    <3>4. (q # m2 => q # m) /\ (q2 # m2 => q2 # m)
      BY <1>10, <3>1
    <3> QED BY <3>3, <3>4
  <2>3. CASE c2[q][v] \notin S \ {m}
    BY <1>24, <2>1, <2>3
  <2> QED BY <2>2, <2>3
<1>28. Shape(p, c2, T, dep2, rep2)
  BY <1>9, <1>21, <1>22, <1>23, <1>25, <1>26, <1>27 DEF Shape
<1> QED BY <1>8, <1>12, <1>28 DEF T, NodeAt

-----------------------------------------------------------------------------
(* Pieces of paths *)

\* Keys that agree have the same paths.
LEMMA DigitsSame ==
  ASSUME NEW j \in Keys, NEW k \in Keys, NEW d \in Nat, NEW len \in Nat, Same(j, k, d + len)
  PROVE  Digits(j, d, len) = Digits(k, d, len)
<1>1. \A i \in 1 .. len : d + i - 1 \in 0 .. (d + len) - 1
  OBVIOUS
<1>2. \A i \in 1 .. len : get_index(j, d + i - 1) = get_index(k, d + i - 1)
  BY <1>1 DEF Same
<1> QED BY <1>2 DEF Digits

\* The path so far, and the rest of it.
LEMMA DigitsFirst ==
  ASSUME NEW k \in Keys, NEW d \in Nat, NEW len \in Nat, d + len <= MAX_HEIGHT, NEW n \in Nat, n < len
  PROVE  /\ SubSeq(Digits(k, d, len), 1, n) = Digits(k, d, n)
         /\ Digits(k, d, len)[n + 1] = get_index(k, d + n)
         /\ Rest(Digits(k, d, len), n) = Digits(k, d + n + 1, len - n - 1)
<1> DEFINE P == Digits(k, d, len)
           a == d + n + 1
           z == len - n - 1
<1>1. P \in Seq(Nat) /\ Len(P) = len /\ \A i \in 1 .. len : P[i] = get_index(k, d + i - 1) /\ P[i] \in Nat
  <2>1. P \in Seq(Nat) /\ Len(P) = len /\ \A i \in 1 .. len : P[i] = get_index(k, d + i - 1)
    BY DigitsAre
  <2> QED BY <2>1, ElementOfSeq
<1>2. a \in Nat /\ z \in Nat /\ a + z <= MAX_HEIGHT /\ d + n <= MAX_HEIGHT /\ MAX_HEIGHT \in Nat
  BY Sizes
<1> HIDE DEF P
<1>3. SubSeq(P, 1, n) = Digits(k, d, n)
  <2> DEFINE s == SubSeq(P, 1, n)
             t == Digits(k, d, n)
  <2>1. t \in Seq(Nat) /\ Len(t) = n /\ \A i \in 1 .. n : t[i] = get_index(k, d + i - 1)
    BY <1>2, DigitsAre
  <2>2. \A i \in 1 .. n : P[i] \in Nat /\ P[i] = get_index(k, d + i - 1)
    BY <1>1
  <2>3. s \in Seq(Nat) /\ Len(s) = n /\ \A i \in 1 .. n : s[i] = P[i]
    <3>1. /\ s \in Seq(Nat) /\ Len(s) = IF 1 <= n THEN n - 1 + 1 ELSE 0
          /\ \A i \in 1 .. n - 1 + 1 : s[i] = P[1 + i - 1]
      BY <2>2, SubSeqProperties
    <3> HIDE DEF s
    <3>2. \A i \in 1 .. n : i \in 1 .. n - 1 + 1 /\ 1 + i - 1 = i
      OBVIOUS
    <3> QED BY <3>1, <3>2
  <2> HIDE DEF s, t
  <2>4. s = t
    BY <2>1, <2>2, <2>3, SeqEqual
  <2> QED BY <2>4 DEF s, t
<1>4. SubSeq(P, n + 2, len) = Digits(k, a, z)
  <2> DEFINE s == SubSeq(P, n + 2, len)
             t == Digits(k, a, z)
  <2>1. t \in Seq(Nat) /\ Len(t) = z /\ \A i \in 1 .. z : t[i] = get_index(k, a + i - 1)
    BY <1>2, DigitsAre
  <2>2. \A i \in n + 2 .. len : P[i] \in Nat /\ P[i] = get_index(k, d + i - 1)
    BY <1>1
  <2>3. s \in Seq(Nat) /\ Len(s) = z /\ \A i \in 1 .. z : s[i] = get_index(k, a + i - 1)
    <3>1. /\ s \in Seq(Nat) /\ Len(s) = IF n + 2 <= len THEN len - (n + 2) + 1 ELSE 0
          /\ \A i \in 1 .. len - (n + 2) + 1 : s[i] = P[(n + 2) + i - 1]
      BY <2>2, SubSeqProperties
    <3> HIDE DEF s
    <3>2. \A i \in 1 .. z : /\ i \in 1 .. len - (n + 2) + 1 /\ (n + 2) + i - 1 \in n + 2 .. len
                            /\ d + ((n + 2) + i - 1) - 1 = a + i - 1
      OBVIOUS
    <3>3. Len(s) = z
      BY <3>1
    <3>4. \A i \in 1 .. z : s[i] = get_index(k, a + i - 1)
      <4> SUFFICES ASSUME NEW i \in 1 .. z PROVE s[i] = get_index(k, a + i - 1)
        OBVIOUS
      <4> DEFINE x == (n + 2) + i - 1
      <4>1. s[i] = P[x] /\ x \in n + 2 .. len /\ d + x - 1 = a + i - 1
        BY <3>1, <3>2
      <4> HIDE DEF x, a
      <4>2. P[x] = get_index(k, d + x - 1)
        BY <2>2, <4>1
      <4> QED BY <4>1, <4>2
    <3> QED BY <3>1, <3>3, <3>4
  <2> HIDE DEF s, t
  <2>4. s = t
    BY <2>1, <2>3, SeqEqual
  <2> QED BY <2>4 DEF s, t
<1>5. P[n + 1] = get_index(k, d + n)
  <2>1. n + 1 \in 1 .. len /\ d + (n + 1) - 1 = d + n
    OBVIOUS
  <2> QED BY <1>1, <2>1
<1> QED BY <1>1, <1>3, <1>4, <1>5 DEF P, Rest

-----------------------------------------------------------------------------
(* Stores *)

\* What two functions are together.
LEMMA BothIs ==
  ASSUME NEW f, NEW g
  PROVE  /\ DOMAIN Both(f, g) = DOMAIN f \cup DOMAIN g
         /\ \A l \in DOMAIN f : Both(f, g)[l] = f[l]
         /\ \A l \in DOMAIN g : l \notin DOMAIN f => Both(f, g)[l] = g[l]
BY DEF Both

\* What one word is.
LEMMA WordIs ==
  ASSUME NEW l, NEW x
  PROVE  DOMAIN Word(l, x) = {l} /\ Word(l, x)[l] = x
BY DEF Word

\* The words of an object.
Fields(o) == IF o = 0 THEN {0} ELSE IF o \in INodes THEN 0 .. FAN ELSE {VALUE, KEY}

\* The stores of an object.
LEMMA ObjectIs ==
  ASSUME NEW o, o # 0, NEW content
  PROVE  /\ DOMAIN Object(o, content) = {o} \X Fields(o)
         /\ \A w \in Fields(o) : Object(o, content)[<<o, w>>] = content[w]
BY DEF Object, Words, Fields

\* What make_leaf stores.
LEMMA NewLeafIs ==
  ASSUME NEW k, NEW v
  PROVE  MakeLeaf(k, v)[VALUE] = v /\ MakeLeaf(k, v)[KEY] = k
BY DEF MakeLeaf, VALUE, KEY

\* What alloc_node and add_child leave in a node.
LEMMA NewNodeIs ==
  ASSUME NEW path, NEW child
  PROVE  /\ NewNode(path, child)[HDR] = HeaderOf(pessimistic, path)
         /\ \A i \in 0 .. FAN - 1 : NewNode(path, child)[i] = IF i \in DOMAIN child THEN child[i] ELSE NULL
<1>1. HDR \in 0 .. FAN /\ \A i \in 0 .. FAN - 1 : i \in 0 .. FAN /\ i # HDR
  BY Sizes
<1>2. Header(path) = HeaderOf(pessimistic, path)
  BY DEF Header, HeaderOf
<1> QED BY <1>1, <1>2 DEF NewNode

Objs == {0} \cup INodes \cup Leaves

\* c2 is c with the node n put between the pointer <<o, w>>, at depth d, and
\* what hung there, and with the leaf of k beside it under n.
Forking(p, c, c2, S, dep, rep, k, o, w, m, d, len, n, m2) ==
  /\ m = c[o][w] /\ m # NULL /\ d = Level(c, dep, o)
  /\ d + len <= MAX_DEPTH /\ Same(rep[m], k, d + len)
  /\ get_index(rep[m], d + len) # get_index(k, d + len)
  /\ Moved(p, c, c2, S, n, m, m2, d, len, rep[m])
  /\ AlikeBut(c, c2, S \ {m}, o, w) /\ c2[o][w] = n
  /\ c2[n][HDR] = HeaderOf(p, Digits(k, d, len))
  /\ \A i \in 0 .. FAN - 1 : c2[n][i] = IF i = get_index(rep[m], d + len) THEN m2
                                       ELSE IF i = get_index(k, d + len) THEN Leaf(k) ELSE NULL
  /\ c2[Leaf(k)][KEY] = k

\* The tree is still one, with k in it.
LEMMA ForkedOff ==
  ASSUME NEW p, NEW c, NEW S, NEW dep, NEW rep, Shape(p, c, S, dep, rep), Branching(c, S),
         NEW k \in Keys, Leaf(k) \notin S,
         NEW o \in Above(S), NEW w \in Ways(o), Through(c, dep, rep, o, w, k),
         NEW n \in INodes \ S, NEW len \in Nat,
         NEW m, NEW d, NEW m2, NEW c2, Forking(p, c, c2, S, dep, rep, k, o, w, m, d, len, n, m2)
  PROVE  Tree(p, c2, ((S \ {m}) \cup {n, m2}) \cup {Leaf(k)})
<1> DEFINE i1 == get_index(k, d + len)
           i0 == get_index(rep[m], d + len)
           T == (S \ {m}) \cup {n, m2}
           c1 == [q \in Objs |-> IF q = n THEN [u \in 0 .. FAN |-> IF u = i1 THEN NULL ELSE c2[n][u]] ELSE c2[q]]
<1>0. /\ m = c[o][w] /\ m # NULL /\ d = Level(c, dep, o)
      /\ d + len <= MAX_DEPTH /\ Same(rep[m], k, d + len) /\ i0 # i1
      /\ Moved(p, c, c2, S, n, m, m2, d, len, rep[m])
      /\ AlikeBut(c, c2, S \ {m}, o, w) /\ c2[o][w] = n
      /\ c2[n][HDR] = HeaderOf(p, Digits(k, d, len))
      /\ \A i \in 0 .. FAN - 1 : c2[n][i] = IF i = i0 THEN m2 ELSE IF i = i1 THEN Leaf(k) ELSE NULL
      /\ c2[Leaf(k)][KEY] = k
  BY DEF Forking
<1> USE <1>0
<1>1. /\ S \subseteq INodes \cup Leaves /\ n \in INodes /\ n # 0 /\ n \notin Leaves /\ n \in Objs /\ n \notin S
      /\ \A q \in Above(S) : q # n /\ q \in Objs
      /\ INodes \subseteq Objs /\ Leaves \subseteq Objs /\ Leaf(k) \in Leaves /\ Leaf(k) \notin INodes
  BY Objects DEF Shape, Placed, Above, Objs
<1>2. m \in S /\ rep[m] \in Keys /\ m \in Objs /\ m # n
  BY <1>1, Beneath
<1>3. i1 \in 0 .. FAN - 1 /\ i0 \in 0 .. FAN - 1 /\ i0 # i1 /\ FAN \in Nat /\ HDR = FAN /\ HDR # i1 /\ HDR \in 0 .. FAN
  <2>1. d + len \in 0 .. MAX_DEPTH
    BY LevelIs, Sizes
  <2>2. i1 \in 0 .. FAN - 1
    BY <2>1, Digit
  <2>3. i0 \in 0 .. FAN - 1
    BY <1>2, <2>1, Digit
  <2>4. i0 # i1
    OBVIOUS
  <2> HIDE DEF i0, i1
  <2> QED BY <2>2, <2>3, <2>4, Sizes
<1>4. \A q \in Objs : q # n => c1[q] = c2[q]
  OBVIOUS
<1>5. c1[n][HDR] = c2[n][HDR] /\ \A i \in 0 .. FAN - 1 : c1[n][i] = IF i = i1 THEN NULL ELSE c2[n][i]
  BY <1>1, <1>3
<1> HIDE DEF c1, i0, i1
<1>6. m2 \in Objs /\ m2 # n /\ m2 # Leaf(k)
  BY <1>1, <1>2, Objects DEF Moved
<1>7. Moved(p, c, c1, S, n, m, m2, d, len, rep[m])
  BY <1>1, <1>2, <1>4, <1>6 DEF Moved
<1>8. AlikeBut(c, c1, S \ {m}, o, w)
  <2>1. \A q \in Above(S \ {m}) : c1[q] = c2[q]
    BY <1>1, <1>4 DEF Above
  <2>2. \A q \in (S \ {m}) : c1[q] = c2[q]
    BY <1>1, <1>4
  <2>3. \A q \in Above(S \ {m}) : \A v \in Ways(q) : <<q, v>> # <<o, w>> => c1[q][v] = c[q][v]
    <3> SUFFICES ASSUME NEW q \in Above(S \ {m}), NEW v \in Ways(q), <<q, v>> # <<o, w>>
                 PROVE  c1[q][v] = c[q][v]
      OBVIOUS
    <3>1. c2[q][v] = c[q][v]
      BY DEF AlikeBut
    <3> QED BY <2>1, <3>1
  <2>4. \A q \in (S \ {m}) \cap INodes : c1[q][HDR] = c[q][HDR]
    BY <2>2 DEF AlikeBut
  <2>5. \A q \in (S \ {m}) \cap Leaves : c1[q][KEY] = c[q][KEY]
    BY <2>2 DEF AlikeBut
  <2> QED BY <2>3, <2>4, <2>5 DEF AlikeBut
<1>9. c1[o][w] = n
  BY <1>1, <1>4
<1>10. c1[n][HDR] = HeaderOf(p, Digits(k, d, len))
  BY <1>5
<1>11. \A i \in 0 .. FAN - 1 : c1[n][i] = IF i = get_index(rep[m], d + len) THEN m2 ELSE NULL
  BY <1>3, <1>5 DEF i0, i1
<1>12. PICK dep2, rep2 : Shape(p, c1, T, dep2, rep2) /\ dep2[n] = d /\ rep2[n] = k /\ End(c1, dep2, n) = d + len
  <2>1. Between(p, c, c1, S, dep, rep, k, o, w, m, d, len, n, m2)
    BY <1>7, <1>8, <1>9, <1>10, <1>11 DEF Between
  <2>2. n \in INodes \ S
    OBVIOUS
  <2>3. NodeAt(p, c1, T, n, d, k, d + len)
    BY <2>1, <2>2, Interposed
  <2> QED BY <2>3 DEF NodeAt
<1>13. n \in Above(T) /\ i1 \in Ways(n) /\ Leaf(k) \notin T
  BY <1>1, <1>3, <1>6 DEF Above, Ways
<1>14. Through(c1, dep2, rep2, n, i1, k) /\ c1[n][i1] = NULL
  BY <1>3, <1>5, <1>12 DEF Through, Same, i1
<1>15. AlikeBut(c1, c2, T, n, i1)
  <2>1. \A q \in Above(T) \cup T : q # n => c1[q] = c2[q]
    BY <1>1, <1>4, <1>6 DEF Above, Objs
  <2>2. \A i \in Ways(n) : i # i1 => c1[n][i] = c2[n][i]
    BY <1>1, <1>5 DEF Ways
  <2> HIDE DEF T
  <2>3. ASSUME NEW q \in Above(T), NEW v \in Ways(q), <<q, v>> # <<n, i1>> PROVE c2[q][v] = c1[q][v]
    BY <2>1, <2>2, <2>3
  <2>4. \A q \in T \cap INodes : c2[q][HDR] = c1[q][HDR]
    BY <1>5, <2>1
  <2>5. \A q \in T \cap Leaves : c2[q][KEY] = c1[q][KEY]
    BY <1>1, <2>1
  <2> QED BY <2>3, <2>4, <2>5 DEF AlikeBut
<1>16. c2[n][i1] = Leaf(k)
  BY <1>3 DEF i0, i1
<1> HIDE DEF T
<1>17. Formed(p, c2, T \cup {Leaf(k)})
  BY <1>12, <1>13, <1>14, <1>15, <1>16, Planted
<1>18. Branching(c2, T \cup {Leaf(k)})
  <2> SUFFICES ASSUME NEW q \in (T \cup {Leaf(k)}) \cap INodes
               PROVE  \E i, j \in 0 .. FAN - 1 : i # j /\ c2[q][i] # NULL /\ c2[q][j] # NULL
    BY DEF Branching
  <2>1. Branching(c2, S \ {m})
    <3>1. c2[o][w] # NULL /\ S \ {m} \subseteq S
      BY <1>1, Objects
    <3> QED BY <3>1, BranchingKept
  <2>2. CASE q \in S \ {m}
    BY <2>1, <2>2 DEF Branching
  <2>3. CASE q = n
    <3>1. c2[n][i0] = m2 /\ c2[n][i1] = Leaf(k)
      BY <1>3 DEF i0, i1
    <3>2. m2 # NULL /\ Leaf(k) # NULL
      BY Objects DEF Moved
    <3> QED BY <1>3, <2>3, <3>1, <3>2
  <2>4. CASE q = m2 /\ q # n /\ q \notin S \ {m}
    <3>1. m2 \notin Leaves /\ m2 \in INodes
      BY <2>4, Objects
    <3>2. m \in INodes /\ \A i \in 0 .. FAN - 1 : c2[m2][i] = c[m][i]
      BY <3>1 DEF Moved
    <3>3. m \in S \cap INodes
      BY <1>2, <3>2
    <3>4. PICK i, j \in 0 .. FAN - 1 : i # j /\ c[m][i] # NULL /\ c[m][j] # NULL
      BY <3>3 DEF Branching
    <3> QED BY <2>4, <3>2, <3>4
  <2> QED BY <1>1, <2>2, <2>3, <2>4 DEF T
<1> QED BY <1>17, <1>18 DEF T, Tree

\* c2 is c after the stores st.
Wrote(c, c2, st) ==
  \A q \in Objs : \A u \in Fields(q) :
    c2[q][u] = IF <<q, u>> \in DOMAIN st THEN st[<<q, u>>] ELSE c[q][u]

\* Word u of object q may hold x.
Good(q, u, x) ==
  /\ q = 0 => x \in INodes \cup Leaves \cup {NULL}
  /\ q \in INodes => IF u = HDR THEN x.partial_len \in 0 .. MAX_DEPTH ELSE x \in INodes \cup Leaves \cup {NULL}

\* The tree S in c becomes S2 in c2, where k has the value v: of the stores st
\* one is to ref, the others to objects that are not in S.
Grown(c, c2, S, S2, k, v, ref, st) ==
  /\ ref \in DOMAIN st
  /\ \A l \in DOMAIN st : \E q \in Objs : \E u \in Fields(q) :
       l = <<q, u>> /\ Good(q, u, st[l]) /\ (l = ref \/ q \notin {0} \cup S)
  /\ S2 \subseteq INodes \cup Leaves /\ S2 \cap Leaves = (S \cap Leaves) \cup {Leaf(k)}
  /\ \A j \in Keys : c2[Leaf(j)][VALUE] = IF j = k THEN v ELSE c[Leaf(j)][VALUE]

\* The words of the objects.
LEMMA FieldsAre ==
  /\ Fields(0) = {0} /\ \A n \in INodes : Fields(n) = 0 .. FAN
  /\ \A l \in Leaves : Fields(l) = {VALUE, KEY}
  /\ INodes \subseteq Objs /\ Leaves \subseteq Objs /\ 0 \in Objs /\ HDR \in 0 .. FAN
  /\ \A i \in 0 .. FAN - 1 : i \in 0 .. FAN /\ i # HDR
  /\ \A i \in 0 .. FAN : i = HDR \/ i \in 0 .. FAN - 1
  /\ VALUE # KEY
<1>1. HDR \in 0 .. FAN /\ VALUE # KEY /\ \A i \in 0 .. FAN - 1 : i \in 0 .. FAN /\ i # HDR
  BY Sizes
<1>2. \A i \in 0 .. FAN : i = HDR \/ i \in 0 .. FAN - 1
  BY Sizes
<1> QED BY <1>1, <1>2, Objects DEF Fields, Objs

\* A pointer of a tree is a word that may lead anywhere.
LEMMA PointerIs ==
  ASSUME NEW S, S \subseteq INodes \cup Leaves, NEW o \in Above(S), NEW w \in Ways(o)
  PROVE  /\ o \in Objs /\ w \in Fields(o) /\ o \notin Leaves /\ (o # 0 => o \in INodes /\ o \in S /\ w # HDR)
         /\ \A x \in INodes \cup Leaves \cup {NULL} : Good(o, w, x)
<1>1. CASE o = 0
  BY <1>1, FieldsAre, Objects DEF Ways, Good
<1>2. CASE o # 0
  <2>1. o \in S /\ o \in INodes /\ w \in 0 .. FAN - 1
    BY <1>2 DEF Above, Ways
  <2> QED BY <1>2, <2>1, FieldsAre, Objects DEF Good
<1> QED BY <1>1, <1>2

\* The stores of a leaf.
LEMMA LeafStores ==
  ASSUME NEW k \in Keys, NEW v
  PROVE  /\ DOMAIN Object(Leaf(k), MakeLeaf(k, v)) = {Leaf(k)} \X {VALUE, KEY}
         /\ Object(Leaf(k), MakeLeaf(k, v))[<<Leaf(k), VALUE>>] = v
         /\ Object(Leaf(k), MakeLeaf(k, v))[<<Leaf(k), KEY>>] = k
<1>1. Leaf(k) \in Leaves /\ Leaf(k) # 0
  BY Objects
<1>2. Fields(Leaf(k)) = {VALUE, KEY}
  BY <1>1, FieldsAre
<1> DEFINE x == MakeLeaf(k, v)
           g == Object(Leaf(k), x)
<1>3. DOMAIN g = {Leaf(k)} \X Fields(Leaf(k)) /\ \A w \in Fields(Leaf(k)) : g[<<Leaf(k), w>>] = x[w]
  BY <1>1, ObjectIs
<1>4. x[VALUE] = v /\ x[KEY] = k
  BY NewLeafIs
<1> HIDE DEF x, g
<1>5. g[<<Leaf(k), VALUE>>] = v /\ g[<<Leaf(k), KEY>>] = k
  BY <1>2, <1>3, <1>4
<1> QED BY <1>2, <1>3, <1>5 DEF g, x

\* Where the key's leaf is and where it is not.
LEMMA ValuesAre ==
  ASSUME NEW c, NEW c2, NEW st, Wrote(c, c2, st), NEW k \in Keys, NEW v,
         <<Leaf(k), VALUE>> \in DOMAIN st, st[<<Leaf(k), VALUE>>] = v,
         \A j \in Keys : j # k => <<Leaf(j), VALUE>> \notin DOMAIN st
  PROVE  \A j \in Keys : c2[Leaf(j)][VALUE] = IF j = k THEN v ELSE c[Leaf(j)][VALUE]
<1> SUFFICES ASSUME NEW j \in Keys PROVE c2[Leaf(j)][VALUE] = IF j = k THEN v ELSE c[Leaf(j)][VALUE]
  OBVIOUS
<1>1. Leaf(j) \in Leaves
  BY Objects
<1>2. Leaf(j) \in Objs /\ VALUE \in Fields(Leaf(j))
  BY <1>1, FieldsAre
<1> QED BY <1>2 DEF Wrote

\* InsertLeaf's stores.
LEMMA LeafGrown ==
  ASSUME pessimistic \in BOOLEAN, NEW c, NEW S, NEW dep, NEW rep, Shape(pessimistic, c, S, dep, rep), Branching(c, S),
         NEW k \in Keys, NEW s, s = Site(c, k), s.n = NULL, NEW v,
         NEW st, st = Both(Word(s.ref, Leaf(k)), Object(Leaf(k), MakeLeaf(k, v))),
         NEW c2, Wrote(c, c2, st)
  PROVE  /\ Tree(pessimistic, c2, S \cup {Leaf(k)})
         /\ Grown(c, c2, S, S \cup {Leaf(k)}, k, v, s.ref, st)
         /\ Leaf(k) \notin S /\ Leaf(k) \in Leaves
<1> DEFINE l == Leaf(k)
<1>1. PICK o \in Above(S) : \E w \in Ways(o) : s = Call(c, dep, o, w) /\ Through(c, dep, rep, o, w, k)
  BY SiteIs
<1>2. PICK w \in Ways(o) : s = Call(c, dep, o, w) /\ Through(c, dep, rep, o, w, k)
  BY <1>1
<1>3. s.ref = <<o, w>> /\ c[o][w] = NULL
  BY <1>2 DEF Call
<1>4. S \subseteq INodes \cup Leaves
  BY DEF Shape, Placed
<1>5. l \in Leaves /\ l \notin INodes /\ l # 0 /\ l \in Objs /\ Fields(l) = {VALUE, KEY} /\ VALUE # KEY /\ l \notin S
  <2>1. l \in Leaves /\ l \notin INodes /\ l # 0 /\ l # NULL
    BY Objects
  <2>2. l \notin S
    BY <2>1, SiteIs
  <2> QED BY <2>1, <2>2, FieldsAre
<1>6. \A q \in Above(S) : \A u \in Ways(q) : q \in Objs /\ u \in Fields(q) /\ q # l
  BY <1>4, <1>5, PointerIs
<1>7. o \in Objs /\ w \in Fields(o) /\ o # l /\ (o # 0 => w # HDR) /\ Good(o, w, l) /\ o \notin Leaves
  BY <1>4, <1>5, PointerIs
<1> DEFINE r == <<o, w>>
           f == Word(r, l)
           g == Object(l, MakeLeaf(k, v))
<1>8. DOMAIN f = {r} /\ f[r] = l
  BY WordIs
<1>9. DOMAIN g = {l} \X {VALUE, KEY} /\ g[<<l, VALUE>>] = v /\ g[<<l, KEY>>] = k
  BY LeafStores
<1>10. st = Both(f, g)
  BY <1>3
<1> HIDE DEF f, g, l
<1>b. /\ DOMAIN st = DOMAIN f \cup DOMAIN g /\ \A x \in DOMAIN f : st[x] = f[x]
      /\ \A x \in DOMAIN g : x \notin DOMAIN f => st[x] = g[x]
  <2>1. /\ DOMAIN Both(f, g) = DOMAIN f \cup DOMAIN g /\ \A x \in DOMAIN f : Both(f, g)[x] = f[x]
        /\ \A x \in DOMAIN g : x \notin DOMAIN f => Both(f, g)[x] = g[x]
    BY BothIs
  <2> QED BY <1>10, <2>1
<1>11. DOMAIN st = {r} \cup ({l} \X {VALUE, KEY}) /\ st[r] = l
  BY <1>8, <1>9, <1>b
<1>12. st[<<l, VALUE>>] = v /\ st[<<l, KEY>>] = k
  <2>1. <<l, VALUE>> \notin DOMAIN f /\ <<l, KEY>> \notin DOMAIN f /\ <<l, VALUE>> \in DOMAIN g /\ <<l, KEY>> \in DOMAIN g
    BY <1>7, <1>8, <1>9
  <2> QED BY <1>9, <1>b, <2>1
<1>13. c2[o][w] = l /\ c2[l][KEY] = k
  BY <1>5, <1>7, <1>11, <1>12 DEF Wrote
<1>14. AlikeBut(c, c2, S, o, w)
  <2>1. \A q \in Above(S) : \A u \in Ways(q) : <<q, u>> # <<o, w>> => c2[q][u] = c[q][u]
    BY <1>6, <1>11 DEF Wrote
  <2>2. ASSUME NEW n \in S \cap INodes PROVE c2[n][HDR] = c[n][HDR]
    <3>1. n \in Objs /\ HDR \in Fields(n) /\ n # l /\ n # 0
      BY <1>5, FieldsAre, Objects
    <3>2. <<n, HDR>> # <<o, w>>
      BY <1>7, <3>1
    <3> QED BY <1>11, <3>1, <3>2 DEF Wrote
  <2>3. ASSUME NEW m \in S \cap Leaves PROVE c2[m][KEY] = c[m][KEY]
    <3>1. m \in Objs /\ KEY \in Fields(m) /\ m # l /\ m # o
      BY <1>5, <1>7, FieldsAre
    <3> QED BY <1>11, <3>1 DEF Wrote
  <2> QED BY <2>1, <2>2, <2>3 DEF AlikeBut
<1>15. Tree(pessimistic, c2, S \cup {l})
  <2>1. Formed(pessimistic, c2, S \cup {l})
    BY <1>2, <1>3, <1>5, <1>13, <1>14, Planted DEF l
  <2>2. Branching(c2, S)
    <3>1. c2[o][w] # NULL /\ S \subseteq S
      BY <1>5, <1>13, Objects
    <3> QED BY <1>14, <3>1, BranchingKept
  <2>3. Branching(c2, S \cup {l})
    BY <1>5, <2>2 DEF Branching
  <2> QED BY <2>1, <2>3 DEF Tree
<1>16. Grown(c, c2, S, S \cup {l}, k, v, s.ref, st)
  <2>1. \A j \in Keys : c2[Leaf(j)][VALUE] = IF j = k THEN v ELSE c[Leaf(j)][VALUE]
    <3>1. ASSUME NEW j \in Keys, j # k PROVE <<Leaf(j), VALUE>> \notin DOMAIN st
      <4>1. Leaf(j) # l /\ Leaf(j) # o
        BY <1>7, <3>1, Objects DEF l
      <4> QED BY <1>11, <4>1
    <3> QED BY <1>11, <1>12, <3>1, ValuesAre DEF l
  <2>2. ASSUME NEW x \in DOMAIN st
        PROVE  \E q \in Objs : \E u \in Fields(q) : x = <<q, u>> /\ Good(q, u, st[x]) /\ (x = s.ref \/ q \notin {0} \cup S)
    <3>1. CASE x = r
      BY <1>3, <1>7, <1>11, <3>1
    <3>2. CASE x # r
      <4>1. PICK u \in {VALUE, KEY} : x = <<l, u>>
        BY <1>11, <3>2
      <4>2. Good(l, u, st[x])
        BY <1>5 DEF Good
      <4> QED BY <1>5, <4>1, <4>2
    <3> QED BY <3>1, <3>2
  <2>3. (S \cup {l}) \cap Leaves = (S \cap Leaves) \cup {l} /\ S \cup {l} \subseteq INodes \cup Leaves
    BY <1>4, <1>5
  <2> QED BY <1>3, <1>11, <2>1, <2>2, <2>3 DEF Grown, l
<1> QED BY <1>5, <1>15, <1>16 DEF l

\* st stores the pointer to a node, the node and a leaf.
StoresNode(st, o, w, n, x, k, v) ==
  /\ DOMAIN st = {<<o, w>>} \cup ({n} \X (0 .. FAN)) \cup ({Leaf(k)} \X {VALUE, KEY})
  /\ st[<<o, w>>] = n /\ \A u \in 0 .. FAN : st[<<n, u>>] = x[u]
  /\ st[<<Leaf(k), VALUE>>] = v /\ st[<<Leaf(k), KEY>>] = k

\* InsertBeside's stores.
LEMMA NodeStores ==
  ASSUME NEW k \in Keys, NEW v, NEW n \in INodes, NEW x, NEW o, NEW w, o # n, o # Leaf(k),
         NEW st, st = Both(Word(<<o, w>>, n), Both(Object(n, x), Object(Leaf(k), MakeLeaf(k, v))))
  PROVE  StoresNode(st, o, w, n, x, k, v)
<1> DEFINE r == <<o, w>>
           l == Leaf(k)
           f == Word(r, n)
           g == Object(n, x)
           h == Object(l, MakeLeaf(k, v))
           gh == Both(g, h)
<1>1. DOMAIN f = {r} /\ f[r] = n
  BY WordIs
<1>2. n # 0 /\ l # n /\ Fields(n) = 0 .. FAN
  BY FieldsAre, Objects
<1>3. DOMAIN g = {n} \X (0 .. FAN) /\ \A u \in 0 .. FAN : g[<<n, u>>] = x[u]
  <2>1. DOMAIN g = {n} \X Fields(n) /\ \A u \in Fields(n) : g[<<n, u>>] = x[u]
    BY <1>2, ObjectIs
  <2> QED BY <1>2, <2>1
<1>4. DOMAIN h = {l} \X {VALUE, KEY} /\ h[<<l, VALUE>>] = v /\ h[<<l, KEY>>] = k
  BY LeafStores
<1> HIDE DEF f, g, h, l
<1>5. /\ DOMAIN gh = DOMAIN g \cup DOMAIN h /\ \A y \in DOMAIN g : gh[y] = g[y]
      /\ \A y \in DOMAIN h : y \notin DOMAIN g => gh[y] = h[y]
  BY BothIs
<1> HIDE DEF gh
<1>6. st = Both(f, gh)
  BY DEF f, g, h, l, gh
<1>7. /\ DOMAIN st = DOMAIN f \cup DOMAIN gh /\ \A y \in DOMAIN f : st[y] = f[y]
      /\ \A y \in DOMAIN gh : y \notin DOMAIN f => st[y] = gh[y]
  <2>1. /\ DOMAIN Both(f, gh) = DOMAIN f \cup DOMAIN gh /\ \A y \in DOMAIN f : Both(f, gh)[y] = f[y]
        /\ \A y \in DOMAIN gh : y \notin DOMAIN f => Both(f, gh)[y] = gh[y]
    BY BothIs
  <2> QED BY <1>6, <2>1
<1>8. DOMAIN st = {r} \cup ({n} \X (0 .. FAN)) \cup ({l} \X {VALUE, KEY}) /\ st[r] = n
  BY <1>1, <1>3, <1>4, <1>5, <1>7
<1>9. ASSUME NEW u \in 0 .. FAN PROVE st[<<n, u>>] = x[u]
  <2>1. <<n, u>> \in DOMAIN g /\ <<n, u>> \notin DOMAIN f
    BY <1>1, <1>3
  <2>2. <<n, u>> \in DOMAIN gh
    BY <1>5, <2>1
  <2> QED BY <1>3, <1>5, <1>7, <2>1, <2>2
<1>10. ASSUME NEW u \in {VALUE, KEY} PROVE st[<<l, u>>] = h[<<l, u>>]
  <2>1. <<l, u>> \in DOMAIN h /\ <<l, u>> \notin DOMAIN g /\ <<l, u>> \notin DOMAIN f
    BY <1>1, <1>2, <1>3, <1>4 DEF l
  <2>2. <<l, u>> \in DOMAIN gh
    BY <1>5, <2>1
  <2> QED BY <1>5, <1>7, <2>1, <2>2
<1> QED BY <1>4, <1>8, <1>9, <1>10 DEF l, StoresNode

\* Keys that differ part at one of their digits.
LEMMA KeysPart ==
  ASSUME NEW j \in Keys, NEW k \in Keys, j # k
  PROVE  ~Same(j, k, MAX_HEIGHT)
<1>1. MAX_HEIGHT - 1 = MAX_DEPTH
  BY Sizes
<1> QED BY <1>1, DigitsAssumption DEF Same

\* Where the path below depth d of two keys ends that agree up to there.
LEMMA CommonPath ==
  ASSUME NEW j \in Keys, NEW k \in Keys, j # k, NEW d \in Nat, d <= MAX_HEIGHT, Same(j, k, d),
         NEW len, len = longest_common_prefix(j, k, d)
  PROVE  /\ len \in Nat /\ d + len <= MAX_DEPTH /\ len <= MAX_DEPTH /\ Same(j, k, d + len)
         /\ get_index(j, d + len) # get_index(k, d + len)
<1> DEFINE H == MAX_HEIGHT - d
<1>1. H \in Nat /\ d + H <= MAX_HEIGHT /\ d + H = MAX_HEIGHT /\ MAX_HEIGHT = MAX_DEPTH + 1 /\ MAX_DEPTH \in Nat
  BY Sizes
<1>2. len = Agree(Digits(j, d, H), Digits(k, d, H))
  BY DEF longest_common_prefix
<1> HIDE DEF H
<1>3. len \in 0 .. H /\ Same(j, k, d + len) /\ (len < H => get_index(j, d + len) # get_index(k, d + len))
  BY <1>1, <1>2, AgreeDigits
<1>4. len # H
  BY <1>1, <1>3, KeysPart
<1> QED BY <1>1, <1>3, <1>4

\* s is the call for the pointer <<o, w>>, which k goes through.
SiteAt(c, S, dep, rep, k, s, o, w) ==
  /\ s.ref = <<o, w>> /\ s.n = c[o][w] /\ s.depth = Level(c, dep, o)
  /\ Through(c, dep, rep, o, w, k) /\ Leaf(k) \notin S
  /\ s.n \in S /\ dep[s.n] = s.depth /\ s.depth \in Nat /\ s.depth <= MAX_HEIGHT
  /\ rep[s.n] \in Keys /\ Same(rep[s.n], k, s.depth) /\ Same(k, rep[s.n], s.depth) /\ o # s.n

\* Where the key ends up that is not in the tree: at a pointer it goes through.
LEMMA SiteOf ==
  ASSUME pessimistic \in BOOLEAN, NEW c, NEW S, NEW dep, NEW rep, Shape(pessimistic, c, S, dep, rep),
         NEW k \in Keys, NEW s, s = Site(c, k), s.n # NULL, s.n # Leaf(k)
  PROVE  \E o \in Above(S) : \E w \in Ways(o) : SiteAt(c, S, dep, rep, k, s, o, w)
<1>1. PICK o \in Above(S) : \E w \in Ways(o) : s = Call(c, dep, o, w) /\ Through(c, dep, rep, o, w, k)
  BY SiteIs
<1>2. PICK w \in Ways(o) : s = Call(c, dep, o, w) /\ Through(c, dep, rep, o, w, k)
  BY <1>1
<1>3. s.ref = <<o, w>> /\ s.n = c[o][w] /\ s.depth = Level(c, dep, o)
  BY <1>2 DEF Call
<1>4. Leaf(k) \notin S
  BY SiteIs
<1>5. s.n \in S /\ dep[s.n] = s.depth /\ rep[s.n] \in Keys /\ Same(k, rep[s.n], s.depth)
  BY <1>2, <1>3, Beneath
<1>6. s.depth \in 0 .. MAX_HEIGHT /\ MAX_HEIGHT \in Nat
  BY <1>3, LevelIs, Sizes
<1>7. s.depth \in Int /\ s.depth \in Nat /\ s.depth <= MAX_HEIGHT
  BY <1>6
<1>8. Same(rep[s.n], k, s.depth)
  BY <1>5, <1>7, SameTo
<1>9. o # s.n
  <2>1. CASE o = 0
    BY <1>5, <2>1, Objects DEF Shape, Placed
  <2>2. CASE o # 0
    <3>1. o \in S /\ dep[o] < Level(c, dep, o) /\ dep[o] \in 0 .. MAX_HEIGHT
      BY <2>2, LevelIs DEF Shape, Placed
    <3> QED BY <1>3, <1>5, <1>7, <3>1
  <2> QED BY <2>1, <2>2
<1> QED BY <1>2, <1>3, <1>4, <1>5, <1>7, <1>8, <1>9 DEF SiteAt

\* What InsertBeside builds for the call s.
Beside(c, k, v, s, j, len, n, x, st) ==
  /\ s = Site(c, k) /\ s.n \in Leaves /\ j = c[s.n][KEY] /\ j # k
  /\ len = longest_common_prefix(j, k, s.depth)
  /\ x = NewNode(Digits(k, s.depth, len), Both(Word(get_index(j, s.depth + len), s.n),
                                               Word(get_index(k, s.depth + len), Leaf(k))))
  /\ st = Both(Word(s.ref, n), Both(Object(n, x), Object(Leaf(k), MakeLeaf(k, v))))

\* InsertBeside's stores make the tree with k in it.
LEMMA BesideGrown ==
  ASSUME pessimistic \in BOOLEAN, NEW c, NEW S, NEW dep, NEW rep, Shape(pessimistic, c, S, dep, rep), Branching(c, S),
         NEW k \in Keys, NEW v, NEW n \in INodes \ S, NEW s, NEW j, NEW len, NEW x, NEW st,
         Beside(c, k, v, s, j, len, n, x, st), NEW c2, Wrote(c, c2, st)
  PROVE  /\ Tree(pessimistic, c2, S \cup {n, Leaf(k)})
         /\ Grown(c, c2, S, S \cup {n, Leaf(k)}, k, v, s.ref, st)
         /\ Leaf(k) \notin S /\ Leaf(k) \in Leaves
<1>0. /\ s = Site(c, k) /\ s.n \in Leaves /\ j = c[s.n][KEY] /\ j # k
      /\ len = longest_common_prefix(j, k, s.depth)
      /\ x = NewNode(Digits(k, s.depth, len), Both(Word(get_index(j, s.depth + len), s.n),
                                                   Word(get_index(k, s.depth + len), Leaf(k))))
      /\ st = Both(Word(s.ref, n), Both(Object(n, x), Object(Leaf(k), MakeLeaf(k, v))))
  BY DEF Beside
<1> DEFINE l == Leaf(k)
           m == s.n
           d == s.depth
<1>1. /\ S \subseteq INodes \cup Leaves /\ l \in Leaves /\ l \notin INodes /\ l # 0 /\ m # NULL /\ m \notin INodes /\ m \in Leaves
      /\ n \in INodes /\ n \notin S /\ n # 0 /\ n \notin Leaves /\ n # l /\ n \in Objs /\ l \in Objs
      /\ Fields(n) = 0 .. FAN /\ Fields(l) = {VALUE, KEY} /\ VALUE # KEY
  BY <1>0, Objects, FieldsAre DEF Shape, Placed
<1>2. m \in S
  BY <1>0, <1>1, SiteIs
<1>3. rep[m] = j /\ m = Leaf(j) /\ j \in Keys /\ m # l
  <2>1. rep[m] \in Keys /\ m = Leaf(rep[m]) /\ c[m][KEY] = rep[m]
    BY <1>0, <1>1, <1>2, LeafIs
  <2> QED BY <1>0, <2>1, Objects
<1>4. PICK o \in Above(S) : \E w \in Ways(o) : SiteAt(c, S, dep, rep, k, s, o, w)
  BY <1>0, <1>1, <1>3, SiteOf
<1>5. PICK w \in Ways(o) :
           /\ s.ref = <<o, w>> /\ m = c[o][w] /\ d = Level(c, dep, o)
           /\ Through(c, dep, rep, o, w, k) /\ l \notin S
           /\ m \in S /\ dep[m] = d /\ d \in Nat /\ d <= MAX_HEIGHT
           /\ rep[m] \in Keys /\ Same(rep[m], k, d) /\ Same(k, rep[m], d) /\ o # m
  BY <1>4 DEF SiteAt
<1>6. /\ len \in Nat /\ d + len <= MAX_DEPTH /\ len <= MAX_DEPTH /\ Same(rep[m], k, d + len)
      /\ get_index(rep[m], d + len) # get_index(k, d + len)
  <2>1. Same(j, k, d) /\ d \in Nat /\ d <= MAX_HEIGHT
    BY <1>3, <1>5
  <2>2. /\ len \in Nat /\ d + len <= MAX_DEPTH /\ len <= MAX_DEPTH /\ Same(j, k, d + len)
        /\ get_index(j, d + len) # get_index(k, d + len)
    BY <1>0, <1>3, <2>1, CommonPath
  <2> QED BY <1>3, <2>2
<1>7. /\ o \in Objs /\ w \in Fields(o) /\ o # l /\ o # n /\ (o # 0 => o \in INodes /\ w # HDR)
      /\ Good(o, w, n) /\ o \notin Leaves /\ o # m
  BY <1>1, <1>5, PointerIs
<1>8. \A q \in Above(S) : \A u \in Ways(q) : q \in Objs /\ u \in Fields(q) /\ q # l /\ q # n
  BY <1>1, PointerIs
<1> DEFINE r == <<o, w>>
           i0 == get_index(rep[m], d + len)
           i1 == get_index(k, d + len)
<1>9. /\ x[HDR] = HeaderOf(pessimistic, Digits(k, d, len))
      /\ \A i \in 0 .. FAN - 1 : x[i] = IF i = i0 THEN m ELSE IF i = i1 THEN l ELSE NULL
  <2> DEFINE ch == Both(Word(i0, m), Word(i1, l))
  <2>1. x = NewNode(Digits(k, d, len), ch)
    BY <1>0, <1>3
  <2>a. i0 # i1
    BY <1>6
  <2> HIDE DEF i0, i1, m, l
  <2>2. DOMAIN ch = {i0, i1} /\ ch[i0] = m /\ ch[i1] = l
    BY <2>a DEF Both, Word
  <2> HIDE DEF ch
  <2>3. /\ x[HDR] = HeaderOf(pessimistic, Digits(k, d, len))
        /\ \A i \in 0 .. FAN - 1 : x[i] = IF i \in DOMAIN ch THEN ch[i] ELSE NULL
    BY <2>1, NewNodeIs
  <2> QED BY <2>2, <2>3
<1>10. /\ DOMAIN st = {r} \cup ({n} \X (0 .. FAN)) \cup ({l} \X {VALUE, KEY})
       /\ st[r] = n /\ \A u \in 0 .. FAN : st[<<n, u>>] = x[u]
       /\ st[<<l, VALUE>>] = v /\ st[<<l, KEY>>] = k
  <2>1. st = Both(Word(<<o, w>>, n), Both(Object(n, x), Object(Leaf(k), MakeLeaf(k, v))))
    BY <1>0, <1>5
  <2>2. n \in INodes /\ o # n /\ o # Leaf(k)
    BY <1>1, <1>7
  <2>3. StoresNode(st, o, w, n, x, k, v)
    BY <2>1, <2>2, NodeStores
  <2> QED BY <2>3 DEF StoresNode
<1> HIDE DEF i0, i1, l, m
<1>a. \A q, u : <<q, u>> \in DOMAIN st => <<q, u>> = r \/ q = n \/ q = l
  BY <1>10
<1>b. r \in DOMAIN st /\ <<l, KEY>> \in DOMAIN st /\ \A u \in 0 .. FAN : <<n, u>> \in DOMAIN st
  BY <1>10
<1>11. c2[o][w] = n /\ c2[l][KEY] = k /\ \A u \in 0 .. FAN : c2[n][u] = x[u]
  <2>1. KEY \in Fields(l)
    BY <1>1
  <2>2. c2[o][w] = st[r]
    BY <1>7, <1>b DEF Wrote
  <2>3. c2[l][KEY] = st[<<l, KEY>>]
    BY <1>1, <1>b, <2>1 DEF Wrote
  <2>4. \A u \in 0 .. FAN : c2[n][u] = st[<<n, u>>]
    BY <1>1, <1>b DEF Wrote
  <2>5. \A u \in 0 .. FAN : c2[n][u] = x[u]
    <3>1. \A u \in 0 .. FAN : st[<<n, u>>] = x[u]
      BY <1>10
    <3> SUFFICES ASSUME NEW u \in 0 .. FAN PROVE c2[n][u] = x[u]
      OBVIOUS
    <3>2. c2[n][u] = st[<<n, u>>]
      BY <2>4
    <3>3. st[<<n, u>>] = x[u]
      BY <3>1
    <3> QED BY <3>2, <3>3
  <2>6. c2[o][w] = n
    BY <1>10, <2>2
  <2>7. c2[l][KEY] = k
    BY <1>10, <2>3
  <2> QED BY <2>5, <2>6, <2>7
<1>12. AlikeBut(c, c2, S, o, w)
  <2>1. \A q \in Above(S) : \A u \in Ways(q) : <<q, u>> # <<o, w>> => c2[q][u] = c[q][u]
    BY <1>8, <1>a DEF Wrote
  <2>2. ASSUME NEW q \in S \cap INodes PROVE c2[q][HDR] = c[q][HDR]
    <3>1. q \in Objs /\ HDR \in Fields(q) /\ q # l /\ q # 0 /\ q # n
      BY <1>1, FieldsAre, Objects
    <3>2. <<q, HDR>> # <<o, w>>
      BY <1>7, <3>1
    <3>3. <<q, HDR>> \notin DOMAIN st
      BY <1>a, <3>1, <3>2
    <3> QED BY <3>1, <3>3 DEF Wrote
  <2>3. ASSUME NEW q \in S \cap Leaves PROVE c2[q][KEY] = c[q][KEY]
    <3>1. q \in Objs /\ KEY \in Fields(q) /\ q # l /\ q # o /\ q # n
      BY <1>1, <1>5, <1>7, FieldsAre
    <3> QED BY <1>a, <3>1 DEF Wrote
  <2> QED BY <2>1, <2>2, <2>3 DEF AlikeBut
<1>13. Moved(pessimistic, c, c2, S, n, m, m, d, len, rep[m])
  BY <1>1, <1>2, <1>12 DEF Moved, AlikeBut, m
<1>14. AlikeBut(c, c2, S \ {m}, o, w)
  BY <1>12 DEF AlikeBut, Above
<1>15. HDR \in 0 .. FAN /\ \A i \in 0 .. FAN - 1 : i \in 0 .. FAN
  BY FieldsAre
<1>16. Forking(pessimistic, c, c2, S, dep, rep, k, o, w, m, d, len, n, m)
  <2>1. c2[n][HDR] = HeaderOf(pessimistic, Digits(k, d, len))
    BY <1>9, <1>11, <1>15
  <2>2. \A i \in 0 .. FAN - 1 : c2[n][i] = IF i = get_index(rep[m], d + len) THEN m
                                       ELSE IF i = get_index(k, d + len) THEN Leaf(k) ELSE NULL
    BY <1>9, <1>11, <1>15 DEF i0, i1, l
  <2>3. m # NULL
    BY <1>1 DEF m
  <2> HIDE DEF d
  <2> QED BY <1>5, <1>6, <1>11, <1>13, <1>14, <2>1, <2>2, <2>3 DEF Forking, l
<1>17. Tree(pessimistic, c2, S \cup {n, l})
  <2>1. n \in INodes \ S /\ len \in Nat /\ Leaf(k) \notin S
    BY <1>1, <1>5, <1>6 DEF l
  <2>2. Tree(pessimistic, c2, ((S \ {m}) \cup {n, m}) \cup {Leaf(k)})
    BY <1>5, <1>16, <2>1, ForkedOff
  <2>3. ((S \ {m}) \cup {n, m}) \cup {Leaf(k)} = S \cup {n, l}
    BY <1>2 DEF l, m
  <2> QED BY <2>2, <2>3
<1>18. Grown(c, c2, S, S \cup {n, l}, k, v, s.ref, st)
  <2>1. \A i \in Keys : c2[Leaf(i)][VALUE] = IF i = k THEN v ELSE c[Leaf(i)][VALUE]
    <3>1. ASSUME NEW i \in Keys, i # k PROVE <<Leaf(i), VALUE>> \notin DOMAIN st
      <4>1. Leaf(i) # l /\ Leaf(i) # o /\ Leaf(i) # n
        BY <1>1, <1>7, <3>1, Objects DEF l
      <4> QED BY <1>10, <4>1
    <3> QED BY <1>10, <3>1, ValuesAre DEF l
  <2>2. ASSUME NEW y \in DOMAIN st
        PROVE  \E q \in Objs : \E u \in Fields(q) : y = <<q, u>> /\ Good(q, u, st[y]) /\ (y = s.ref \/ q \notin {0} \cup S)
    <3>1. CASE y = r
      BY <1>5, <1>7, <1>10, <3>1
    <3>2. CASE y \in {n} \X (0 .. FAN)
      <4>1. PICK u \in 0 .. FAN : y = <<n, u>>
        BY <3>2
      <4>2. st[y] = x[u]
        BY <1>10, <4>1
      <4>3. x[HDR].partial_len \in 0 .. MAX_DEPTH
        <5>1. Len(Digits(k, d, len)) = len
          <6>1. d \in Nat /\ len \in Nat /\ d + len <= MAX_HEIGHT
            BY <1>5, <1>6, Sizes
          <6> QED BY <6>1, DigitsAre
        <5> HIDE DEF d
        <5> QED BY <1>6, <1>9, <5>1 DEF HeaderOf
      <4>4. u # HDR => x[u] \in INodes \cup Leaves \cup {NULL}
        BY <1>1, <1>9, FieldsAre DEF m
      <4>5. Good(n, u, st[y])
        BY <1>1, <4>2, <4>3, <4>4 DEF Good
      <4> QED BY <1>1, <4>1, <4>5
    <3>3. CASE y \in {l} \X {VALUE, KEY}
      <4>1. PICK u \in {VALUE, KEY} : y = <<l, u>>
        BY <3>3
      <4>2. Good(l, u, st[y])
        BY <1>1 DEF Good
      <4> QED BY <1>1, <1>5, <4>1, <4>2
    <3> QED BY <1>10, <3>1, <3>2, <3>3
  <2>3. (S \cup {n, l}) \cap Leaves = (S \cap Leaves) \cup {l} /\ S \cup {n, l} \subseteq INodes \cup Leaves
    BY <1>1
  <2> QED BY <1>5, <1>10, <2>1, <2>2, <2>3 DEF Grown, l
<1> QED BY <1>1, <1>5, <1>17, <1>18 DEF l

\* st stores the pointer to a node, the node, another node and a leaf.
StoresCopy(st, o, w, n, x, y, z, k, v) ==
  /\ DOMAIN st = {<<o, w>>} \cup ({n} \X (0 .. FAN)) \cup ({y} \X (0 .. FAN)) \cup ({Leaf(k)} \X {VALUE, KEY})
  /\ st[<<o, w>>] = n /\ \A u \in 0 .. FAN : st[<<n, u>>] = x[u]
  /\ \A u \in 0 .. FAN : st[<<y, u>>] = z[u]
  /\ st[<<Leaf(k), VALUE>>] = v /\ st[<<Leaf(k), KEY>>] = k

\* SplitPrefix's stores.
LEMMA CopyStores ==
  ASSUME NEW k \in Keys, NEW v, NEW n \in INodes, NEW x, NEW y \in INodes, NEW z, y # n,
         NEW o, NEW w, o # n, o # y, o # Leaf(k),
         NEW st, st = Both(Word(<<o, w>>, n), Both(Object(n, x), Both(Object(y, z), Object(Leaf(k), MakeLeaf(k, v)))))
  PROVE  StoresCopy(st, o, w, n, x, y, z, k, v)
<1> DEFINE r == <<o, w>>
           l == Leaf(k)
           f == Word(r, n)
           g == Object(n, x)
           e == Object(y, z)
           h == Object(l, MakeLeaf(k, v))
           eh == Both(e, h)
           gh == Both(g, eh)
<1>1. DOMAIN f = {r} /\ f[r] = n
  BY WordIs
<1>2. n # 0 /\ l # n /\ Fields(n) = 0 .. FAN /\ y # 0 /\ l # y /\ Fields(y) = 0 .. FAN
  BY FieldsAre, Objects
<1>3. DOMAIN g = {n} \X (0 .. FAN) /\ \A u \in 0 .. FAN : g[<<n, u>>] = x[u]
  <2>1. DOMAIN g = {n} \X Fields(n) /\ \A u \in Fields(n) : g[<<n, u>>] = x[u]
    BY <1>2, ObjectIs
  <2> QED BY <1>2, <2>1
<1>4. DOMAIN e = {y} \X (0 .. FAN) /\ \A u \in 0 .. FAN : e[<<y, u>>] = z[u]
  <2>1. DOMAIN e = {y} \X Fields(y) /\ \A u \in Fields(y) : e[<<y, u>>] = z[u]
    BY <1>2, ObjectIs
  <2> QED BY <1>2, <2>1
<1>5. DOMAIN h = {l} \X {VALUE, KEY} /\ h[<<l, VALUE>>] = v /\ h[<<l, KEY>>] = k
  BY LeafStores
<1> HIDE DEF f, g, e, h, l
<1>6. /\ DOMAIN eh = DOMAIN e \cup DOMAIN h /\ \A a \in DOMAIN e : eh[a] = e[a]
      /\ \A a \in DOMAIN h : a \notin DOMAIN e => eh[a] = h[a]
  BY BothIs
<1> HIDE DEF eh
<1>7. /\ DOMAIN gh = DOMAIN g \cup DOMAIN eh /\ \A a \in DOMAIN g : gh[a] = g[a]
      /\ \A a \in DOMAIN eh : a \notin DOMAIN g => gh[a] = eh[a]
  BY BothIs
<1> HIDE DEF gh
<1>8. st = Both(f, gh)
  BY DEF f, g, e, h, l, eh, gh
<1>9. /\ DOMAIN st = DOMAIN f \cup DOMAIN gh /\ \A a \in DOMAIN f : st[a] = f[a]
      /\ \A a \in DOMAIN gh : a \notin DOMAIN f => st[a] = gh[a]
  <2>1. /\ DOMAIN Both(f, gh) = DOMAIN f \cup DOMAIN gh /\ \A a \in DOMAIN f : Both(f, gh)[a] = f[a]
        /\ \A a \in DOMAIN gh : a \notin DOMAIN f => Both(f, gh)[a] = gh[a]
    BY BothIs
  <2> QED BY <1>8, <2>1
<1>10. DOMAIN st = DOMAIN f \cup DOMAIN g \cup DOMAIN e \cup DOMAIN h
  BY <1>6, <1>7, <1>9
<1>11. DOMAIN st = {r} \cup ({n} \X (0 .. FAN)) \cup ({y} \X (0 .. FAN)) \cup ({l} \X {VALUE, KEY})
  BY <1>1, <1>3, <1>4, <1>5, <1>10
<1>12. st[r] = n
  BY <1>1, <1>9
<1>13. ASSUME NEW u \in 0 .. FAN PROVE st[<<n, u>>] = x[u]
  <2>1. <<n, u>> \in DOMAIN g /\ <<n, u>> \notin DOMAIN f
    BY <1>1, <1>3
  <2>2. <<n, u>> \in DOMAIN gh
    BY <1>7, <2>1
  <2> QED BY <1>3, <1>7, <1>9, <2>1, <2>2
<1>14. ASSUME NEW u \in 0 .. FAN PROVE st[<<y, u>>] = z[u]
  <2>1. <<y, u>> \in DOMAIN e /\ <<y, u>> \notin DOMAIN g /\ <<y, u>> \notin DOMAIN f
    BY <1>1, <1>3, <1>4
  <2>2. <<y, u>> \in DOMAIN eh /\ <<y, u>> \in DOMAIN gh
    BY <1>6, <1>7, <2>1
  <2>3. st[<<y, u>>] = gh[<<y, u>>] /\ gh[<<y, u>>] = eh[<<y, u>>] /\ eh[<<y, u>>] = e[<<y, u>>]
    BY <1>6, <1>7, <1>9, <2>1, <2>2
  <2> QED BY <1>4, <2>3
<1>15. ASSUME NEW u \in {VALUE, KEY} PROVE st[<<l, u>>] = h[<<l, u>>]
  <2>1. <<l, u>> \in DOMAIN h /\ <<l, u>> \notin DOMAIN g /\ <<l, u>> \notin DOMAIN e /\ <<l, u>> \notin DOMAIN f
    BY <1>1, <1>2, <1>3, <1>4, <1>5 DEF l
  <2>2. <<l, u>> \in DOMAIN eh /\ <<l, u>> \in DOMAIN gh
    BY <1>6, <1>7, <2>1
  <2> QED BY <1>6, <1>7, <1>9, <2>1, <2>2
<1> QED BY <1>5, <1>11, <1>12, <1>13, <1>14, <1>15 DEF l, StoresCopy

\* The digits of a node's path, held in its header or in the leftmost leaf's key.
LEMMA PathIs ==
  ASSUME pessimistic \in BOOLEAN, NEW c, NEW S, NEW dep, NEW rep, Shape(pessimistic, c, S, dep, rep),
         NEW m \in S \cap INodes, NEW path,
         path = IF pessimistic THEN c[m][HDR].partial
                ELSE Digits(c[minimum(c, m)][KEY], dep[m], c[m][HDR].partial_len)
  PROVE  path = Digits(rep[m], dep[m], c[m][HDR].partial_len)
<1> DEFINE pl == c[m][HDR].partial_len
           j == c[minimum(c, m)][KEY]
<1>1. /\ c[m][HDR] = HeaderOf(pessimistic, Digits(rep[m], dep[m], pl)) /\ End(c, dep, m) = dep[m] + pl
      /\ dep[m] \in Nat /\ pl \in Nat /\ rep[m] \in Keys
  BY InnerNode, Sizes
<1>2. j \in Keys /\ Same(j, rep[m], End(c, dep, m))
  BY MinimumIs
<1> HIDE DEF pl, j
<1>3. Digits(j, dep[m], pl) = Digits(rep[m], dep[m], pl)
  BY <1>1, <1>2, DigitsSame
<1>4. CASE pessimistic
  <2>1. path = c[m][HDR].partial
    BY <1>4
  <2> QED BY <1>1, <1>4, <2>1 DEF pl, HeaderOf
<1>5. CASE ~pessimistic
  BY <1>3, <1>5 DEF pl, j
<1> QED BY <1>4, <1>5

\* The key k leaves the path of a node, pl digits of r from depth d on, after
\* diff of them.
Parting(r, k, d, pl, diff, path) ==
  /\ d \in Nat /\ pl \in Nat /\ diff \in Nat /\ diff < pl /\ d + pl <= MAX_DEPTH /\ d + diff <= MAX_DEPTH
  /\ Same(r, k, d + diff) /\ get_index(r, d + diff) # get_index(k, d + diff)
  /\ SubSeq(path, 1, diff) = Digits(k, d, diff) /\ path[diff + 1] = get_index(r, d + diff)
  /\ Rest(path, diff) = Digits(r, d + diff + 1, pl - diff - 1)

\* prefix_mismatch finds where the key leaves the path.
LEMMA Parts ==
  ASSUME pessimistic \in BOOLEAN, NEW c, NEW S, NEW dep, NEW rep, Shape(pessimistic, c, S, dep, rep),
         NEW k \in Keys, NEW m \in S \cap INodes, Same(k, rep[m], dep[m]),
         NEW diff, diff = prefix_mismatch(c, m, k, dep[m]), diff < c[m][HDR].partial_len,
         NEW path, path = IF pessimistic THEN c[m][HDR].partial
                          ELSE Digits(c[minimum(c, m)][KEY], dep[m], c[m][HDR].partial_len)
  PROVE  Parting(rep[m], k, dep[m], c[m][HDR].partial_len, diff, path)
<1>1. \E r, d, pl : r = rep[m] /\ d = dep[m] /\ pl = c[m][HDR].partial_len
  OBVIOUS
<1>2. PICK r, d, pl : r = rep[m] /\ d = dep[m] /\ pl = c[m][HDR].partial_len
  BY <1>1
<1>3. r \in Keys /\ d \in 0 .. MAX_DEPTH /\ pl \in 0 .. MAX_DEPTH /\ d + pl \in 0 .. MAX_DEPTH
  <2>1. rep[m] \in Keys /\ dep[m] \in 0 .. MAX_DEPTH /\ c[m][HDR].partial_len \in 0 .. MAX_DEPTH
        /\ End(c, dep, m) \in 0 .. MAX_DEPTH /\ End(c, dep, m) = dep[m] + c[m][HDR].partial_len
    BY InnerNode
  <2> QED BY <1>2, <2>1
<1>4. path = Digits(r, d, pl)
  <2>1. path = Digits(rep[m], dep[m], c[m][HDR].partial_len)
    BY PathIs
  <2> QED BY <1>2, <2>1
<1>5. diff \in Nat /\ Same(k, r, d + diff) /\ get_index(k, d + diff) # get_index(r, d + diff)
  <2>1. /\ diff \in Nat
        /\ Same(k, rep[m], dep[m] + diff) /\ get_index(k, dep[m] + diff) # get_index(rep[m], dep[m] + diff)
    BY MismatchIs
  <2> QED BY <1>2, <2>1
<1>6. diff < pl
  BY <1>2
<1>7. d \in Nat /\ pl \in Nat /\ d + pl <= MAX_DEPTH /\ d + pl <= MAX_HEIGHT /\ d + diff \in Int
      /\ d + diff <= MAX_DEPTH
  <2>1. MAX_DEPTH \in Nat /\ MAX_HEIGHT = MAX_DEPTH + 1
    BY Sizes
  <2>2. diff \in Nat
    BY <1>5
  <2> QED BY <1>3, <1>6, <2>1, <2>2
<1>8. Same(r, k, d + diff)
  BY <1>5, <1>7, SameTo
<1>9. /\ SubSeq(Digits(r, d, pl), 1, diff) = Digits(r, d, diff)
      /\ Digits(r, d, pl)[diff + 1] = get_index(r, d + diff)
      /\ Rest(Digits(r, d, pl), diff) = Digits(r, d + diff + 1, pl - diff - 1)
  <2>1. r \in Keys /\ d \in Nat /\ pl \in Nat /\ d + pl <= MAX_HEIGHT /\ diff \in Nat /\ diff < pl
    BY <1>3, <1>5, <1>6, <1>7
  <2> QED BY <2>1, DigitsFirst
<1>10. Digits(r, d, diff) = Digits(k, d, diff)
  BY <1>3, <1>5, <1>7, <1>8, DigitsSame
<1>11. Parting(r, k, d, pl, diff, path)
  BY <1>4, <1>5, <1>6, <1>7, <1>8, <1>9, <1>10 DEF Parting
<1> QED BY <1>2, <1>11

\* The node over the path so far, x, and the copy with the rest of it, z.
Parted(r, k, d, pl, diff, y, old, x, z) ==
  /\ x[HDR] = HeaderOf(pessimistic, Digits(k, d, diff)) /\ x[HDR].partial_len \in 0 .. MAX_DEPTH
  /\ z[HDR] = HeaderOf(pessimistic, Digits(r, d + diff + 1, pl - diff - 1)) /\ z[HDR].partial_len \in 0 .. MAX_DEPTH
  /\ \A i \in 0 .. FAN - 1 : x[i] = IF i = get_index(r, d + diff) THEN y
                                    ELSE IF i = get_index(k, d + diff) THEN Leaf(k) ELSE NULL
  /\ \A i \in 0 .. FAN - 1 : z[i] = old[i]

\* What the node and the copy hold.
LEMMA CopyIs ==
  ASSUME NEW r \in Keys, NEW k \in Keys, NEW d, NEW pl, NEW diff, NEW path, Parting(r, k, d, pl, diff, path),
         NEW y, NEW old, DOMAIN old = 0 .. FAN,
         NEW x, x = NewNode(SubSeq(path, 1, diff), Both(Word(path[diff + 1], y),
                                                        Word(get_index(k, d + diff), Leaf(k)))),
         NEW z, z = [old EXCEPT ![HDR] = Header(Rest(path, diff))]
  PROVE  Parted(r, k, d, pl, diff, y, old, x, z)
<1> DEFINE i0 == get_index(r, d + diff)
           i1 == get_index(k, d + diff)
           l == Leaf(k)
           a == Digits(k, d, diff)
           b == Digits(r, d + diff + 1, pl - diff - 1)
<1>1. /\ d \in Nat /\ pl \in Nat /\ diff \in Nat /\ diff < pl /\ d + pl <= MAX_DEPTH /\ i0 # i1
      /\ SubSeq(path, 1, diff) = a /\ path[diff + 1] = i0 /\ Rest(path, diff) = b
  BY DEF Parting
<1>2. /\ d + diff <= MAX_HEIGHT /\ diff \in 0 .. MAX_DEPTH /\ d + diff + 1 \in Nat /\ pl - diff - 1 \in Nat
      /\ pl - diff - 1 \in 0 .. MAX_DEPTH /\ (d + diff + 1) + (pl - diff - 1) <= MAX_HEIGHT
  BY <1>1, Sizes
<1>3. Len(a) = diff
  BY <1>1, <1>2, DigitsAre
<1>4. Len(b) = pl - diff - 1
  BY <1>2, DigitsAre
<1>5. x = NewNode(a, Both(Word(i0, y), Word(i1, l))) /\ z = [old EXCEPT ![HDR] = Header(b)]
  BY <1>1
<1>6. HDR \in 0 .. FAN /\ \A i \in 0 .. FAN - 1 : i \in 0 .. FAN /\ i # HDR
  BY FieldsAre
<1> HIDE DEF i0, i1, l, a, b
<1> DEFINE ch == Both(Word(i0, y), Word(i1, l))
<1>7. DOMAIN ch = {i0, i1} /\ ch[i0] = y /\ ch[i1] = l
  BY <1>1 DEF Both, Word
<1>8. x = NewNode(a, ch)
  BY <1>5
<1> HIDE DEF ch
<1>9. /\ NewNode(a, ch)[HDR] = HeaderOf(pessimistic, a)
      /\ \A i \in 0 .. FAN - 1 : NewNode(a, ch)[i] = IF i \in DOMAIN ch THEN ch[i] ELSE NULL
  BY NewNodeIs
<1>10. /\ x[HDR] = HeaderOf(pessimistic, a)
       /\ \A i \in 0 .. FAN - 1 : x[i] = IF i = i0 THEN y ELSE IF i = i1 THEN l ELSE NULL
  BY <1>7, <1>8, <1>9
<1>11. Header(b) = HeaderOf(pessimistic, b)
  BY DEF Header, HeaderOf
<1>12. z[HDR] = HeaderOf(pessimistic, b) /\ \A i \in 0 .. FAN - 1 : z[i] = old[i]
  BY <1>5, <1>6, <1>11
<1>13. HeaderOf(pessimistic, a).partial_len \in 0 .. MAX_DEPTH /\ HeaderOf(pessimistic, b).partial_len \in 0 .. MAX_DEPTH
  BY <1>2, <1>3, <1>4 DEF HeaderOf
<1>14. x[HDR].partial_len \in 0 .. MAX_DEPTH /\ z[HDR].partial_len \in 0 .. MAX_DEPTH
  BY <1>10, <1>12, <1>13
<1> QED BY <1>10, <1>12, <1>14 DEF Parted, i0, i1, l, a, b

\* c2 is c with the node n and the copy y, filled from x and z, and the leaf of
\* k; <<o, w>> now leads to n.
Laid(c, c2, S, k, v, o, w, n, y, x, z) ==
  /\ c2[o][w] = n /\ c2[Leaf(k)][KEY] = k
  /\ \A u \in 0 .. FAN : c2[n][u] = x[u] /\ c2[y][u] = z[u]
  /\ AlikeBut(c, c2, S, o, w)
  /\ \A i \in Keys : c2[Leaf(i)][VALUE] = IF i = k THEN v ELSE c[Leaf(i)][VALUE]

\* What SplitPrefix's stores leave in the cache.
LEMMA CopyLaid ==
  ASSUME NEW c, NEW S, S \subseteq INodes \cup Leaves, NEW k \in Keys, Leaf(k) \notin S,
         NEW o \in Above(S), NEW w \in Ways(o), NEW n \in INodes \ S, NEW y \in INodes \ S, y # n,
         NEW v, NEW x, NEW z, NEW st, StoresCopy(st, o, w, n, x, y, z, k, v), NEW c2, Wrote(c, c2, st)
  PROVE  Laid(c, c2, S, k, v, o, w, n, y, x, z)
<1> DEFINE l == Leaf(k)
           r == <<o, w>>
<1>1. /\ l \in Leaves /\ l \notin INodes /\ l # 0 /\ n # 0 /\ y # 0 /\ n # l /\ y # l
      /\ n \in Objs /\ y \in Objs /\ l \in Objs
      /\ Fields(n) = 0 .. FAN /\ Fields(y) = 0 .. FAN /\ Fields(l) = {VALUE, KEY} /\ VALUE # KEY
  <2>1. l \in Leaves /\ n \in INodes /\ y \in INodes
    BY Objects
  <2> HIDE DEF l
  <2>2. l \notin INodes /\ l # 0 /\ n # 0 /\ y # 0 /\ n # l /\ y # l
    BY <2>1, Objects
  <2>3. /\ n \in Objs /\ y \in Objs /\ l \in Objs
        /\ Fields(n) = 0 .. FAN /\ Fields(y) = 0 .. FAN /\ Fields(l) = {VALUE, KEY} /\ VALUE # KEY
    BY <2>1, FieldsAre
  <2> QED BY <2>1, <2>2, <2>3
<1>2. /\ o \in Objs /\ w \in Fields(o) /\ o # l /\ o # n /\ o # y /\ (o # 0 => o \in INodes /\ w # HDR) /\ o \notin Leaves
  BY <1>1, PointerIs
<1>3. \A q \in Above(S) : \A u \in Ways(q) : q \in Objs /\ u \in Fields(q) /\ q # l /\ q # n /\ q # y
  BY <1>1, PointerIs
<1>4. /\ DOMAIN st = {r} \cup ({n} \X (0 .. FAN)) \cup ({y} \X (0 .. FAN)) \cup ({l} \X {VALUE, KEY})
      /\ st[r] = n /\ \A u \in 0 .. FAN : st[<<n, u>>] = x[u]
      /\ \A u \in 0 .. FAN : st[<<y, u>>] = z[u]
      /\ st[<<l, VALUE>>] = v /\ st[<<l, KEY>>] = k
  BY DEF StoresCopy
<1> HIDE DEF l
<1>a. \A q, u : <<q, u>> \in DOMAIN st => <<q, u>> = r \/ q = n \/ q = y \/ q = l
  BY <1>4
<1>b. /\ r \in DOMAIN st /\ <<l, KEY>> \in DOMAIN st /\ <<l, VALUE>> \in DOMAIN st
      /\ \A u \in 0 .. FAN : <<n, u>> \in DOMAIN st /\ <<y, u>> \in DOMAIN st
  BY <1>4
<1>c. \A u \in 0 .. FAN : st[<<n, u>>] = x[u] /\ st[<<y, u>>] = z[u]
  BY <1>4
<1>d. st[r] = n /\ st[<<l, VALUE>>] = v /\ st[<<l, KEY>>] = k
  BY <1>4
<1>5. c2[o][w] = n
  <2>1. c2[o][w] = st[r]
    BY <1>2, <1>b DEF Wrote
  <2> QED BY <1>d, <2>1
<1>6. c2[l][KEY] = k
  <2>1. KEY \in Fields(l)
    BY <1>1
  <2>2. c2[l][KEY] = st[<<l, KEY>>]
    BY <1>1, <1>b, <2>1 DEF Wrote
  <2> QED BY <1>d, <2>2
<1>7. \A u \in 0 .. FAN : c2[n][u] = x[u] /\ c2[y][u] = z[u]
  <2> SUFFICES ASSUME NEW u \in 0 .. FAN PROVE c2[n][u] = x[u] /\ c2[y][u] = z[u]
    OBVIOUS
  <2>1. c2[n][u] = st[<<n, u>>]
    BY <1>1, <1>b DEF Wrote
  <2>2. c2[y][u] = st[<<y, u>>]
    BY <1>1, <1>b DEF Wrote
  <2> QED BY <1>c, <2>1, <2>2
<1>8. AlikeBut(c, c2, S, o, w)
  <2>1. \A q \in Above(S) : \A u \in Ways(q) : <<q, u>> # <<o, w>> => c2[q][u] = c[q][u]
    BY <1>3, <1>a DEF Wrote
  <2>2. ASSUME NEW q \in S \cap INodes PROVE c2[q][HDR] = c[q][HDR]
    <3>1. q \in Objs /\ HDR \in Fields(q) /\ q # l /\ q # 0 /\ q # n /\ q # y
      BY <1>1, FieldsAre, Objects
    <3>2. <<q, HDR>> # r
      BY <1>2, <3>1
    <3>3. <<q, HDR>> \notin DOMAIN st
      BY <1>a, <3>1, <3>2
    <3> QED BY <3>1, <3>3 DEF Wrote
  <2>3. ASSUME NEW q \in S \cap Leaves PROVE c2[q][KEY] = c[q][KEY]
    <3>1. q \in Objs /\ KEY \in Fields(q) /\ q # l /\ q # o /\ q # n /\ q # y
      BY <1>1, <1>2, FieldsAre, Objects DEF l
    <3>2. <<q, KEY>> \notin DOMAIN st
      BY <1>a, <3>1
    <3> QED BY <3>1, <3>2 DEF Wrote
  <2> QED BY <2>1, <2>2, <2>3 DEF AlikeBut
<1>9. \A i \in Keys : c2[Leaf(i)][VALUE] = IF i = k THEN v ELSE c[Leaf(i)][VALUE]
  <2>1. \A i \in Keys : i # k => <<Leaf(i), VALUE>> \notin DOMAIN st
    <3> SUFFICES ASSUME NEW i \in Keys, i # k PROVE <<Leaf(i), VALUE>> \notin DOMAIN st
      OBVIOUS
    <3>1. Leaf(i) # l /\ Leaf(i) # o /\ Leaf(i) # n /\ Leaf(i) # y
      BY <1>1, <1>2, Objects DEF l
    <3> QED BY <1>a, <3>1
  <2>2. <<Leaf(k), VALUE>> \in DOMAIN st /\ st[<<Leaf(k), VALUE>>] = v
    BY <1>b, <1>d DEF l
  <2> QED BY <2>1, <2>2, ValuesAre
<1> QED BY <1>5, <1>6, <1>7, <1>8, <1>9 DEF Laid, l

\* What SplitPrefix stores is of the right type, and lies outside the tree.
Outside(st, S, ref) ==
  \A a \in DOMAIN st : \E q \in Objs : \E u \in Fields(q) :
    a = <<q, u>> /\ Good(q, u, st[a]) /\ (a = ref \/ q \notin {0} \cup S)

Pointers(x) == \A i \in 0 .. FAN - 1 : x[i] \in INodes \cup Leaves \cup {NULL}

\* SplitPrefix stores outside the tree, ref apart.
LEMMA CopyOutside ==
  ASSUME NEW S, S \subseteq INodes \cup Leaves, NEW k \in Keys, Leaf(k) \notin S,
         NEW o \in Above(S), NEW w \in Ways(o), NEW n \in INodes \ S, NEW y \in INodes \ S, y # n,
         NEW v, NEW x, NEW z, NEW st, StoresCopy(st, o, w, n, x, y, z, k, v),
         NEW r, NEW d, NEW pl, NEW diff, NEW old, Parted(r, k, d, pl, diff, y, old, x, z), Pointers(old)
  PROVE  Outside(st, S, <<o, w>>)
<1>1. /\ Leaf(k) \in Leaves /\ Leaf(k) \notin INodes /\ Leaf(k) # 0 /\ n # 0 /\ y # 0
      /\ n \in Objs /\ y \in Objs /\ Leaf(k) \in Objs
      /\ Fields(n) = 0 .. FAN /\ Fields(y) = 0 .. FAN /\ Fields(Leaf(k)) = {VALUE, KEY}
  <2>1. Leaf(k) \in Leaves /\ Leaf(k) \notin INodes /\ Leaf(k) # 0 /\ n # 0 /\ y # 0
    BY Objects
  <2>2. n \in Objs /\ y \in Objs /\ Leaf(k) \in Objs
    BY <2>1, FieldsAre
  <2> QED BY <2>1, <2>2, FieldsAre
<1>2. o \in Objs /\ w \in Fields(o) /\ Good(o, w, n)
  BY PointerIs
<1>3. /\ DOMAIN st = {<<o, w>>} \cup ({n} \X (0 .. FAN)) \cup ({y} \X (0 .. FAN)) \cup ({Leaf(k)} \X {VALUE, KEY})
      /\ st[<<o, w>>] = n /\ \A u \in 0 .. FAN : st[<<n, u>>] = x[u]
      /\ \A u \in 0 .. FAN : st[<<y, u>>] = z[u]
  BY DEF StoresCopy
<1>4. /\ x[HDR].partial_len \in 0 .. MAX_DEPTH /\ z[HDR].partial_len \in 0 .. MAX_DEPTH
      /\ \A i \in 0 .. FAN - 1 : x[i] = y \/ x[i] = Leaf(k) \/ x[i] = NULL
      /\ \A i \in 0 .. FAN - 1 : z[i] = old[i]
  BY DEF Parted
<1>5. ASSUME NEW u \in 0 .. FAN PROVE Good(n, u, x[u]) /\ Good(y, u, z[u])
  <2>1. CASE u = HDR
    BY <1>1, <1>4, <2>1 DEF Good
  <2>2. CASE u # HDR
    <3>1. u \in 0 .. FAN - 1
      BY <2>2, FieldsAre
    <3>2. x[u] \in INodes \cup Leaves \cup {NULL} /\ z[u] \in INodes \cup Leaves \cup {NULL}
      BY <1>1, <1>4, <3>1 DEF Pointers
    <3> QED BY <1>1, <2>2, <3>2 DEF Good
  <2> QED BY <2>1, <2>2
<1> SUFFICES ASSUME NEW a \in DOMAIN st
             PROVE  \E q \in Objs : \E u \in Fields(q) :
                      a = <<q, u>> /\ Good(q, u, st[a]) /\ (a = <<o, w>> \/ q \notin {0} \cup S)
  BY DEF Outside
<1>6. CASE a = <<o, w>>
  BY <1>2, <1>3, <1>6
<1>7. CASE a \in {n} \X (0 .. FAN)
  <2>1. PICK u \in 0 .. FAN : a = <<n, u>>
    BY <1>7
  <2>2. st[a] = x[u]
    BY <1>3, <2>1
  <2> QED BY <1>1, <1>5, <2>1, <2>2
<1>8. CASE a \in {y} \X (0 .. FAN)
  <2>1. PICK u \in 0 .. FAN : a = <<y, u>>
    BY <1>8
  <2>2. st[a] = z[u]
    BY <1>3, <2>1
  <2> QED BY <1>1, <1>5, <2>1, <2>2
<1>9. CASE a \in {Leaf(k)} \X {VALUE, KEY}
  <2>1. PICK u \in {VALUE, KEY} : a = <<Leaf(k), u>>
    BY <1>9
  <2>2. Good(Leaf(k), u, st[a])
    BY <1>1 DEF Good
  <2> QED BY <1>1, <2>1, <2>2
<1> QED BY <1>3, <1>6, <1>7, <1>8, <1>9

\* The same, pointer by pointer.
LEMMA LaidParts ==
  ASSUME NEW c, NEW c2, NEW S, NEW k, NEW v, NEW o, NEW w, NEW n, NEW y, NEW x, NEW z,
         Laid(c, c2, S, k, v, o, w, n, y, x, z),
         NEW r, NEW d, NEW pl, NEW diff, NEW old, Parted(r, k, d, pl, diff, y, old, x, z)
  PROVE  /\ c2[n][HDR] = HeaderOf(pessimistic, Digits(k, d, diff))
         /\ c2[y][HDR] = HeaderOf(pessimistic, Digits(r, d + diff + 1, pl - diff - 1))
         /\ \A i \in 0 .. FAN - 1 : c2[n][i] = IF i = get_index(r, d + diff) THEN y
                                               ELSE IF i = get_index(k, d + diff) THEN Leaf(k) ELSE NULL
         /\ \A i \in 0 .. FAN - 1 : c2[y][i] = old[i]
<1>1. HDR \in 0 .. FAN /\ \A i \in 0 .. FAN - 1 : i \in 0 .. FAN
  BY FieldsAre
<1>2. \A u \in 0 .. FAN : c2[n][u] = x[u] /\ c2[y][u] = z[u]
  BY DEF Laid
<1>3. c2[n][HDR] = x[HDR] /\ c2[y][HDR] = z[HDR]
  BY <1>1, <1>2
<1>4. \A i \in 0 .. FAN - 1 : c2[n][i] = x[i] /\ c2[y][i] = z[i]
  BY <1>1, <1>2
<1> QED BY <1>3, <1>4 DEF Parted

\* SplitPrefix at <<o, w>>: m starts at depth d and its path is old's, pl long.
Split(c, S, dep, rep, k, v, o, w, m, d, pl, diff, n, y, x, z, st) ==
  /\ m = c[o][w] /\ d = Level(c, dep, o) /\ Through(c, dep, rep, o, w, k)
  /\ Leaf(k) \notin S /\ m \in S \cap INodes /\ pl = c[m][HDR].partial_len
  /\ d \in Nat /\ diff \in Nat /\ diff < pl /\ d + diff <= MAX_DEPTH
  /\ Same(rep[m], k, d + diff) /\ get_index(rep[m], d + diff) # get_index(k, d + diff)
  /\ Parted(rep[m], k, d, pl, diff, y, c[m], x, z)
  /\ StoresCopy(st, o, w, n, x, y, z, k, v)

\* A split leaves a tree with k in it.
LEMMA SplitTree ==
  ASSUME pessimistic \in BOOLEAN, NEW c, NEW S, NEW dep, NEW rep, Shape(pessimistic, c, S, dep, rep), Branching(c, S),
         NEW k \in Keys, NEW v, NEW o \in Above(S), NEW w \in Ways(o), NEW m, NEW d, NEW pl, NEW diff,
         NEW n \in INodes \ S, NEW y \in INodes \ S, y # n, NEW x, NEW z, NEW st,
         Split(c, S, dep, rep, k, v, o, w, m, d, pl, diff, n, y, x, z, st),
         NEW c2, Wrote(c, c2, st)
  PROVE  /\ Tree(pessimistic, c2, ((S \ {m}) \cup {n, y}) \cup {Leaf(k)})
         /\ Grown(c, c2, S, ((S \ {m}) \cup {n, y}) \cup {Leaf(k)}, k, v, <<o, w>>, st)
<1>1. /\ m = c[o][w] /\ d = Level(c, dep, o) /\ Through(c, dep, rep, o, w, k)
      /\ Leaf(k) \notin S /\ m \in S \cap INodes /\ pl = c[m][HDR].partial_len
      /\ d \in Nat /\ diff \in Nat /\ diff < pl /\ d + diff <= MAX_DEPTH
      /\ Same(rep[m], k, d + diff) /\ get_index(rep[m], d + diff) # get_index(k, d + diff)
  BY DEF Split
<1>2. Parted(rep[m], k, d, pl, diff, y, c[m], x, z) /\ StoresCopy(st, o, w, n, x, y, z, k, v)
  BY DEF Split
<1>3. S \subseteq INodes \cup Leaves /\ m # NULL /\ Leaf(k) \in Leaves /\ Leaf(k) \notin INodes
  BY <1>1, Objects DEF Shape, Placed
<1>4. Laid(c, c2, S, k, v, o, w, n, y, x, z)
  BY <1>1, <1>2, <1>3, CopyLaid
<1>5. Outside(st, S, <<o, w>>)
  <2>1. Pointers(c[m])
    <3> SUFFICES ASSUME NEW i \in 0 .. FAN - 1 PROVE c[m][i] \in INodes \cup Leaves \cup {NULL}
      BY DEF Pointers
    <3>1. c[m][i] = NULL \/ c[m][i] \in S
      BY <1>1, ChildIs
    <3> QED BY <1>3, <3>1
  <2> QED BY <1>1, <1>2, <1>3, <2>1, CopyOutside
<1>6. /\ c2[n][HDR] = HeaderOf(pessimistic, Digits(k, d, diff))
      /\ c2[y][HDR] = HeaderOf(pessimistic, Digits(rep[m], d + diff + 1, pl - diff - 1))
      /\ \A i \in 0 .. FAN - 1 : c2[n][i] = IF i = get_index(rep[m], d + diff) THEN y
                                            ELSE IF i = get_index(k, d + diff) THEN Leaf(k) ELSE NULL
      /\ \A i \in 0 .. FAN - 1 : c2[y][i] = c[m][i]
  BY <1>2, <1>4, LaidParts
<1>7. c2[o][w] = n /\ c2[Leaf(k)][KEY] = k /\ AlikeBut(c, c2, S, o, w)
      /\ \A i \in Keys : c2[Leaf(i)][VALUE] = IF i = k THEN v ELSE c[Leaf(i)][VALUE]
  BY <1>4 DEF Laid
<1>8. Moved(pessimistic, c, c2, S, n, m, y, d, diff, rep[m])
  BY <1>1, <1>6 DEF Moved
<1>9. Forking(pessimistic, c, c2, S, dep, rep, k, o, w, m, d, diff, n, y)
  <2>1. AlikeBut(c, c2, S \ {m}, o, w)
    BY <1>7 DEF AlikeBut, Above
  <2> QED BY <1>1, <1>3, <1>6, <1>7, <1>8, <2>1 DEF Forking
<1> DEFINE T == ((S \ {m}) \cup {n, y}) \cup {Leaf(k)}
<1>10. Tree(pessimistic, c2, T)
  BY <1>1, <1>9, ForkedOff
<1>11. Grown(c, c2, S, T, k, v, <<o, w>>, st)
  <2>1. <<o, w>> \in DOMAIN st
    BY <1>2 DEF StoresCopy
  <2>2. T \cap Leaves = (S \cap Leaves) \cup {Leaf(k)} /\ T \subseteq INodes \cup Leaves
    BY <1>1, <1>3, Objects
  <2> HIDE DEF T
  <2> QED BY <1>5, <1>7, <2>1, <2>2 DEF Grown, Outside
<1> QED BY <1>10, <1>11

\* What SplitPrefix builds for the call s.
Splitting(c, k, v, s, diff, path, n, y, x, z, st) ==
  /\ s = Site(c, k) /\ s.n \in INodes /\ DOMAIN c[s.n] = 0 .. FAN
  /\ diff = prefix_mismatch(c, s.n, k, s.depth)
  /\ path = IF pessimistic THEN c[s.n][HDR].partial
            ELSE Digits(c[minimum(c, s.n)][KEY], s.depth, c[s.n][HDR].partial_len)
  /\ x = NewNode(SubSeq(path, 1, diff), Both(Word(path[diff + 1], y), Word(get_index(k, s.depth + diff), Leaf(k))))
  /\ z = [c[s.n] EXCEPT ![HDR] = Header(Rest(path, diff))]
  /\ st = Both(Word(s.ref, n), Both(Object(n, x), Both(Object(y, z), Object(Leaf(k), MakeLeaf(k, v)))))

\* What SplitPrefix does is such a split.
LEMMA SplitIs ==
  ASSUME pessimistic \in BOOLEAN, NEW c, NEW S, NEW dep, NEW rep, Shape(pessimistic, c, S, dep, rep),
         NEW k \in Keys, NEW v, NEW s, NEW n \in INodes \ S, NEW y \in INodes \ S, y # n,
         NEW diff, NEW path, NEW x, NEW z, NEW st, Splitting(c, k, v, s, diff, path, n, y, x, z, st)
  PROVE  \E o \in Above(S) : \E w \in Ways(o) :
           /\ s.ref = <<o, w>>
           /\ Split(c, S, dep, rep, k, v, o, w, s.n, s.depth, c[s.n][HDR].partial_len, diff, n, y, x, z, st)
<1>0. /\ s = Site(c, k) /\ s.n \in INodes /\ DOMAIN c[s.n] = 0 .. FAN
      /\ diff = prefix_mismatch(c, s.n, k, s.depth)
      /\ path = IF pessimistic THEN c[s.n][HDR].partial
                ELSE Digits(c[minimum(c, s.n)][KEY], s.depth, c[s.n][HDR].partial_len)
      /\ x = NewNode(SubSeq(path, 1, diff), Both(Word(path[diff + 1], y), Word(get_index(k, s.depth + diff), Leaf(k))))
      /\ z = [c[s.n] EXCEPT ![HDR] = Header(Rest(path, diff))]
      /\ st = Both(Word(s.ref, n), Both(Object(n, x), Both(Object(y, z), Object(Leaf(k), MakeLeaf(k, v)))))
  BY DEF Splitting
<1>1. S \subseteq INodes \cup Leaves /\ s.n # NULL /\ s.n # Leaf(k) /\ Leaf(k) \in Leaves /\ Leaf(k) \notin INodes
  BY <1>0, Objects DEF Shape, Placed
<1>2. Stays(c, k, s) /\ s.n \in S
  <2>1. s.n \in S \cup {NULL} /\ Stays(c, k, s)
    BY <1>0, SiteIs
  <2> QED BY <1>1, <2>1
<1>3. PICK o \in Above(S) : \E w \in Ways(o) : SiteAt(c, S, dep, rep, k, s, o, w)
  BY <1>0, <1>1, SiteOf
<1>4. PICK w \in Ways(o) : SiteAt(c, S, dep, rep, k, s, o, w)
  BY <1>3
<1>5. \E m, d, pl, old, r : m = s.n /\ d = s.depth /\ pl = c[m][HDR].partial_len /\ old = c[m] /\ r = rep[m]
  OBVIOUS
<1>6. PICK m, d, pl, old, r : m = s.n /\ d = s.depth /\ pl = c[m][HDR].partial_len /\ old = c[m] /\ r = rep[m]
  BY <1>5
<1>7. /\ s.ref = <<o, w>> /\ m = c[o][w] /\ d = Level(c, dep, o)
      /\ Through(c, dep, rep, o, w, k) /\ Leaf(k) \notin S
      /\ m \in S /\ dep[m] = d /\ d \in Nat
      /\ r \in Keys /\ Same(r, k, d) /\ Same(k, r, d) /\ o # m
  BY <1>4, <1>6 DEF SiteAt
<1>8. m \in S \cap INodes /\ m # NULL /\ diff = prefix_mismatch(c, m, k, d) /\ diff < pl /\ DOMAIN old = 0 .. FAN
  BY <1>0, <1>1, <1>2, <1>6 DEF Stays
<1>9. path = IF pessimistic THEN c[m][HDR].partial ELSE Digits(c[minimum(c, m)][KEY], d, pl)
  BY <1>0, <1>6
<1>10. Parting(r, k, d, pl, diff, path)
  <2>1. Same(k, rep[m], dep[m]) /\ diff = prefix_mismatch(c, m, k, dep[m]) /\ diff < c[m][HDR].partial_len
        /\ path = IF pessimistic THEN c[m][HDR].partial ELSE Digits(c[minimum(c, m)][KEY], dep[m], c[m][HDR].partial_len)
    BY <1>6, <1>7, <1>8, <1>9
  <2>2. Parting(rep[m], k, dep[m], c[m][HDR].partial_len, diff, path)
    BY <1>8, <2>1, Parts
  <2> QED BY <1>6, <1>7, <2>2
<1>11. Parted(r, k, d, pl, diff, y, old, x, z)
  <2>1. x = NewNode(SubSeq(path, 1, diff), Both(Word(path[diff + 1], y), Word(get_index(k, d + diff), Leaf(k))))
        /\ z = [old EXCEPT ![HDR] = Header(Rest(path, diff))]
    BY <1>0, <1>6
  <2> QED BY <1>7, <1>8, <1>10, <2>1, CopyIs
<1>12. o \in Objs /\ o \notin Leaves /\ (o # 0 => o \in S)
  BY <1>1, PointerIs
<1>13. o # n /\ o # y /\ o # Leaf(k)
  BY <1>1, <1>12, Objects
<1>14. StoresCopy(st, o, w, n, x, y, z, k, v)
  <2>1. st = Both(Word(<<o, w>>, n), Both(Object(n, x), Both(Object(y, z), Object(Leaf(k), MakeLeaf(k, v)))))
    BY <1>0, <1>7
  <2> QED BY <1>13, <2>1, CopyStores
<1>15. /\ diff \in Nat /\ d + diff <= MAX_DEPTH
       /\ Same(r, k, d + diff) /\ get_index(r, d + diff) # get_index(k, d + diff)
  BY <1>10 DEF Parting
<1>16. Split(c, S, dep, rep, k, v, o, w, m, d, pl, diff, n, y, x, z, st)
  <2>1. Parted(rep[m], k, d, pl, diff, y, c[m], x, z)
    BY <1>6, <1>11
  <2>2. r = rep[m] /\ pl = c[m][HDR].partial_len
    BY <1>6
  <2> QED BY <1>7, <1>8, <1>14, <1>15, <2>1, <2>2 DEF Split
<1> QED BY <1>6, <1>7, <1>16

\* SplitPrefix's stores.
LEMMA SplitGrown ==
  ASSUME pessimistic \in BOOLEAN, NEW c, NEW S, NEW dep, NEW rep, Shape(pessimistic, c, S, dep, rep), Branching(c, S),
         NEW k \in Keys, NEW v, NEW s, NEW n \in INodes \ S, NEW y \in INodes \ S, y # n,
         NEW diff, NEW path, NEW x, NEW z, NEW st, Splitting(c, k, v, s, diff, path, n, y, x, z, st),
         NEW c2, Wrote(c, c2, st)
  PROVE  /\ Tree(pessimistic, c2, ((S \ {s.n}) \cup {n, y}) \cup {Leaf(k)})
         /\ Grown(c, c2, S, ((S \ {s.n}) \cup {n, y}) \cup {Leaf(k)}, k, v, s.ref, st)
         /\ Leaf(k) \notin S /\ s.n \in S
<1>1. PICK o \in Above(S) : \E w \in Ways(o) :
        /\ s.ref = <<o, w>>
        /\ Split(c, S, dep, rep, k, v, o, w, s.n, s.depth, c[s.n][HDR].partial_len, diff, n, y, x, z, st)
  BY SplitIs
<1>2. PICK w \in Ways(o) :
        /\ s.ref = <<o, w>>
        /\ Split(c, S, dep, rep, k, v, o, w, s.n, s.depth, c[s.n][HDR].partial_len, diff, n, y, x, z, st)
  BY <1>1
<1>3. /\ Tree(pessimistic, c2, ((S \ {s.n}) \cup {n, y}) \cup {Leaf(k)})
      /\ Grown(c, c2, S, ((S \ {s.n}) \cup {n, y}) \cup {Leaf(k)}, k, v, <<o, w>>, st)
  BY <1>2, SplitTree
<1> QED BY <1>2, <1>3 DEF Split

\* Update's store.
LEMMA ValueGrown ==
  ASSUME NEW p, NEW c, NEW S, NEW dep, NEW rep, Shape(p, c, S, dep, rep), Branching(c, S),
         NEW k \in Keys, Leaf(k) \in S, NEW v,
         NEW st, st = Word(<<Leaf(k), VALUE>>, v), NEW c2, Wrote(c, c2, st)
  PROVE  Tree(p, c2, S) /\ Grown(c, c2, S, S, k, v, <<Leaf(k), VALUE>>, st)
<1> DEFINE l == Leaf(k)
<1>1. /\ l \in Leaves /\ l \notin INodes /\ l # 0 /\ l \in Objs /\ Fields(l) = {VALUE, KEY} /\ VALUE # KEY
      /\ S \subseteq INodes \cup Leaves
  <2>1. l \in Leaves /\ l \notin INodes /\ l # 0
    BY Objects
  <2> QED BY <2>1, FieldsAre DEF Shape, Placed
<1> HIDE DEF l
<1>2. DOMAIN st = {<<l, VALUE>>} /\ st[<<l, VALUE>>] = v
  BY WordIs DEF l
<1>3. \A q \in Objs : \A u \in Fields(q) : (q # l \/ u # VALUE) => c2[q][u] = c[q][u]
  BY <1>2 DEF Wrote
<1>4. Alike(c, c2, S)
  <2>1. 0 \in Objs /\ 0 \in Fields(0) /\ 0 # l
    BY <1>1, FieldsAre
  <2>2. ASSUME NEW n \in S \cap INodes, NEW u \in 0 .. FAN PROVE c2[n][u] = c[n][u]
    <3>1. n \in Objs /\ u \in Fields(n) /\ n # l
      BY <1>1, FieldsAre
    <3> QED BY <1>3, <3>1
  <2>3. ASSUME NEW m \in S \cap Leaves PROVE c2[m][KEY] = c[m][KEY]
    <3>1. m \in Objs /\ KEY \in Fields(m) /\ KEY # VALUE
      BY <1>1, FieldsAre
    <3> QED BY <1>3, <3>1
  <2> QED BY <1>3, <2>1, <2>2, <2>3, FieldsAre DEF Alike
<1>5. Tree(p, c2, S)
  <2>1. Formed(p, c2, S)
    BY <1>4, ShapeSame DEF Formed
  <2>2. Branching(c2, S)
    BY <1>4 DEF Alike, Branching
  <2> QED BY <2>1, <2>2 DEF Tree
<1>6. \A j \in Keys : c2[Leaf(j)][VALUE] = IF j = k THEN v ELSE c[Leaf(j)][VALUE]
  <2>1. \A j \in Keys : j # k => <<Leaf(j), VALUE>> \notin DOMAIN st
    BY <1>2, Objects DEF l
  <2>2. <<Leaf(k), VALUE>> \in DOMAIN st /\ st[<<Leaf(k), VALUE>>] = v
    BY <1>2 DEF l
  <2> QED BY <2>1, <2>2, ValuesAre
<1>7. Good(l, VALUE, v)
  BY <1>1 DEF Good
<1>8. S \cap Leaves = (S \cap Leaves) \cup {l}
  BY <1>1 DEF l
<1> QED BY <1>1, <1>2, <1>5, <1>6, <1>7, <1>8 DEF Grown, l

\* Whatever grew, the map has k's new value and the others' old ones.
LEMMA GrownContent ==
  ASSUME NEW p \in BOOLEAN, NEW c, NEW c2, NEW S, NEW S2, Tree(p, c, S), Tree(p, c2, S2),
         NEW k \in Keys, NEW v, NEW ref, NEW st, Grown(c, c2, S, S2, k, v, ref, st)
  PROVE  ContentOf(c2) = [ContentOf(c) EXCEPT ![k] = v]
<1>1. ContentOf(c) = [j \in Keys |-> IF Leaf(j) \in S THEN c[Leaf(j)][VALUE] ELSE NULL]
  BY ContentIs DEF Tree, Formed
<1>2. ContentOf(c2) = [j \in Keys |-> IF Leaf(j) \in S2 THEN c2[Leaf(j)][VALUE] ELSE NULL]
  BY ContentIs DEF Tree, Formed
<1>3. ASSUME NEW j \in Keys PROVE ContentOf(c2)[j] = IF j = k THEN v ELSE ContentOf(c)[j]
  <2>1. c2[Leaf(j)][VALUE] = IF j = k THEN v ELSE c[Leaf(j)][VALUE]
    BY DEF Grown
  <2>2. S2 \cap Leaves = (S \cap Leaves) \cup {Leaf(k)} /\ Leaf(j) \in Leaves /\ (Leaf(j) = Leaf(k) => j = k)
    BY Objects DEF Grown
  <2>3. Leaf(j) \in S2 <=> (j = k \/ Leaf(j) \in S)
    BY <2>2
  <2> QED BY <1>1, <1>2, <2>1, <2>3
<1>4. [ContentOf(c) EXCEPT ![k] = v] = [j \in Keys |-> IF j = k THEN v ELSE ContentOf(c)[j]]
  BY <1>1
<1> QED BY <1>2, <1>3, <1>4

\* The leaves of the tree have values.
Valued(c, S) == \A k \in Keys : Leaf(k) \in S => c[Leaf(k)][VALUE] # NULL

\* No value stored is null.
LEMMA GrownValued ==
  ASSUME NEW c, NEW c2, NEW S, NEW S2, Valued(c, S),
         NEW k \in Keys, NEW v \in Values, NEW ref, NEW st, Grown(c, c2, S, S2, k, v, ref, st)
  PROVE  Valued(c2, S2)
<1> SUFFICES ASSUME NEW j \in Keys, Leaf(j) \in S2 PROVE c2[Leaf(j)][VALUE] # NULL
  BY DEF Valued
<1>1. Leaf(j) \in Leaves /\ (Leaf(j) = Leaf(k) => j = k)
  BY Objects
<1>2. c2[Leaf(j)][VALUE] = IF j = k THEN v ELSE c[Leaf(j)][VALUE]
  BY DEF Grown
<1>3. j = k \/ Leaf(j) \in S
  BY <1>1 DEF Grown
<1> QED BY <1>2, <1>3, LazyPathAssumption DEF Valued

\* Words of the right type.
Fit(c) == \A q \in Objs : \A u \in Fields(q) : Good(q, u, c[q][u])

\* Stores of words of the right type keep the types.
LEMMA FitGrown ==
  ASSUME NEW c, NEW c2, Fit(c), NEW st, Wrote(c, c2, st),
         NEW S, NEW S2, NEW k, NEW v, NEW ref, Grown(c, c2, S, S2, k, v, ref, st)
  PROVE  Fit(c2)
<1> SUFFICES ASSUME NEW q \in Objs, NEW u \in Fields(q) PROVE Good(q, u, c2[q][u])
  BY DEF Fit
<1>1. CASE <<q, u>> \in DOMAIN st
  <2>1. PICK q2 \in Objs : \E u2 \in Fields(q2) : <<q, u>> = <<q2, u2>> /\ Good(q2, u2, st[<<q, u>>])
    BY <1>1 DEF Grown
  <2>2. PICK u2 \in Fields(q2) : <<q, u>> = <<q2, u2>> /\ Good(q2, u2, st[<<q, u>>])
    BY <2>1
  <2>3. Good(q, u, st[<<q, u>>])
    BY <2>2
  <2> QED BY <1>1, <2>3 DEF Wrote
<1>2. CASE <<q, u>> \notin DOMAIN st
  BY <1>2 DEF Wrote, Fit
<1> QED BY <1>1, <1>2

\* A word of the right type where each word is the one or the other.
LEMMA FitPartly ==
  ASSUME NEW c, NEW n, NEW n2, Fit(c), Fit(n),
         \A q \in Objs : \A u \in Fields(q) : n2[q][u] \in {n[q][u], c[q][u]}
  PROVE  Fit(n2)
<1> SUFFICES ASSUME NEW q \in Objs, NEW u \in Fields(q) PROVE Good(q, u, n2[q][u])
  BY DEF Fit
<1> QED BY DEF Fit

\* The objects, and the words of each.
Framed(c) == DOMAIN c = Objs /\ \A o \in Objs : DOMAIN c[o] = Fields(o)

\* What stays of the tree S when the lines outside it, and ref's, are written.
Still(c, n, S, ref) ==
  \A o \in {0} \cup S : \A w \in Fields(o) : <<o, w>> # ref => c[o][w] = n[o][w]

\* The tree before is still there, ref's word apart.
LEMMA StillGrown ==
  ASSUME NEW c, NEW c2, NEW st, Wrote(c, c2, st), NEW S, S \subseteq INodes \cup Leaves,
         NEW S2, NEW k, NEW v, NEW ref, Grown(c, c2, S, S2, k, v, ref, st)
  PROVE  Still(c2, c, S, ref)
<1> SUFFICES ASSUME NEW o \in {0} \cup S, NEW w \in Fields(o), <<o, w>> # ref PROVE c2[o][w] = c[o][w]
  BY DEF Still
<1>1. o \in Objs
  BY FieldsAre DEF Objs
<1>2. CASE <<o, w>> \in DOMAIN st
  BY <1>2 DEF Grown
<1>3. CASE <<o, w>> \notin DOMAIN st
  BY <1>1, <1>3 DEF Wrote
<1> QED BY <1>2, <1>3

\* The medium's tree where only lines outside it were written.
LEMMA StillTree ==
  ASSUME NEW p \in BOOLEAN, NEW n, NEW n2, NEW S, Tree(p, n, S),
         \A o \in {0} \cup S : \A w \in Fields(o) : n2[o][w] = n[o][w]
  PROVE  Tree(p, n2, S) /\ ContentOf(n2) = ContentOf(n) /\ (Valued(n, S) => Valued(n2, S))
<1>1. PICK dep, rep : Shape(p, n, S, dep, rep)
  BY DEF Tree, Formed
<1>2. S \subseteq INodes \cup Leaves
  BY <1>1 DEF Shape, Placed
<1>3. Alike(n, n2, S)
  BY <1>2, FieldsAre DEF Alike
<1>4. Shape(p, n2, S, dep, rep)
  BY <1>1, <1>3, ShapeSame
<1>5. ASSUME NEW k \in Keys, Leaf(k) \in S PROVE n2[Leaf(k)][VALUE] = n[Leaf(k)][VALUE]
  <2>1. Leaf(k) \in Leaves
    BY Objects
  <2>2. VALUE \in Fields(Leaf(k))
    BY <2>1, FieldsAre
  <2> QED BY <1>5, <2>2
<1>6. ContentOf(n) = [k \in Keys |-> IF Leaf(k) \in S THEN n[Leaf(k)][VALUE] ELSE NULL]
  BY <1>1, ContentIs
<1>7. ContentOf(n2) = [k \in Keys |-> IF Leaf(k) \in S THEN n2[Leaf(k)][VALUE] ELSE NULL]
  BY <1>4, ContentIs
<1>8. Branching(n2, S)
  BY <1>3 DEF Tree, Alike, Branching
<1>9. Valued(n, S) => Valued(n2, S)
  BY <1>5 DEF Valued
<1>10. Tree(p, n2, S)
  BY <1>4, <1>8 DEF Tree, Formed
<1> QED BY <1>5, <1>6, <1>7, <1>9, <1>10

-----------------------------------------------------------------------------
(* What is flushed when *)

\* The lines the operation in progress still owes the medium.
Owed == IF pc = "flush" THEN at.new \cup {at.ref}
        ELSE IF pc = "publish" THEN {at.ref} ELSE {}

\* recursive_insert's order: what the publishing pointer leads to is on the
\* medium, or its clflush was issued and the next mfence waits for it, before
\* the pointer's own flush begins (art_lp.c 397 to 486).
NewObjectsFirst ==
  pc = "publish" =>
    \A o \in DOMAIN mem.cache : \A w \in DOMAIN mem.cache[o] :
      \/ mem.cache[o][w] = mem.nvm[o][w]
      \/ <<o, w>> \in mem.pend
      \/ <<o, w>> = at.ref

\* Nothing an operation stored is left in the cache alone when it returns.
NothingUnflushed == pc = "idle" => mem.nvm = mem.cache

IInv == /\ Sound(mem, Owed)
        /\ pc \in {"idle", "return", "down"} => mem.nvm = mem.cache

-----------------------------------------------------------------------------
\* Formatted memory owes nothing.
LEMMA InitIInv == Init => IInv
<1> SUFFICES ASSUME Init PROVE IInv
  OBVIOUS
<1> DEFINE c == [o \in {0} \cup INodes \cup Leaves |-> Blank(o)]
<1>1. mem = Formatted(c) /\ pc = "idle"
  BY DEF Init
<1>2. \A o \in DOMAIN c : IsFunction(c[o])
  <2>1. \A o : IsFunction(MakeLeaf(NULL, NULL)) /\ IsFunction(NewNode(<<>>, <<>>)) 
    BY DEF IsFunction, MakeLeaf, NewNode
  <2>2. IsFunction(Blank(0))
    BY DEF IsFunction, Blank
  <2> QED
    BY <2>1, <2>2 DEF Blank
<1>3. IsFunction(c)
  BY DEF IsFunction
<1> HIDE DEF c
<1>4. Sound(mem, {}) /\ mem.nvm = mem.cache
  BY <1>1, <1>2, <1>3, FormattedSound
<1> QED
  BY <1>1, <1>4 DEF IInv, Owed

\* Whatever an insert stores, it owes.
LEMMA BuildIInv ==
  ASSUME NEW kind, NEW k, NEW v, NEW stores, NEW ref, NEW freed,
         IInv, pc = "idle", Build(kind, k, v, stores, ref, freed)
  PROVE  IInv'
<1>1. Sound(mem, {}) /\ mem' = Store(mem, stores)
  BY DEF IInv, Owed, Build
<1>2. Sound(mem', {} \cup DOMAIN stores)
  BY <1>1, StoreSound
<1>3. at'.new = DOMAIN stores \ {ref} /\ at'.ref = ref
  BY DEF Build
<1>4. CASE DOMAIN stores = {ref}
  <2>1. pc' = "publish"
    BY <1>4 DEF Build
  <2>2. Sound(mem', {ref})
    BY <1>2, <1>4, SoundMore
  <2> QED
    BY <1>3, <2>1, <2>2 DEF IInv, Owed
<1>5. CASE DOMAIN stores # {ref}
  <2>1. pc' = "flush"
    BY <1>5 DEF Build
  <2>2. Sound(mem', (DOMAIN stores \ {ref}) \cup {ref})
    BY <1>2, SoundMore
  <2> QED
    BY <1>3, <2>1, <2>2 DEF IInv, Owed
<1> QED
  BY <1>4, <1>5

\* Each step keeps IInv.
LEMMA NextIInv == IInv /\ [Next]_vars => IInv'
<1> SUFFICES ASSUME IInv, [Next]_vars PROVE IInv'
  OBVIOUS
<1>0. CASE UNCHANGED vars
  BY <1>0 DEF IInv, Owed, vars
<1>1. ASSUME NEW k, NEW v, InsertLeaf(k, v) PROVE IInv'
  BY <1>1, BuildIInv DEF InsertLeaf
<1>2. ASSUME NEW k, NEW v, InsertBeside(k, v) PROVE IInv'
  BY <1>2, BuildIInv DEF InsertBeside
<1>3. ASSUME NEW k, NEW v, SplitPrefix(k, v) PROVE IInv'
  BY <1>3, BuildIInv DEF SplitPrefix
<1>4. ASSUME NEW k, NEW v, Update(k, v) PROVE IInv'
  BY <1>4, BuildIInv DEF Update
<1>5. CASE Flush
  <2>1. /\ pc = "flush" /\ pc' = "publish" /\ at' = at
        /\ mem' = flush_buffer(mem, at.new, FALSE)
    BY <1>5 DEF Flush
  <2>2. Sound(mem', (at.new \cup {at.ref}) \ at.new)
    BY <2>1, FlushSound DEF IInv, Owed
  <2>3. Sound(mem', {at.ref})
    BY <2>2, SoundMore
  <2> QED
    BY <2>1, <2>3 DEF IInv, Owed
<1>6. CASE Publish
  <2>1. /\ pc = "publish" /\ pc' = "return"
        /\ mem' = flush_buffer(mem, {at.ref}, TRUE)
    BY <1>6 DEF Publish
  <2>2. Sound(mem', {}) /\ mem'.nvm = mem'.cache
    BY <2>1, FencedFlush DEF IInv, Owed
  <2> QED
    BY <2>1, <2>2 DEF IInv, Owed
<1>7. CASE Return
  BY <1>7 DEF Return, IInv, Owed
<1>8. CASE Evict
  <2>1. PICK l \in Dirty(mem) : mem' = WriteBack(mem, {l})
    BY <1>8 DEF Evict
  <2>2. pc' = pc /\ at' = at /\ pc \notin {"idle", "return", "down"}
    BY <1>8, <2>1 DEF Evict, IInv, Dirty
  <2>3. Sound(mem', Owed \ {l})
    BY <2>1, WriteBackSound DEF IInv
  <2>4. Sound(mem', Owed) /\ Owed' = Owed
    BY <2>2, <2>3, SoundMore DEF Owed
  <2> QED
    BY <2>2, <2>4 DEF IInv
<1>9. CASE PowerLost
  <2>1. mem' = PowerLoss(mem) /\ pc' = "down"
    BY <1>9 DEF PowerLost
  <2>2. Sound(mem', {}) /\ mem'.nvm = mem'.cache
    BY <2>1, PowerLossSound DEF IInv
  <2> QED
    BY <2>1, <2>2 DEF IInv, Owed
<1>10. CASE Restart
  BY <1>10 DEF Restart, IInv, Owed
<1> QED
  BY <1>0, <1>1, <1>2, <1>3, <1>4, <1>5, <1>6, <1>7, <1>8, <1>9, <1>10 DEF Next

-----------------------------------------------------------------------------
\* IInv is an invariant.
LEMMA OwedIsKnown == Spec => []IInv
BY InitIInv, NextIInv, PTL DEF Spec

\* For every insert and update of both trees (art_lp.c and art_lpo.c): the new
\* objects go out before the pointer that publishes them.
THEOREM PublishedLast == Spec => []NewObjectsFirst
<1>1. IInv => NewObjectsFirst
  BY DEF IInv, Owed, Sound, CleanBut, NewObjectsFirst
<1> QED
  BY <1>1, OwedIsKnown, PTL

\* Between calls the medium holds every word the program has stored, even where
\* only mfence orders clflush.
THEOREM DurableBetweenCalls == Spec => []NothingUnflushed
<1>1. IInv => NothingUnflushed
  BY DEF IInv, NothingUnflushed
<1> QED
  BY <1>1, OwedIsKnown, PTL

-----------------------------------------------------------------------------
(* Words *)

\* A store writes the cache alone.
LEMMA StoreWords ==
  ASSUME NEW m, NEW L, NEW s, Sound(m, L), Framed(m.cache), NEW f, f = Store(m, s)
  PROVE  /\ f.nvm = m.nvm /\ Framed(f.cache) /\ Wrote(m.cache, f.cache, s)
         /\ Lines(f) = Lines(m)
<1>1. DOMAIN f.cache = DOMAIN m.cache /\ \A o \in DOMAIN m.cache : DOMAIN f.cache[o] = DOMAIN m.cache[o]
  BY StoreSound, ZenonT(30)
<1>2. /\ f.nvm = m.nvm
      /\ \A o \in DOMAIN m.cache : \A w \in DOMAIN m.cache[o] :
           f.cache[o][w] = IF <<o, w>> \in DOMAIN s THEN s[<<o, w>>] ELSE m.cache[o][w]
  BY StoreCache
<1>3. Framed(f.cache)
  BY <1>1 DEF Framed
<1>4. Wrote(m.cache, f.cache, s)
  BY <1>2 DEF Framed, Wrote
<1>5. Lines(f) = Lines(m)
  BY <1>1 DEF Lines
<1> QED BY <1>2, <1>3, <1>4, <1>5

\* A write-back of the lines K, begun or done.
Written(m, f, K) ==
  /\ f.cache = m.cache
  /\ \A o \in DOMAIN m.cache : \A w \in DOMAIN m.cache[o] :
       /\ f.nvm[o][w] \in {m.nvm[o][w], m.cache[o][w]}
       /\ <<o, w>> \notin K => f.nvm[o][w] = m.nvm[o][w]

\* A write-back is one.
LEMMA WriteBackWords ==
  ASSUME NEW m, NEW L, NEW K, Sound(m, L)
  PROVE  Written(m, WriteBack(m, K), K)
BY DEF Written, Sound, Shaped, WriteBack

\* So is flush_buffer without fences.
LEMMA FlushWords ==
  ASSUME NEW m, NEW L, NEW K, Sound(m, L)
  PROVE  Written(m, flush_buffer(m, K, FALSE), K)
<1>1. flush_buffer(m, K, FALSE) = Clflush(m, K)
  BY DEF flush_buffer
<1>2. /\ [m EXCEPT !.pend = @ \cup K].nvm = m.nvm
      /\ [m EXCEPT !.pend = @ \cup K].cache = m.cache
  BY DEF Sound, Shaped
<1>3. Written(m, [m EXCEPT !.pend = @ \cup K], K)
  BY <1>2 DEF Written
<1> QED BY <1>1, <1>3, WriteBackWords DEF Clflush

\* What a write-back of lines outside the tree leaves of it.
LEMMA WrittenTree ==
  ASSUME NEW p \in BOOLEAN, NEW m, NEW f, NEW K, Written(m, f, K), Framed(m.cache), Fit(m.cache), Fit(m.nvm),
         NEW S, NEW ref, Tree(p, m.nvm, S), Still(m.cache, m.nvm, S, ref), ref \notin K
  PROVE  /\ Tree(p, f.nvm, S) /\ (Valued(m.nvm, S) => Valued(f.nvm, S)) /\ ContentOf(f.nvm) = ContentOf(m.nvm) /\ Fit(f.nvm)
         /\ Still(f.cache, f.nvm, S, ref) /\ f.cache = m.cache /\ Lines(f) = Lines(m)
<1> DEFINE c == m.cache
           n == m.nvm
           n2 == f.nvm
<1>1. S \subseteq INodes \cup Leaves
  BY DEF Tree, Formed, Shape, Placed
<1>2. /\ f.cache = c
      /\ \A q \in Objs : \A u \in Fields(q) : n2[q][u] \in {n[q][u], c[q][u]} /\ (<<q, u>> \notin K => n2[q][u] = n[q][u])
  BY DEF Framed, Written
<1>3. \A q \in Objs : \A u \in Fields(q) : n2[q][u] \in {n[q][u], c[q][u]}
  BY <1>2
<1>4. \A o \in {0} \cup S : \A w \in Fields(o) : n2[o][w] = n[o][w]
  <2> SUFFICES ASSUME NEW o \in {0} \cup S, NEW w \in Fields(o) PROVE n2[o][w] = n[o][w]
    OBVIOUS
  <2>1. o \in Objs
    BY <1>1 DEF Objs
  <2>2. CASE <<o, w>> = ref
    BY <1>2, <2>1, <2>2
  <2>3. CASE <<o, w>> # ref
    <3>1. c[o][w] = n[o][w]
      BY <2>3 DEF Still
    <3>2. n2[o][w] \in {n[o][w], c[o][w]}
      BY <1>3, <2>1
    <3> HIDE DEF c, n, n2
    <3> QED BY <3>1, <3>2
  <2> QED BY <2>2, <2>3
<1>5. Fit(n2)
  BY <1>3, FitPartly
<1>6. Tree(p, n2, S) /\ ContentOf(n2) = ContentOf(n) /\ (Valued(n, S) => Valued(n2, S))
  <2>1. Tree(p, n, S)
    OBVIOUS
  <2> HIDE DEF n, n2, c
  <2> QED BY <1>4, <2>1, StillTree
<1>7. Still(c, n2, S, ref)
  BY <1>4 DEF Still
<1>8. Lines(f) = Lines(m)
  BY <1>2 DEF Lines
<1> QED BY <1>2, <1>5, <1>6, <1>7, <1>8

-----------------------------------------------------------------------------
(* The invariant *)

\* S is the tree on the medium, S2 the one in the cache.
Trees(S, S2) ==
  /\ pessimistic \in BOOLEAN
  /\ Framed(mem.cache) /\ Fit(mem.cache) /\ Fit(mem.nvm)
  /\ Tree(pessimistic, mem.nvm, S) /\ Tree(pessimistic, mem.cache, S2)
  /\ Valued(mem.nvm, S) /\ Valued(mem.cache, S2)

\* Between Build and Publish: one word of the medium's tree is to be written.
Begun(S, S2) ==
  /\ op \in Map!Ops
  /\ used = (S \cup S2) \cap INodes /\ at.freed = (S \ S2) \cap INodes
  /\ at.new \cup {at.ref} \subseteq Lines(mem) /\ at.ref \notin at.new
  /\ Still(mem.cache, mem.nvm, S, at.ref)
  /\ ContentOf(mem.cache) = [ContentOf(mem.nvm) EXCEPT ![op.key] = op.value]

Idle(S, S2) == op = NoOp /\ at = NoLocals /\ used = S \cap INodes

Done(S, S2) ==
  /\ op \in Map!Ops /\ ContentOf(mem.nvm)[op.key] = op.value
  /\ at.new \cup {at.ref} \subseteq Lines(mem) /\ at.freed \subseteq used
  /\ used \subseteq INodes /\ used \ at.freed = S \cap INodes

Lost(S, S2) == op = Down /\ at = NoLocals /\ used \subseteq INodes

\* How they differ in each phase.
Phase(S, S2) ==
  \/ pc \in {"flush", "publish"} /\ Begun(S, S2)
  \/ pc = "idle" /\ Idle(S, S2)
  \/ pc = "return" /\ Done(S, S2)
  \/ pc = "down" /\ Lost(S, S2)

\* The inductive invariant: a tree on the medium and one in the cache that differ
\* as the operation in progress has it.
RInv == \E S, S2 : Trees(S, S2) /\ Phase(S, S2)

\* A step of the durable map, or none.
MapStep == [Map!Next]_<<ContentOf(mem.nvm), op>>

\* DurableMap's variables.
LEMMA MapIs == MediumContent = ContentOf(mem.nvm) /\ Map!vars = <<ContentOf(mem.nvm), op>>
BY DEF MediumContent, ContentOf, Map!vars

\* What the lemmas about the three ways of inserting, and Update, come to.
LEMMA BeginStep ==
  ASSUME IInv, pc = "idle", NEW S, Trees(S, S), Idle(S, S),
         NEW k \in Keys, NEW v \in Values, NEW kind \in {"Insert", "Update"},
         NEW st, NEW ref, NEW freed, Build(kind, k, v, st, ref, freed), pessimistic' = pessimistic,
         NEW S2, NEW c2, c2 = Store(mem, st).cache, Tree(pessimistic, c2, S2),
         Grown(mem.cache, c2, S, S2, k, v, ref, st),
         freed = (S \ S2) \cap INodes, used' = (S \cup S2) \cap INodes
  PROVE  RInv' /\ MapStep
<1>1. \E c, n, m, f, p : c = mem.cache /\ n = mem.nvm /\ m = mem /\ f = mem' /\ p = pessimistic
  OBVIOUS
<1>2. PICK c, n, m, f, p : c = mem.cache /\ n = mem.nvm /\ m = mem /\ f = mem' /\ p = pessimistic
  BY <1>1
<1>3. f = Store(m, st) /\ Sound(m, {}) /\ n = c /\ m.cache = c /\ m.nvm = n
  <2>1. mem' = Store(mem, st)
    BY DEF Build
  <2>2. Sound(mem, {}) /\ mem.nvm = mem.cache
    BY DEF IInv, Owed
  <2> QED BY <1>2, <2>1, <2>2
<1>4. p \in BOOLEAN /\ Framed(c) /\ Fit(c) /\ Tree(p, c, S)
  BY <1>2 DEF Trees
<1>5. f.nvm = c /\ Framed(f.cache) /\ Wrote(c, f.cache, st) /\ Lines(f) = Lines(m)
  BY <1>3, <1>4, StoreWords
<1>6. f.cache = c2
  BY <1>2, <1>3
<1>7. Tree(p, c2, S2) /\ Grown(c, c2, S, S2, k, v, ref, st)
  BY <1>2
<1>8. Fit(c2)
  BY <1>4, <1>5, <1>6, <1>7, FitGrown
<1>9. ContentOf(c2) = [ContentOf(c) EXCEPT ![k] = v]
  BY <1>4, <1>7, GrownContent
<1>10. S \subseteq INodes \cup Leaves
  BY <1>4 DEF Tree, Formed, Shape, Placed
<1>11. Still(c2, c, S, ref)
  BY <1>5, <1>6, <1>7, <1>10, StillGrown
<1>12. DOMAIN st \subseteq Lines(f) /\ ref \in DOMAIN st
  <2>1. ASSUME NEW a \in DOMAIN st PROVE a \in Lines(f)
    <3>1. PICK q \in Objs : \E u \in Fields(q) : a = <<q, u>>
      BY <1>7 DEF Grown
    <3>2. PICK u \in Fields(q) : a = <<q, u>>
      BY <3>1
    <3>3. q \in DOMAIN f.cache /\ u \in DOMAIN f.cache[q]
      BY <1>5 DEF Framed
    <3> QED BY <3>2, <3>3 DEF Lines
  <2> QED BY <1>7, <2>1 DEF Grown
<1>13. /\ at' = [new |-> DOMAIN st \ {ref}, ref |-> ref, freed |-> freed]
       /\ op' = [kind |-> kind, key |-> k, value |-> v] /\ pc' \in {"flush", "publish"}
  BY DEF Build
<1>14. at'.new = DOMAIN st \ {ref} /\ at'.ref = ref /\ at'.freed = freed /\ op'.key = k /\ op'.value = v
  BY <1>13
<1>15. op' \in Map!Ops
  BY <1>13 DEF Map!Ops
<1>16. mem'.cache = c2 /\ mem'.nvm = c /\ Lines(mem') = Lines(f)
  BY <1>2, <1>5, <1>6
<1>v. Valued(c, S) /\ Valued(c2, S2)
  <2>1. Valued(c, S)
    BY <1>2 DEF Trees
  <2> QED BY <1>7, <2>1, GrownValued
<1>17. Trees(S, S2)'
  BY <1>v, <1>2, <1>4, <1>5, <1>6, <1>7, <1>8, <1>16 DEF Trees
<1>18. Begun(S, S2)'
  <2>1. at'.new \cup {at'.ref} \subseteq Lines(mem') /\ at'.ref \notin at'.new
    BY <1>12, <1>14, <1>16
  <2>2. Still(mem'.cache, mem'.nvm, S, at'.ref)
    BY <1>11, <1>14, <1>16
  <2>3. ContentOf(mem'.cache) = [ContentOf(mem'.nvm) EXCEPT ![op'.key] = op'.value]
    BY <1>9, <1>14, <1>16
  <2>4. used' = (S \cup S2) \cap INodes /\ at'.freed = (S \ S2) \cap INodes
    BY <1>14
  <2> QED BY <1>15, <2>1, <2>2, <2>3, <2>4 DEF Begun
<1>19. RInv'
  BY <1>13, <1>17, <1>18 DEF RInv, Phase
<1>20. MapStep
  <2>1. ContentOf(mem'.nvm) = ContentOf(mem.nvm)
    BY <1>2, <1>3, <1>16
  <2>2. op = Map!NoOp
    BY DEF Idle, NoOp, Map!NoOp
  <2>3. Map!Begin
    BY <1>15, <2>1, <2>2, MapIs DEF Map!Begin, MediumContent, ContentOf
  <2> QED BY <2>3 DEF MapStep, Map!Next
<1> QED BY <1>19, <1>20

\* Between operations the medium's tree is the cache's.
LEMMA AtRest ==
  ASSUME IInv, RInv, pc = "idle"
  PROVE  \E S : Trees(S, S) /\ Idle(S, S)
<1>1. PICK S, S2 : Trees(S, S2) /\ Phase(S, S2)
  BY DEF RInv
<1>2. mem.nvm = mem.cache
  BY DEF IInv
<1>3. Trees(S, S)
  BY <1>1, <1>2 DEF Trees
<1>4. Idle(S, S)
  BY <1>1 DEF Phase, Idle
<1> QED BY <1>3, <1>4

\* The cache after a store.
LEMMA Stores ==
  ASSUME IInv, pc = "idle", NEW S, Trees(S, S), NEW c, c = mem.cache, NEW st, NEW c2, c2 = Store(mem, st).cache
  PROVE  Wrote(c, c2, st) /\ pessimistic \in BOOLEAN /\ Framed(c) /\ S \subseteq INodes \cup Leaves
         /\ Branching(c, S) /\ \E dep, rep : Shape(pessimistic, c, S, dep, rep)
<1>1. \E m, f : m = mem /\ f = Store(m, st)
  OBVIOUS
<1>2. PICK m, f : m = mem /\ f = Store(m, st)
  BY <1>1
<1>3. Sound(m, {}) /\ Framed(m.cache) /\ m.cache = c /\ f.cache = c2
  BY <1>2 DEF IInv, Owed, Trees
<1>4. Wrote(m.cache, f.cache, st)
  BY <1>2, <1>3, StoreWords
<1>5. Tree(pessimistic, c, S) /\ pessimistic \in BOOLEAN
  BY DEF Trees
<1> QED BY <1>3, <1>4, <1>5 DEF Tree, Formed, Shape, Placed

\* InsertLeaf (art_lp.c 395 to 399 and 499 to 505).
LEMMA StepInsertLeaf ==
  ASSUME IInv, RInv, NEW k \in Keys, NEW v \in Values, InsertLeaf(k, v)
  PROVE  RInv' /\ MapStep
<1>1. pc = "idle" /\ used' = used /\ pessimistic' = pessimistic
  BY DEF InsertLeaf
<1>2. PICK S : Trees(S, S) /\ Idle(S, S)
  BY <1>1, AtRest
<1>3. \E c, s, st, c2 :
        /\ c = mem.cache /\ s = Site(c, k)
        /\ st = Both(Word(s.ref, Leaf(k)), Object(Leaf(k), MakeLeaf(k, v)))
        /\ c2 = Store(mem, st).cache
  OBVIOUS
<1>4. PICK c, s, st, c2 :
        /\ c = mem.cache /\ s = Site(c, k)
        /\ st = Both(Word(s.ref, Leaf(k)), Object(Leaf(k), MakeLeaf(k, v)))
        /\ c2 = Store(mem, st).cache
  BY <1>3
<1>5. s.n = NULL /\ Build("Insert", k, v, st, s.ref, {})
  BY <1>4 DEF InsertLeaf
<1>6. Wrote(c, c2, st) /\ pessimistic \in BOOLEAN /\ S \subseteq INodes \cup Leaves
      /\ Branching(c, S) /\ \E dep, rep : Shape(pessimistic, c, S, dep, rep)
  BY <1>1, <1>2, <1>4, Stores
<1>7. PICK dep, rep : Shape(pessimistic, c, S, dep, rep)
  BY <1>6
<1>8. /\ Tree(pessimistic, c2, S \cup {Leaf(k)})
      /\ Grown(c, c2, S, S \cup {Leaf(k)}, k, v, s.ref, st)
      /\ Leaf(k) \notin S /\ Leaf(k) \in Leaves
  BY <1>4, <1>5, <1>6, <1>7, LeafGrown
<1> DEFINE S2 == S \cup {Leaf(k)}
<1>9. {} = (S \ S2) \cap INodes /\ used' = (S \cup S2) \cap INodes
  BY <1>1, <1>2, <1>6, <1>8, Objects DEF Idle
<1>10. Tree(pessimistic, c2, S2) /\ Grown(mem.cache, c2, S, S2, k, v, s.ref, st)
  BY <1>4, <1>8
<1> HIDE DEF S2
<1> QED BY <1>1, <1>2, <1>4, <1>5, <1>9, <1>10, BeginStep

\* Update (art_lp.c 403 to 413).
LEMMA StepUpdate ==
  ASSUME IInv, RInv, NEW k \in Keys, NEW v \in Values, Update(k, v)
  PROVE  RInv' /\ MapStep
<1>1. pc = "idle" /\ used' = used /\ pessimistic' = pessimistic
  BY DEF Update
<1>2. PICK S : Trees(S, S) /\ Idle(S, S)
  BY <1>1, AtRest
<1>3. \E c, s, st, c2 :
        /\ c = mem.cache /\ s = Site(c, k)
        /\ st = Word(<<s.n, VALUE>>, v)
        /\ c2 = Store(mem, st).cache
  OBVIOUS
<1>4. PICK c, s, st, c2 :
        /\ c = mem.cache /\ s = Site(c, k)
        /\ st = Word(<<s.n, VALUE>>, v)
        /\ c2 = Store(mem, st).cache
  BY <1>3
<1>5. s.n = Leaf(k) /\ Build("Update", k, v, st, <<Leaf(k), VALUE>>, {})
  BY <1>4 DEF Update
<1>6. Wrote(c, c2, st) /\ pessimistic \in BOOLEAN /\ S \subseteq INodes \cup Leaves
      /\ Branching(c, S) /\ \E dep, rep : Shape(pessimistic, c, S, dep, rep)
  BY <1>1, <1>2, <1>4, Stores
<1>7. PICK dep, rep : Shape(pessimistic, c, S, dep, rep)
  BY <1>6
<1>8. Leaf(k) \in S
  <2>1. s.n \in S \cup {NULL}
    BY <1>4, <1>6, <1>7, SiteIs
  <2>2. Leaf(k) # NULL
    BY Objects
  <2> QED BY <1>5, <2>1, <2>2
<1>9. Tree(pessimistic, c2, S) /\ Grown(c, c2, S, S, k, v, <<Leaf(k), VALUE>>, st)
  <2>1. st = Word(<<Leaf(k), VALUE>>, v)
    BY <1>4, <1>5
  <2> QED BY <1>6, <1>7, <1>8, <2>1, ValueGrown
<1>10. {} = (S \ S) \cap INodes /\ used' = (S \cup S) \cap INodes
  BY <1>1, <1>2 DEF Idle
<1>11. Grown(mem.cache, c2, S, S, k, v, <<Leaf(k), VALUE>>, st)
  BY <1>4, <1>9
<1> QED BY <1>1, <1>2, <1>4, <1>5, <1>9, <1>10, <1>11, BeginStep

\* InsertBeside (art_lp.c 415 to 435).
LEMMA StepInsertBeside ==
  ASSUME IInv, RInv, NEW k \in Keys, NEW v \in Values, InsertBeside(k, v)
  PROVE  RInv' /\ MapStep
<1>1. pc = "idle" /\ pessimistic' = pessimistic
  BY DEF InsertBeside
<1>2. PICK S : Trees(S, S) /\ Idle(S, S)
  BY <1>1, AtRest
<1>3. \E c, s, j, len, n, x, st, c2 :
        /\ c = mem.cache /\ s = Site(c, k) /\ j = c[s.n][KEY] /\ len = longest_common_prefix(j, k, s.depth)
        /\ n = Fresh(used)
        /\ x = NewNode(Digits(k, s.depth, len), Both(Word(get_index(j, s.depth + len), s.n),
                                                     Word(get_index(k, s.depth + len), Leaf(k))))
        /\ st = Both(Word(s.ref, n), Both(Object(n, x), Object(Leaf(k), MakeLeaf(k, v))))
        /\ c2 = Store(mem, st).cache
  OBVIOUS
<1>4. PICK c, s, j, len, n, x, st, c2 :
        /\ c = mem.cache /\ s = Site(c, k) /\ j = c[s.n][KEY] /\ len = longest_common_prefix(j, k, s.depth)
        /\ n = Fresh(used)
        /\ x = NewNode(Digits(k, s.depth, len), Both(Word(get_index(j, s.depth + len), s.n),
                                                     Word(get_index(k, s.depth + len), Leaf(k))))
        /\ st = Both(Word(s.ref, n), Both(Object(n, x), Object(Leaf(k), MakeLeaf(k, v))))
        /\ c2 = Store(mem, st).cache
  BY <1>3
<1>5. /\ s.n \in Leaves /\ j # k /\ used # INodes /\ Build("Insert", k, v, st, s.ref, {})
      /\ used' = used \cup {n}
  BY <1>4 DEF InsertBeside
<1>6. Wrote(c, c2, st) /\ pessimistic \in BOOLEAN /\ S \subseteq INodes \cup Leaves
      /\ Branching(c, S) /\ \E dep, rep : Shape(pessimistic, c, S, dep, rep)
  <2>1. c = mem.cache /\ c2 = Store(mem, st).cache
    BY <1>4
  <2> QED BY <1>1, <1>2, <2>1, Stores
<1>7. PICK dep, rep : Shape(pessimistic, c, S, dep, rep)
  BY <1>6
<1>8. n \in INodes \ S
  <2>1. used = S \cap INodes
    BY <1>2 DEF Idle
  <2>2. Fresh(used) \in INodes \ used
    BY <1>5, <2>1 DEF Fresh
  <2> QED BY <1>4, <2>1, <2>2
<1>9. /\ Tree(pessimistic, c2, S \cup {n, Leaf(k)})
      /\ Grown(c, c2, S, S \cup {n, Leaf(k)}, k, v, s.ref, st)
      /\ Leaf(k) \notin S /\ Leaf(k) \in Leaves
  <2>1. Beside(c, k, v, s, j, len, n, x, st)
    BY <1>4, <1>5 DEF Beside
  <2> QED BY <1>6, <1>7, <1>8, <2>1, BesideGrown
<1> DEFINE S2 == S \cup {n, Leaf(k)}
<1>10. {} = (S \ S2) \cap INodes /\ used' = (S \cup S2) \cap INodes
  BY <1>2, <1>5, <1>8, <1>9, Objects DEF Idle
<1>11. Tree(pessimistic, c2, S2) /\ Grown(mem.cache, c2, S, S2, k, v, s.ref, st)
  BY <1>4, <1>9
<1>12. c2 = Store(mem, st).cache
  BY <1>4
<1> HIDE DEF S2
<1> QED BY <1>1, <1>2, <1>12, <1>5, <1>10, <1>11, BeginStep

\* Two free nodes.
LEMMA TwoFresh ==
  ASSUME NEW taken, taken \subseteq INodes, Cardinality(INodes \ taken) >= 2,
         NEW n, n = Fresh(taken), NEW y, y = Fresh(taken \cup {n})
  PROVE  n \in INodes \ taken /\ y \in INodes \ taken /\ y # n
<1> DEFINE F == INodes \ taken
<1>1. IsFiniteSet(INodes)
  BY LazyPathAssumption, FS_Interval DEF INodes
<1>2. IsFiniteSet(F)
  BY <1>1, FS_Subset
<1>3. F # {}
  BY FS_EmptySet
<1>4. n \in F
  BY <1>3 DEF Fresh
<1>5. Cardinality(F \ {n}) = Cardinality(F) - 1
  BY <1>2, <1>4, FS_RemoveElement
<1>6. F \ {n} # {}
  <2>1. Cardinality(F) \in Nat
    BY <1>2, FS_CardinalityType
  <2>2. Cardinality(F \ {n}) # 0
    BY <1>5, <2>1
  <2> QED BY <2>2, FS_EmptySet
<1>7. y \in INodes \ (taken \cup {n})
  BY <1>6 DEF Fresh
<1> QED BY <1>4, <1>7

\* SplitPrefix (art_lp.c 438 to 488).
LEMMA StepSplitPrefix ==
  ASSUME IInv, RInv, NEW k \in Keys, NEW v \in Values, SplitPrefix(k, v)
  PROVE  RInv' /\ MapStep
<1>1. pc = "idle" /\ pessimistic' = pessimistic
  BY DEF SplitPrefix
<1>2. PICK S : Trees(S, S) /\ Idle(S, S)
  BY <1>1, AtRest
<1>3. \E c, s, diff, path, n, y, x, z, st, c2 :
        /\ c = mem.cache /\ s = Site(c, k)
        /\ diff = prefix_mismatch(c, s.n, k, s.depth)
        /\ path = IF pessimistic THEN c[s.n][HDR].partial
                  ELSE Digits(c[minimum(c, s.n)][KEY], s.depth, c[s.n][HDR].partial_len)
        /\ n = Fresh(used) /\ y = Fresh(used \cup {n})
        /\ x = NewNode(SubSeq(path, 1, diff), Both(Word(path[diff + 1], y), Word(get_index(k, s.depth + diff), Leaf(k))))
        /\ z = [c[s.n] EXCEPT ![HDR] = Header(Rest(path, diff))]
        /\ st = Both(Word(s.ref, n), Both(Object(n, x), Both(Object(y, z), Object(Leaf(k), MakeLeaf(k, v)))))
        /\ c2 = Store(mem, st).cache
  OBVIOUS
<1>4. PICK c, s, diff, path, n, y, x, z, st, c2 :
        /\ c = mem.cache /\ s = Site(c, k)
        /\ diff = prefix_mismatch(c, s.n, k, s.depth)
        /\ path = IF pessimistic THEN c[s.n][HDR].partial
                  ELSE Digits(c[minimum(c, s.n)][KEY], s.depth, c[s.n][HDR].partial_len)
        /\ n = Fresh(used) /\ y = Fresh(used \cup {n})
        /\ x = NewNode(SubSeq(path, 1, diff), Both(Word(path[diff + 1], y), Word(get_index(k, s.depth + diff), Leaf(k))))
        /\ z = [c[s.n] EXCEPT ![HDR] = Header(Rest(path, diff))]
        /\ st = Both(Word(s.ref, n), Both(Object(n, x), Both(Object(y, z), Object(Leaf(k), MakeLeaf(k, v)))))
        /\ c2 = Store(mem, st).cache
  BY <1>3
<1>5. /\ s.n \in INodes /\ Cardinality(INodes \ used) >= 2 /\ Build("Insert", k, v, st, s.ref, {s.n})
      /\ used' = used \cup {n, y}
  BY <1>4 DEF SplitPrefix
<1>6. Wrote(c, c2, st) /\ pessimistic \in BOOLEAN /\ Framed(c) /\ S \subseteq INodes \cup Leaves
      /\ Branching(c, S) /\ \E dep, rep : Shape(pessimistic, c, S, dep, rep)
  <2>1. c = mem.cache /\ c2 = Store(mem, st).cache
    BY <1>4
  <2> QED BY <1>1, <1>2, <2>1, Stores
<1>7. PICK dep, rep : Shape(pessimistic, c, S, dep, rep)
  BY <1>6
<1>8. n \in INodes \ S /\ y \in INodes \ S /\ y # n
  <2>1. \E taken : taken = used
    OBVIOUS
  <2>2. PICK taken : taken = used
    BY <2>1
  <2>3. taken = S \cap INodes
    BY <1>2, <2>2 DEF Idle
  <2>4. n = Fresh(taken) /\ y = Fresh(taken \cup {n}) /\ Cardinality(INodes \ taken) >= 2
    BY <1>4, <1>5, <2>2
  <2>5. n \in INodes \ taken /\ y \in INodes \ taken /\ y # n
    BY <2>3, <2>4, TwoFresh
  <2> QED BY <2>3, <2>5
<1>9. Splitting(c, k, v, s, diff, path, n, y, x, z, st)
  <2>1. DOMAIN c[s.n] = 0 .. FAN
    BY <1>5, <1>6, FieldsAre DEF Framed
  <2> QED BY <1>4, <1>5, <2>1 DEF Splitting
<1>10. c2 = Store(mem, st).cache /\ c = mem.cache
  BY <1>4
<1>11. /\ Tree(pessimistic, c2, ((S \ {s.n}) \cup {n, y}) \cup {Leaf(k)})
       /\ Grown(c, c2, S, ((S \ {s.n}) \cup {n, y}) \cup {Leaf(k)}, k, v, s.ref, st)
       /\ Leaf(k) \notin S /\ s.n \in S
  BY <1>6, <1>7, <1>8, <1>9, SplitGrown
<1> DEFINE S2 == ((S \ {s.n}) \cup {n, y}) \cup {Leaf(k)}
<1>12. {s.n} = (S \ S2) \cap INodes /\ used' = (S \cup S2) \cap INodes
  <2>1. Leaf(k) \notin INodes
    BY Objects
  <2>2. used = S \cap INodes
    BY <1>2 DEF Idle
  <2>3. s.n # n /\ s.n # y /\ s.n # Leaf(k)
    BY <1>5, <1>8, <1>11, <2>1
  <2> QED BY <1>5, <1>8, <1>11, <2>1, <2>2, <2>3
<1>13. Tree(pessimistic, c2, S2) /\ Grown(mem.cache, c2, S, S2, k, v, s.ref, st)
  BY <1>10, <1>11
<1>14. Build("Insert", k, v, st, s.ref, {s.n})
  BY <1>5
<1> HIDE DEF S2
<1> QED BY <1>1, <1>2, <1>10, <1>12, <1>13, <1>14, BeginStep

\* A write-back of lines other than the pointer's does not change the map.
LEMMA WriteStep ==
  ASSUME IInv, NEW S, NEW S2, Trees(S, S2), Begun(S, S2), pc' \in {"flush", "publish"},
         op' = op /\ at' = at /\ used' = used /\ pessimistic' = pessimistic,
         NEW K, at.ref \notin K, NEW f, mem' = f, Written(mem, f, K)
  PROVE  RInv' /\ MapStep
<1>1. \E m, p, ref : m = mem /\ p = pessimistic /\ ref = at.ref
  OBVIOUS
<1>2. PICK m, p, ref : m = mem /\ p = pessimistic /\ ref = at.ref
  BY <1>1
<1>3. /\ p \in BOOLEAN /\ Framed(m.cache) /\ Fit(m.cache) /\ Fit(m.nvm)
      /\ Tree(p, m.nvm, S) /\ Tree(p, m.cache, S2) /\ Valued(m.nvm, S) /\ Valued(m.cache, S2)
  BY <1>2 DEF Trees
<1>4. Still(m.cache, m.nvm, S, ref) /\ ref \notin K /\ Written(m, f, K)
  BY <1>2 DEF Begun
<1>5. /\ Tree(p, f.nvm, S) /\ (Valued(m.nvm, S) => Valued(f.nvm, S)) /\ ContentOf(f.nvm) = ContentOf(m.nvm) /\ Fit(f.nvm)
      /\ Still(f.cache, f.nvm, S, ref) /\ f.cache = m.cache /\ Lines(f) = Lines(m)
  BY <1>3, <1>4, WrittenTree
<1>6. Trees(S, S2)'
  BY <1>2, <1>3, <1>5 DEF Trees
<1>7. Begun(S, S2)'
  BY <1>2, <1>5 DEF Begun
<1>8. MapStep
  BY <1>2, <1>5 DEF MapStep
<1> QED BY <1>6, <1>7, <1>8 DEF RInv, Phase

\* The flush of the new objects (art_lp.c 397, 432 to 433, 480 to 482, 503).
LEMMA StepFlush ==
  ASSUME IInv, RInv, Flush
  PROVE  RInv' /\ MapStep
<1>1. PICK S, S2 : Trees(S, S2) /\ Phase(S, S2)
  BY DEF RInv
<1>2. /\ pc = "flush" /\ pc' = "publish" /\ op' = op /\ at' = at /\ used' = used /\ pessimistic' = pessimistic
      /\ mem' = flush_buffer(mem, at.new, FALSE)
  BY DEF Flush
<1>3. Begun(S, S2)
  BY <1>1, <1>2 DEF Phase
<1>4. PICK f, K : f = mem' /\ K = at.new
  OBVIOUS
<1>5. Written(mem, f, K) /\ at.ref \notin K
  <2>1. Sound(mem, Owed)
    BY DEF IInv
  <2>2. \E m, L : m = mem /\ L = Owed
    OBVIOUS
  <2>3. PICK m, L : m = mem /\ L = Owed
    BY <2>2
  <2>4. Written(m, flush_buffer(m, K, FALSE), K)
    BY <2>1, <2>3, FlushWords
  <2> QED BY <1>2, <1>3, <1>4, <2>3, <2>4 DEF Begun
<1> QED BY <1>1, <1>2, <1>3, <1>4, <1>5, WriteStep

\* A line replaced.
LEMMA StepEvict ==
  ASSUME IInv, RInv, Evict
  PROVE  RInv' /\ MapStep
<1>1. PICK S, S2 : Trees(S, S2) /\ Phase(S, S2)
  BY DEF RInv
<1>2. PICK l \in Dirty(mem) \ {at.ref} : mem' = WriteBack(mem, {l})
  BY DEF Evict
<1>3. op' = op /\ at' = at /\ used' = used /\ pessimistic' = pessimistic /\ pc' = pc
  BY DEF Evict
<1>4. pc \in {"flush", "publish"} /\ Begun(S, S2)
  <2>1. pc \notin {"idle", "return", "down"}
    BY <1>2 DEF Dirty, IInv
  <2> QED BY <1>1, <2>1 DEF Phase
<1>5. PICK f : f = mem'
  OBVIOUS
<1>6. Written(mem, f, {l}) /\ at.ref \notin {l}
  <2>1. Sound(mem, Owed)
    BY DEF IInv
  <2>2. \E m, L : m = mem /\ L = Owed
    OBVIOUS
  <2>3. PICK m, L : m = mem /\ L = Owed
    BY <2>2
  <2>4. Written(m, WriteBack(m, {l}), {l})
    BY <2>1, <2>3, WriteBackWords
  <2> QED BY <1>2, <1>5, <2>3, <2>4
<1> QED BY <1>1, <1>3, <1>4, <1>5, <1>6, WriteStep

\* The flush of the pointer or value: the map changes (art_lp.c 398, 411, 434, 483,
\* 504).
LEMMA StepPublish ==
  ASSUME IInv, IInv', RInv, Publish
  PROVE  RInv' /\ MapStep
<1>1. PICK S, S2 : Trees(S, S2) /\ Phase(S, S2)
  BY DEF RInv
<1>2. /\ pc = "publish" /\ pc' = "return" /\ op' = op /\ at' = at /\ used' = used /\ pessimistic' = pessimistic
      /\ mem' = flush_buffer(mem, {at.ref}, TRUE)
  BY DEF Publish
<1>3. Begun(S, S2)
  BY <1>1, <1>2 DEF Phase
<1>4. mem'.nvm = mem'.cache /\ mem'.cache = mem.cache
  <2>1. Sound(mem, {at.ref})
    BY <1>2 DEF IInv, Owed
  <2> QED BY <1>2, <2>1, FencedFlush
<1>5. Trees(S2, S2)'
  BY <1>1, <1>2, <1>4 DEF Trees
<1>6. ContentOf(mem'.nvm) = [ContentOf(mem.nvm) EXCEPT ![op.key] = op.value]
  BY <1>3, <1>4 DEF Begun
<1>7. op \in Map!Ops /\ op.key \in Keys
  BY <1>3 DEF Begun, Map!Ops
<1>8. ContentOf(mem'.nvm)[op.key] = op.value
  BY <1>6, <1>7 DEF ContentOf
<1>9. Done(S2, S2)'
  <2>1. Lines(mem') = Lines(mem)
    BY <1>4 DEF Lines
  <2>2. at.freed \subseteq used /\ used \subseteq INodes /\ used \ at.freed = S2 \cap INodes
    BY <1>3 DEF Begun
  <2> QED BY <1>2, <1>3, <1>7, <1>8, <2>1, <2>2 DEF Done, Begun
<1>10. RInv'
  BY <1>2, <1>5, <1>9 DEF RInv, Phase
<1>11. MapStep
  <2>1. Map!Take
    BY <1>2, <1>6, <1>7 DEF Map!Take, Map!Effect, MediumContent, ContentOf
  <2> QED BY <2>1 DEF MapStep, Map!Next
<1> QED BY <1>10, <1>11

\* free(n) and back to the caller (art_lp.c 486).
LEMMA StepReturn ==
  ASSUME IInv, RInv, Return
  PROVE  RInv' /\ MapStep
<1>1. PICK S, S2 : Trees(S, S2) /\ Phase(S, S2)
  BY DEF RInv
<1>2. /\ pc = "return" /\ pc' = "idle" /\ op' = NoOp /\ at' = NoLocals /\ used' = used \ at.freed
      /\ pessimistic' = pessimistic /\ mem' = mem
  BY DEF Return
<1>3. Done(S, S2)
  BY <1>1, <1>2 DEF Phase
<1>4. RInv'
  <2>1. Trees(S, S2)'
    BY <1>1, <1>2 DEF Trees
  <2>2. Idle(S, S2)'
    BY <1>2, <1>3 DEF Idle, Done
  <2> QED BY <1>2, <2>1, <2>2 DEF RInv, Phase
<1>5. MapStep
  <2>1. ContentOf(mem.nvm) = [ContentOf(mem.nvm) EXCEPT ![op.key] = op.value]
    BY <1>3 DEF Done, ContentOf
  <2>2. Map!Return
    BY <1>2, <1>3, <2>1 DEF Map!Return, Map!Effect, Map!NoOp, NoOp, MediumContent, ContentOf, Done
  <2> QED BY <2>2 DEF MapStep, Map!Next
<1> QED BY <1>4, <1>5

\* Power lost: the medium's tree is what is left.
LEMMA StepPowerLost ==
  ASSUME IInv, RInv, PowerLost
  PROVE  RInv' /\ MapStep
<1>1. PICK S, S2 : Trees(S, S2) /\ Phase(S, S2)
  BY DEF RInv
<1>2. /\ pc # "down" /\ pc' = "down" /\ op' = Down /\ at' = NoLocals /\ used' = used
      /\ pessimistic' = pessimistic /\ mem' = PowerLoss(mem)
  BY DEF PowerLost
<1>3. mem'.cache = mem.nvm /\ mem'.nvm = mem.nvm
  BY <1>2 DEF PowerLoss
<1>4. used \subseteq INodes
  BY <1>1, <1>2 DEF Phase, Begun, Idle, Done
<1>5. Framed(mem.nvm)
  BY <1>1 DEF IInv, Sound, Shaped, Trees, Framed
<1>6. Trees(S, S)'
  BY <1>1, <1>2, <1>3, <1>5 DEF Trees
<1>7. Lost(S, S)'
  BY <1>2, <1>4 DEF Lost
<1>8. Map!PowerLoss
  BY <1>2, <1>3 DEF Map!PowerLoss, Down, Map!Down, MediumContent
<1> QED BY <1>2, <1>3, <1>6, <1>7, <1>8 DEF RInv, Phase, MapStep, Map!Next, MediumContent, ContentOf

\* A restart: what the tree holds is in use, nothing else.
LEMMA StepRestart ==
  ASSUME IInv, RInv, Restart
  PROVE  RInv' /\ MapStep
<1>1. PICK S, S2 : Trees(S, S2) /\ Phase(S, S2)
  BY DEF RInv
<1>2. /\ pc = "down" /\ pc' = "idle" /\ op' = NoOp /\ at' = at /\ used' = Reachable(mem.cache)
      /\ pessimistic' = pessimistic /\ mem' = mem
  BY DEF Restart
<1>3. Lost(S, S2) /\ mem.nvm = mem.cache
  BY <1>1, <1>2 DEF Phase, IInv
<1>4. Reachable(mem.nvm) = S \cap INodes
  <2>1. \E p, c : p = pessimistic /\ c = mem.nvm
    OBVIOUS
  <2>2. PICK p, c : p = pessimistic /\ c = mem.nvm
    BY <2>1
  <2>3. p \in BOOLEAN /\ Tree(p, c, S)
    BY <1>1, <2>2 DEF Trees
  <2>4. Reachable(c) = S \cap INodes
    BY <2>3, ReachableIs DEF Tree, Formed
  <2> QED BY <2>2, <2>4
<1>5. Trees(S, S2)'
  BY <1>1, <1>2 DEF Trees
<1>6. Idle(S, S2)'
  BY <1>2, <1>3, <1>4 DEF Idle, Lost
<1>7. Map!Restart
  BY <1>2, <1>3 DEF Map!Restart, Lost, Down, Map!Down, NoOp, Map!NoOp, MediumContent
<1> QED BY <1>2, <1>5, <1>6, <1>7 DEF RInv, Phase, MapStep, Map!Next, MediumContent, ContentOf

\* Formatted memory holds the empty tree.
LEMMA InitState ==
  ASSUME Init
  PROVE  RInv /\ ContentOf(mem.nvm) = [k \in Keys |-> NULL] /\ op = NoOp
<1> DEFINE c == [o \in Objs |-> Blank(o)]
<1>1. /\ mem.cache = c /\ mem.nvm = c /\ pessimistic \in BOOLEAN
      /\ used = {} /\ op = NoOp /\ pc = "idle" /\ at = NoLocals
  BY LazyPathAssumption DEF Init, Formatted, Objs
<1>2. c[0] = [w \in {0} |-> NULL] /\ c[0][0] = NULL
  BY FieldsAre DEF Blank
<1>3. \A m \in Leaves : c[m] = MakeLeaf(NULL, NULL)
  BY FieldsAre, Objects DEF Blank
<1>4. \A n \in INodes : c[n] = NewNode(<<>>, <<>>)
  BY FieldsAre, Objects DEF Blank
<1>5. DOMAIN c = Objs
  OBVIOUS
<1> HIDE DEF c
<1>6. Framed(c)
  <2>1. DOMAIN MakeLeaf(NULL, NULL) = {VALUE, KEY} /\ DOMAIN NewNode(<<>>, <<>>) = 0 .. FAN
    BY DEF MakeLeaf, NewNode
  <2>2. ASSUME NEW o \in Objs PROVE DOMAIN c[o] = Fields(o)
    BY <1>2, <1>3, <1>4, <2>1, FieldsAre DEF Objs
  <2> QED BY <1>5, <2>2 DEF Framed
<1>7. Fit(c)
  <2> SUFFICES ASSUME NEW q \in Objs, NEW u \in Fields(q) PROVE Good(q, u, c[q][u])
    BY DEF Fit
  <2>1. CASE q = 0
    BY <1>2, <2>1, FieldsAre, Objects DEF Good
  <2>2. CASE q \in Leaves
    BY <2>2, Objects DEF Good
  <2>3. CASE q \in INodes
    <3>1. /\ NewNode(<<>>, <<>>)[HDR] = HeaderOf(pessimistic, <<>>)
          /\ \A i \in 0 .. FAN - 1 : NewNode(<<>>, <<>>)[i] = IF i \in DOMAIN <<>> THEN <<>>[i] ELSE NULL
      BY NewNodeIs
    <3>2. HeaderOf(pessimistic, <<>>).partial_len = 0
      BY DEF HeaderOf
    <3>3. c[q][HDR].partial_len \in 0 .. MAX_DEPTH
      BY <1>4, <2>3, <3>1, <3>2, Sizes
    <3>4. \A i \in 0 .. FAN - 1 : c[q][i] = NULL
      BY <1>4, <2>3, <3>1
    <3>5. q # 0 /\ (u = HDR \/ u \in 0 .. FAN - 1)
      BY <2>3, FieldsAre, Objects
    <3> QED BY <3>3, <3>4, <3>5 DEF Good
  <2> QED BY <2>1, <2>2, <2>3 DEF Objs
<1>8. ASSUME NEW p PROVE Shape(p, c, {}, <<>>, <<>>)
  <2>1. Above({}) = {0} /\ \A o \in Above({}) : \A w \in Ways(o) : c[o][w] = NULL
    BY <1>2 DEF Above, Ways
  <2>2. Placed({}, <<>>, <<>>)
    BY DEF Placed
  <2>3. Headed(p, c, {}, <<>>, <<>>) /\ Forked(c, {}) /\ Holding(c, {}, <<>>)
    BY DEF Headed, Forked, Holding
  <2>4. Hanging(c, {}, <<>>, <<>>) /\ Hung(c, {}) /\ Once(c, {})
    BY <2>1 DEF Hanging, Hung, Once
  <2> QED BY <2>2, <2>3, <2>4 DEF Shape
<1>9. Tree(pessimistic, c, {})
  BY <1>8 DEF Tree, Formed, Branching
<1>10. ContentOf(c) = [k \in Keys |-> NULL]
  <2>1. PICK p : p = pessimistic
    OBVIOUS
  <2>2. p \in BOOLEAN /\ Shape(p, c, {}, <<>>, <<>>)
    BY <1>1, <1>8, <2>1
  <2>3. ContentOf(c) = [k \in Keys |-> IF Leaf(k) \in {} THEN c[Leaf(k)][VALUE] ELSE NULL]
    BY <2>2, ContentIs
  <2> QED BY <2>3
<1>11. Trees({}, {}) /\ Idle({}, {})
  BY <1>1, <1>6, <1>7, <1>9 DEF Trees, Idle, Valued
<1> QED BY <1>1, <1>10, <1>11 DEF RInv, Phase

\* Each step keeps RInv, and is a step of the durable map or none.
LEMMA RStep == IInv /\ RInv /\ [Next]_vars => RInv' /\ MapStep
<1> SUFFICES ASSUME IInv, RInv, [Next]_vars PROVE RInv' /\ MapStep
  OBVIOUS
<1>1. IInv'
  BY NextIInv
<1>2. ASSUME NEW a \in Inserts PROVE a[1] \in Keys /\ a[2] \in Values
  BY LazyPathAssumption
<1>3. ASSUME NEW a \in Updates PROVE a[1] \in Keys /\ a[2] \in Values
  BY LazyPathAssumption
<1>4. ASSUME NEW a \in Inserts, InsertLeaf(a[1], a[2]) PROVE RInv' /\ MapStep
  BY <1>2, <1>4, StepInsertLeaf
<1>5. ASSUME NEW a \in Inserts, InsertBeside(a[1], a[2]) PROVE RInv' /\ MapStep
  BY <1>2, <1>5, StepInsertBeside
<1>6. ASSUME NEW a \in Inserts, SplitPrefix(a[1], a[2]) PROVE RInv' /\ MapStep
  BY <1>2, <1>6, StepSplitPrefix
<1>7. ASSUME NEW a \in Updates, Update(a[1], a[2]) PROVE RInv' /\ MapStep
  BY <1>3, <1>7, StepUpdate
<1>8. CASE UNCHANGED vars
  <2>1. PICK S, S2 : Trees(S, S2) /\ Phase(S, S2)
    BY DEF RInv
  <2>2. Trees(S, S2)' /\ Phase(S, S2)'
    BY <1>8, <2>1 DEF vars, Trees, Phase, Begun, Idle, Done, Lost
  <2> QED BY <1>8, <2>2 DEF RInv, MapStep, vars
<1> QED BY <1>1, <1>4, <1>5, <1>6, <1>7, <1>8, StepFlush, StepPublish, StepReturn, StepEvict, StepPowerLost,
          StepRestart DEF Next

\* RInv is an invariant.
LEMMA TreeIsKnown == Spec => [](IInv /\ RInv)
<1>1. Init => IInv /\ RInv
  BY InitIInv, InitState
<1>2. (IInv /\ RInv) /\ [Next]_vars => (IInv /\ RInv)'
  BY NextIInv, RStep
<1> QED BY <1>1, <1>2, PTL DEF Spec

\* Both path-compressed trees are durable maps: whichever way recursive_insert
\* takes (art_lp.c 391 to 505), an insert or update takes effect at the medium all
\* at once, when the word of its pointer or value reaches it, whatever lines went
\* out before and wherever power is lost; a search after a restart finds the value
\* of every insert that returned.
THEOREM Implements == Spec => ImplementsDurableMap
<1>1. Init => Map!Init
  BY InitState, MapIs DEF Map!Init, Map!NoOp, NoOp
<1>2. IInv /\ RInv /\ [Next]_vars => [Map!Next]_(Map!vars)
  BY RStep, MapIs DEF MapStep, Map!vars, MediumContent, ContentOf
<1> QED BY <1>1, <1>2, TreeIsKnown, PTL DEF Spec, ImplementsDurableMap, Map!Spec

\* In the cache and on the medium every pointer leads to a node or a leaf and no
\* path is longer than partial[MAX_PREFIX_LEN] (art_lp.h 44 to 58); what is freed
\* was allocated.
THEOREM Typed == Spec => []TypeOK
<1>1. RInv => TypeOK
  <2> SUFFICES ASSUME RInv PROVE TypeOK
    OBVIOUS
  <2>1. PICK S, S2 : Trees(S, S2) /\ Phase(S, S2)
    BY DEF RInv
  <2>2. used \subseteq INodes /\ op \in Map!Ops \cup {NoOp, Down}
    BY <2>1 DEF Phase, Begun, Idle, Done, Lost
  <2>3. at.new \subseteq Lines(mem) /\ at.ref \in Lines(mem) /\ at.freed \subseteq used
    <3>1. <<0, 0>> \in Lines(mem)
      <4>1. 0 \in DOMAIN mem.cache /\ 0 \in DOMAIN mem.cache[0]
        BY <2>1, FieldsAre DEF Trees, Framed
      <4> QED BY <4>1 DEF Lines
    <3>2. CASE at = NoLocals
      BY <3>1, <3>2 DEF NoLocals, Root
    <3>3. CASE at # NoLocals
      BY <2>1, <3>3 DEF Phase, Begun, Idle, Done, Lost
    <3> QED BY <3>2, <3>3
  <2>4. ASSUME NEW c, Fit(c)
        PROVE  /\ c[0][0] \in INodes \cup Leaves \cup {NULL}
               /\ \A n \in INodes : /\ c[n][HDR].partial_len \in 0 .. MAX_DEPTH
                                    /\ \A i \in 0 .. FAN - 1 : c[n][i] \in INodes \cup Leaves \cup {NULL}
    <3>1. Good(0, 0, c[0][0])
      BY <2>4, FieldsAre DEF Fit
    <3>2. ASSUME NEW n \in INodes
          PROVE  /\ c[n][HDR].partial_len \in 0 .. MAX_DEPTH
                 /\ \A i \in 0 .. FAN - 1 : c[n][i] \in INodes \cup Leaves \cup {NULL}
      <4>1. n \in Objs /\ HDR \in Fields(n) /\ \A i \in 0 .. FAN - 1 : i \in Fields(n) /\ i # HDR
        BY FieldsAre
      <4>2. Good(n, HDR, c[n][HDR]) /\ \A i \in 0 .. FAN - 1 : Good(n, i, c[n][i])
        BY <2>4, <4>1 DEF Fit
      <4> QED BY <4>1, <4>2 DEF Good
    <3> QED BY <3>1, <3>2 DEF Good
  <2>5. Fit(mem.cache) /\ Fit(mem.nvm)
    BY <2>1 DEF Trees
  <2> QED BY <2>2, <2>3, <2>4, <2>5 DEF TypeOK
<1> QED BY <1>1, TreeIsKnown, PTL

\* Between operations the allocator's nodes are those the tree holds: the node that
\* a split copied is freed once (art_lp.c 486), when the medium no longer leads to
\* it, and no other node is lost or freed.
THEOREM NoNodeLost == Spec => []NodesAccounted
<1>1. IInv /\ RInv => NodesAccounted
  <2> SUFFICES ASSUME IInv, RInv PROVE NodesAccounted
    OBVIOUS
  <2>1. PICK S, S2 : Trees(S, S2) /\ Phase(S, S2)
    BY DEF RInv
  <2>2. PICK p, c, n : p = pessimistic /\ c = mem.cache /\ n = mem.nvm
    OBVIOUS
  <2>3. Tree(p, n, S) /\ Tree(p, c, S2)
    BY <2>1, <2>2 DEF Trees
  <2>4. Reachable(n) = S \cap INodes /\ Reachable(c) = S2 \cap INodes
    BY <2>3, ReachableIs DEF Tree, Formed
  <2>5. Reachable(mem.nvm) = S \cap INodes /\ Reachable(mem.cache) = S2 \cap INodes
    BY <2>2, <2>4
  <2>6. pc \in {"idle", "return", "down"} => Reachable(mem.cache) = Reachable(mem.nvm)
    BY DEF IInv
  <2>7. CASE pc \in {"flush", "publish"} /\ Begun(S, S2)
    BY <2>5, <2>7 DEF NodesAccounted, Begun
  <2>8. CASE pc = "idle" /\ Idle(S, S2)
    BY <2>5, <2>6, <2>8 DEF NodesAccounted, Idle
  <2>9. CASE pc = "return" /\ Done(S, S2)
    BY <2>5, <2>6, <2>9 DEF NodesAccounted, Done
  <2>10. CASE pc = "down" /\ Lost(S, S2)
    BY <2>10 DEF NodesAccounted
  <2> QED BY <2>1, <2>7, <2>8, <2>9, <2>10 DEF Phase
<1> QED BY <1>1, TreeIsKnown, PTL

-----------------------------------------------------------------------------
(* Compressed paths *)

\* Inner node n where it is found, and its path.
Place(dep, n) == [n |-> n, depth |-> dep[n]]
PathTo(c, dep, rep, n) == Digits(rep[n], 0, End(c, dep, n))

\* Nodes found where they are lead to nodes found where they are.
LEMMA ChildrenIs ==
  ASSUME NEW p, NEW c, NEW S, NEW dep, NEW rep, Shape(p, c, S, dep, rep), NEW N,
         N \subseteq {Place(dep, n) : n \in S \cap INodes}
  PROVE  Inner(Children(c, N)) \subseteq {Place(dep, n) : n \in S \cap INodes}
<1> SUFFICES ASSUME NEW s \in N, NEW i \in 0 .. FAN - 1, c[s.n][i] \in INodes
             PROVE  [n |-> c[s.n][i], depth |-> s.depth + c[s.n][HDR].partial_len + 1] \in {Place(dep, n) : n \in S \cap INodes}
  BY DEF Inner, Children
<1>1. PICK n \in S \cap INodes : s = Place(dep, n)
  OBVIOUS
<1>2. s.n = n /\ s.depth = dep[n]
  BY <1>1 DEF Place
<1>3. c[n][i] \in S /\ dep[c[n][i]] = End(c, dep, n) + 1
  <2>1. c[n][i] # NULL
    BY <1>2, Objects
  <2> QED BY <2>1, ChildIs
<1>4. [n |-> c[s.n][i], depth |-> s.depth + c[s.n][HDR].partial_len + 1] = Place(dep, c[n][i])
  BY <1>2, <1>3 DEF Place, End
<1> QED BY <1>2, <1>3, <1>4

\* And what a node found leads to is found.
LEMMA PlaceFound ==
  ASSUME NEW p, NEW c, NEW S, NEW dep, NEW rep, Shape(p, c, S, dep, rep),
         NEW n \in S \cap INodes, NEW i \in 0 .. FAN - 1, NEW m \in INodes, c[n][i] = m,
         NEW N, Place(dep, n) \in N
  PROVE  Place(dep, m) \in Inner(Children(c, N))
<1>1. dep[m] = dep[n] + c[n][HDR].partial_len + 1
  <2>1. c[n][i] # NULL
    BY Objects
  <2> QED BY <2>1, ChildIs DEF End
<1> DEFINE s == Place(dep, n)
<1>2. s \in N /\ s.n = n /\ s.depth = dep[n]
  BY DEF Place
<1> HIDE DEF s
<1>3. Place(dep, m) = [n |-> c[s.n][i], depth |-> s.depth + c[s.n][HDR].partial_len + 1]
  BY <1>1, <1>2 DEF Place
<1>4. Place(dep, m) \in Children(c, N)
  BY <1>2, <1>3 DEF Children
<1>5. Place(dep, m).n = m
  BY DEF Place
<1> QED BY <1>4, <1>5 DEF Inner

\* Level by level, Paths finds each inner node where it is.
LEMMA PathsIs ==
  ASSUME NEW p, NEW c, NEW S, NEW dep, NEW rep, Shape(p, c, S, dep, rep)
  PROVE  Paths(c) = {<<dep[n], PathTo(c, dep, rep, n)>> : n \in S \cap INodes}
<1> DEFINE I == S \cap INodes
           P == {Place(dep, n) : n \in I}
           D == SUBSET P
           f == [N \in D |-> Inner(Children(c, N))]
           x == Inner({[n |-> c[0][0], depth |-> 0]})
<1>1. x \in D
  <2> SUFFICES ASSUME c[0][0] \in INodes PROVE [n |-> c[0][0], depth |-> 0] \in P
    BY DEF Inner
  <2>1. c[0][0] \in I /\ dep[c[0][0]] = 0
    BY RootIs, Objects
  <2> QED BY <2>1 DEF Place
<1>2. \A N \in D : f[N] = Inner(Children(c, N)) /\ f[N] \in D
  <2> SUFFICES ASSUME NEW N \in D PROVE Inner(Children(c, N)) \in D
    OBVIOUS
  <2> QED BY ChildrenIs
<1> HIDE DEF f, x, D
<1>3. MAX_HEIGHT \in Nat /\ MAX_HEIGHT = MAX_DEPTH + 1 /\ MAX_DEPTH \in Nat
  BY Sizes
<1>4. \E g : g = [j \in 0 .. MAX_HEIGHT |-> IF j = 0 THEN x ELSE Inner(Children(c, g[j - 1]))]
  <2>1. PICK g : Loop(f, x, MAX_HEIGHT, g)
    BY <1>3, Repeated
  <2>2. /\ g[0] = x /\ g = [j \in 0 .. MAX_HEIGHT |-> g[j]]
        /\ \A j \in 0 .. MAX_HEIGHT : g[j] \in D
        /\ \A j \in 0 .. MAX_HEIGHT : j # 0 => g[j] = f[g[j - 1]]
    <3>1. MAX_HEIGHT \in Nat /\ \A N \in D : f[N] \in D
      BY <1>2, <1>3
    <3> QED BY <1>1, <2>1, <3>1, LoopIn
  <2>3. ASSUME NEW j \in 0 .. MAX_HEIGHT PROVE g[j] = IF j = 0 THEN x ELSE Inner(Children(c, g[j - 1]))
    <3>1. CASE j = 0
      BY <2>2, <3>1
    <3>2. CASE j # 0
      <4>1. j - 1 \in 0 .. MAX_HEIGHT
        BY <1>3, <3>2
      <4> QED BY <1>2, <2>2, <3>2, <4>1
    <3> QED BY <3>1, <3>2
  <2> QED BY <2>2, <2>3
<1> DEFINE g == CHOOSE g : g = [j \in 0 .. MAX_HEIGHT |-> IF j = 0 THEN x ELSE Inner(Children(c, g[j - 1]))]
<1>5. /\ g = [j \in 0 .. MAX_HEIGHT |-> IF j = 0 THEN x ELSE Inner(Children(c, g[j - 1]))]
      /\ Paths(c) = {<<s.depth, Digits(c[minimum(c, s.n)][KEY], 0, s.depth + c[s.n][HDR].partial_len)>> :
                       s \in UNION {g[j] : j \in 0 .. MAX_HEIGHT}}
  <2>1. g = [j \in 0 .. MAX_HEIGHT |-> IF j = 0 THEN x ELSE Inner(Children(c, g[j - 1]))]
    <3> HIDE DEF x
    <3> QED BY <1>4
  <2>2. Paths(c) = {<<s.depth, Digits(c[minimum(c, s.n)][KEY], 0, s.depth + c[s.n][HDR].partial_len)>> :
                       s \in UNION {g[j] : j \in 0 .. MAX_HEIGHT}}
    BY DEF Paths, g, x
  <2> QED BY <2>1, <2>2
<1> HIDE DEF g
<1>6. g[0] = x
  BY <1>3, <1>5
<1>7. ASSUME NEW j \in 0 .. MAX_HEIGHT - 1 PROVE j + 1 \in 0 .. MAX_HEIGHT /\ g[j + 1] = Inner(Children(c, g[j]))
  <2>1. j + 1 \in 0 .. MAX_HEIGHT /\ j + 1 # 0 /\ (j + 1) - 1 = j
    BY <1>3
  <2> QED BY <1>5, <2>1
<1>8. \A j \in 0 .. MAX_HEIGHT : g[j] \in D
  <2> DEFINE T == {j \in 0 .. MAX_HEIGHT : g[j] \in D}
  <2>1. 0 \in T
    BY <1>1, <1>3, <1>6
  <2>2. ASSUME NEW j \in 0 .. MAX_HEIGHT - 1, j \in T PROVE j + 1 \in T
    BY <1>2, <1>7, <2>2
  <2> HIDE DEF T
  <2>3. \A j \in 0 .. MAX_HEIGHT : j \in T
    BY <1>3, <2>1, <2>2, Ascent
  <2> QED BY <2>3 DEF T
<1> DEFINE At(m) == \E j \in 0 .. dep[m] : Place(dep, m) \in g[j]
<1>9. \A m \in I : dep[m] \in 0 .. MAX_DEPTH
  BY InnerNode
<1>10. \A m \in I : At(m)
  <2> DEFINE U == {m \in I : ~At(m)}
             V == {dep[m] : m \in U}
  <2> SUFFICES ASSUME U # {} PROVE FALSE
    OBVIOUS
  <2>1. V \subseteq Nat /\ V # {}
    BY <1>9
  <2> HIDE DEF V
  <2>2. PICK d \in V : \A e \in V : d <= e
    BY <2>1, LeastOf
  <2>3. PICK m \in U : d = dep[m]
    BY DEF V
  <2>4. \A n \in U : dep[n] \in V
    BY DEF V
  <2>5. PICK o \in Above(S) : \E w \in Ways(o) : c[o][w] = m
    BY <2>3 DEF Shape, Hung
  <2>6. PICK w \in Ways(o) : c[o][w] = m
    BY <2>5
  <2>7. dep[m] \in 0 .. MAX_DEPTH /\ m \in INodes /\ m # NULL /\ ~At(m)
    BY <1>9, <2>3, Objects
  <2>8. CASE o = 0
    <3>1. c[0][0] = m /\ dep[m] = 0
      BY <2>6, <2>7, <2>8, RootIs DEF Ways
    <3>2. Place(dep, m) \in g[0]
      BY <1>6, <2>7, <3>1 DEF x, Inner, Place
    <3>3. 0 \in 0 .. dep[m]
      BY <2>7
    <3> QED BY <2>7, <3>2, <3>3
  <2>9. CASE o # 0
    <3>1. o \in I /\ w \in 0 .. FAN - 1
      BY <2>9 DEF Above, Ways
    <3>2. dep[m] = End(c, dep, o) + 1
      BY <2>6, <2>7, <3>1, ChildIs
    <3>3. dep[o] \in 0 .. MAX_DEPTH /\ dep[o] < dep[m]
      BY <1>9, <2>9, <3>1, <3>2, LevelIs, InnerNode
    <3>4. At(o)
      <4>1. CASE o \in U
        <5>1. dep[o] \in V
          BY <2>4, <4>1
        <5> QED BY <1>3, <2>2, <2>3, <2>7, <3>3, <5>1
      <4> QED BY <3>1, <4>1
    <3>5. PICK j \in 0 .. dep[o] : Place(dep, o) \in g[j]
      BY <3>4
    <3>6. j \in 0 .. MAX_HEIGHT - 1 /\ j + 1 \in 0 .. dep[m]
      BY <1>3, <2>7, <3>3
    <3>7. Place(dep, m) \in g[j + 1]
      <4>1. Place(dep, m) \in Inner(Children(c, g[j]))
        BY <2>6, <2>7, <3>1, <3>5, PlaceFound
      <4> QED BY <1>7, <3>6, <4>1
    <3> QED BY <2>7, <3>6, <3>7
  <2> QED BY <2>8, <2>9
<1>11. \A m \in I : \E j \in 0 .. MAX_HEIGHT : Place(dep, m) \in g[j]
  <2> SUFFICES ASSUME NEW m \in I PROVE \E j \in 0 .. MAX_HEIGHT : Place(dep, m) \in g[j]
    OBVIOUS
  <2>1. PICK j \in 0 .. dep[m] : Place(dep, m) \in g[j]
    BY <1>10
  <2>2. j \in 0 .. MAX_HEIGHT
    BY <1>3, <1>9, <2>1
  <2> QED BY <2>1, <2>2
<1>12. UNION {g[j] : j \in 0 .. MAX_HEIGHT} = P
  <2> HIDE DEF I
  <2> QED BY <1>8, <1>11 DEF D
<1> DEFINE F(s) == <<s.depth, Digits(c[minimum(c, s.n)][KEY], 0, s.depth + c[s.n][HDR].partial_len)>>
<1>13. ASSUME NEW n \in I PROVE F(Place(dep, n)) = <<dep[n], PathTo(c, dep, rep, n)>>
  <2>1. Place(dep, n).n = n /\ Place(dep, n).depth = dep[n]
    BY DEF Place
  <2>2. /\ c[minimum(c, n)][KEY] \in Keys /\ Same(c[minimum(c, n)][KEY], rep[n], End(c, dep, n))
        /\ rep[n] \in Keys /\ End(c, dep, n) \in 0 .. MAX_DEPTH
    BY MinimumIs, InnerNode
  <2>3. ASSUME NEW j \in Keys, NEW r \in Keys, NEW e \in 0 .. MAX_DEPTH, Same(j, r, e)
        PROVE  Digits(j, 0, e) = Digits(r, 0, e)
    <3>1. 0 + e = e /\ e \in Nat
      OBVIOUS
    <3> QED BY <2>3, <3>1, DigitsSame
  <2>4. Digits(c[minimum(c, n)][KEY], 0, End(c, dep, n)) = Digits(rep[n], 0, End(c, dep, n))
    BY <2>2, <2>3
  <2> QED BY <2>1, <2>4 DEF End, PathTo
<1>14. Paths(c) = {F(s) : s \in P}
  BY <1>5, <1>12
<1>15. {F(s) : s \in P} = {F(Place(dep, n)) : n \in I}
  OBVIOUS
<1> HIDE DEF F, P, I
<1>16. {F(Place(dep, n)) : n \in I} = {<<dep[n], PathTo(c, dep, rep, n)>> : n \in I}
  BY <1>13
<1> QED BY <1>14, <1>15, <1>16 DEF I

-----------------------------------------------------------------------------
(* Forks *)

\* Where keys part: the paths of Forks, and how deep the node of path f hangs.
Partings(K) ==
  {LongestCommonPrefix({Digits(pair[1], 0, MAX_HEIGHT), Digits(pair[2], 0, MAX_HEIGHT)}) :
     pair \in {p \in K \X K : p[1] < p[2]}}
LengthsAbove(P, f) == {Len(g) : g \in {g \in P : IsStrictPrefix(g, f)}}
ForkDepth(P, f) ==
  IF LengthsAbove(P, f) = {} THEN 0
  ELSE 1 + (CHOOSE d \in LengthsAbove(P, f) : \A e \in LengthsAbove(P, f) : e <= d)

\* Forks, in these terms.
LEMMA ForksIs ==
  ASSUME NEW K
  PROVE  Forks(K) = {<<ForkDepth(Partings(K), f), f>> : f \in Partings(K)}
BY DEF Forks, Partings, ForkDepth, LengthsAbove

\* Digit strings of two keys: when they are the same, and when one begins the other.
LEMMA DigitsEqual ==
  ASSUME NEW j \in Keys, NEW k \in Keys, NEW a \in 0 .. MAX_HEIGHT, NEW b \in 0 .. MAX_HEIGHT
  PROVE  Digits(j, 0, a) = Digits(k, 0, b) <=> a = b /\ Same(j, k, a)
<1>1. a \in Nat /\ b \in Nat /\ 0 + a <= MAX_HEIGHT /\ 0 + b <= MAX_HEIGHT /\ 0 + a = a
  BY Sizes
<1>2. /\ Len(Digits(j, 0, a)) = a /\ \A i \in 1 .. a : Digits(j, 0, a)[i] = get_index(j, 0 + i - 1)
      /\ Len(Digits(k, 0, b)) = b /\ \A i \in 1 .. b : Digits(k, 0, b)[i] = get_index(k, 0 + i - 1)
  BY <1>1, DigitsAre
<1>3. ASSUME Digits(j, 0, a) = Digits(k, 0, b) PROVE a = b /\ Same(j, k, a)
  <2>1. a = b
    BY <1>2, <1>3
  <2>2. ASSUME NEW d \in 0 .. a - 1 PROVE get_index(j, d) = get_index(k, d)
    <3>1. d + 1 \in 1 .. a /\ 0 + (d + 1) - 1 = d
      BY <1>1
    <3> QED BY <1>2, <1>3, <2>1, <3>1
  <2> QED BY <2>1, <2>2 DEF Same
<1>4. ASSUME a = b, Same(j, k, a) PROVE Digits(j, 0, a) = Digits(k, 0, b)
  BY <1>1, <1>4, DigitsSame
<1> QED BY <1>3, <1>4

\* One of them begins the other when it is shorter and the keys agree on it.
LEMMA PrefixIs ==
  ASSUME NEW j \in Keys, NEW k \in Keys, NEW a \in 0 .. MAX_HEIGHT, NEW b \in 0 .. MAX_HEIGHT
  PROVE  IsStrictPrefix(Digits(j, 0, a), Digits(k, 0, b)) <=> a < b /\ Same(j, k, a)
<1> DEFINE s == Digits(j, 0, a)
           t == Digits(k, 0, b)
<1>1. a \in Nat /\ b \in Nat /\ 0 + a <= MAX_HEIGHT /\ 0 + b <= MAX_HEIGHT /\ a \in Int /\ 0 + a = a
  BY Sizes
<1>2. Len(s) = a /\ Len(t) = b /\ s \in Seq(Nat) /\ t \in Seq(Nat)
  BY <1>1, DigitsAre
<1>3. SubSeq(s, 1, a) = s
  <2> HIDE DEF s, t
  <2> QED BY <1>2
<1>4. a < b => SubSeq(t, 1, a) = Digits(k, 0, a)
  BY <1>1, DigitsFirst
<1>5. s = Digits(k, 0, a) <=> Same(j, k, a)
  BY DigitsEqual
<1>6. s = t <=> a = b /\ Same(j, k, a)
  BY DigitsEqual
<1>7. a = b => SubSeq(t, 1, a) = t
  <2> HIDE DEF s, t
  <2> QED BY <1>2
<1> HIDE DEF s, t
<1>8. IsStrictPrefix(s, t) <=> a <= b /\ s = SubSeq(t, 1, a) /\ s # t
  BY <1>2, <1>3 DEF IsStrictPrefix, IsPrefix
<1>9. IsStrictPrefix(s, t) <=> a < b /\ Same(j, k, a)
  <2>1. CASE a < b
    <3>1. s # t /\ a <= b
      BY <1>1, <1>2, <2>1
    <3> QED BY <1>4, <1>5, <1>8, <2>1, <3>1
  <2>2. CASE a = b
    BY <1>1, <1>7, <1>8, <2>2
  <2>3. CASE a > b
    BY <1>1, <1>8, <2>3
  <2> QED BY <1>1, <2>1, <2>2, <2>3
<1> QED BY <1>9 DEF s, t

\* Two keys part at one of their digits.
LEMMA PartIs ==
  ASSUME NEW j \in Keys, NEW k \in Keys, j # k,
         NEW f, f = LongestCommonPrefix({Digits(j, 0, MAX_HEIGHT), Digits(k, 0, MAX_HEIGHT)})
  PROVE  \E e \in 0 .. MAX_DEPTH : f = Digits(j, 0, e) /\ Same(j, k, e) /\ get_index(j, e) # get_index(k, e)
<1> DEFINE s == Digits(j, 0, MAX_HEIGHT)
           t == Digits(k, 0, MAX_HEIGHT)
           n == Agree(s, t)
<1>1. MAX_HEIGHT \in Nat /\ 0 + MAX_HEIGHT <= MAX_HEIGHT /\ MAX_HEIGHT = MAX_DEPTH + 1 /\ MAX_DEPTH \in Nat /\ 0 \in Nat
  BY Sizes
<1>2. s \in Seq(Nat) /\ t \in Seq(Nat)
  BY <1>1, DigitsAre
<1>3. f = SubSeq(s, 1, n)
  BY <1>2, AgreeIs
<1>4. /\ n \in 0 .. MAX_HEIGHT /\ Same(j, k, 0 + n)
      /\ n < MAX_HEIGHT => get_index(j, 0 + n) # get_index(k, 0 + n)
  <2>1. Same(j, k, 0)
    BY DEF Same
  <2> QED BY <1>1, <2>1, AgreeDigits
<1> HIDE DEF n
<1>5. n \in Nat /\ 0 + n = n
  BY <1>4
<1>6. n # MAX_HEIGHT
  <2> SUFFICES ASSUME n = MAX_HEIGHT PROVE FALSE
    OBVIOUS
  <2>1. \A d \in 0 .. MAX_DEPTH : get_index(j, d) = get_index(k, d)
    BY <1>1, <1>4 DEF Same
  <2> QED BY <2>1, DigitsAssumption
<1>7. n < MAX_HEIGHT /\ n \in 0 .. MAX_DEPTH
  BY <1>1, <1>4, <1>6
<1>8. SubSeq(s, 1, n) = Digits(j, 0, n)
  BY <1>1, <1>5, <1>7, DigitsFirst
<1> QED BY <1>3, <1>4, <1>5, <1>7, <1>8

\* The path after which two keys part is in Partings, whichever of them is the less.
LEMMA PartingIs ==
  ASSUME NEW K, K \subseteq Keys, NEW j \in K, NEW k \in K, NEW e \in 0 .. MAX_DEPTH,
         Same(j, k, e), get_index(j, e) # get_index(k, e)
  PROVE  Digits(j, 0, e) \in Partings(K)
<1> DEFINE f(x, y) == LongestCommonPrefix({Digits(x, 0, MAX_HEIGHT), Digits(y, 0, MAX_HEIGHT)})
<1>1. j \in Keys /\ k \in Keys /\ j # k /\ j \in Nat /\ k \in Nat
  BY Sizes
<1>2. ASSUME NEW g, g = f(j, k) PROVE g = Digits(j, 0, e)
  <2>1. PICK a \in 0 .. MAX_DEPTH : g = Digits(j, 0, a) /\ Same(j, k, a) /\ get_index(j, a) # get_index(k, a)
    BY <1>1, <1>2, PartIs
  <2>2. a = e
    BY <2>1, Sizes DEF Same
  <2> QED BY <2>1, <2>2
<1>3. f(k, j) = f(j, k)
  <2>1. ASSUME NEW x, NEW y PROVE {x, y} = {y, x}
    OBVIOUS
  <2> QED BY <2>1
<1>4. j < k \/ k < j
  BY <1>1
<1>5. ASSUME NEW x \in K, NEW y \in K, x < y PROVE f(x, y) \in Partings(K)
  <2>1. <<x, y>> \in {p \in K \X K : p[1] < p[2]}
    BY <1>5
  <2>2. f(<<x, y>>[1], <<x, y>>[2]) \in Partings(K)
    BY <2>1 DEF Partings
  <2> QED BY <2>2
<1> HIDE DEF f
<1> QED BY <1>2, <1>3, <1>4, <1>5

\* And each of Partings is a path after which two keys part.
LEMMA PartingOf ==
  ASSUME NEW K, K \subseteq Keys, NEW f \in Partings(K)
  PROVE  \E j, k \in K : \E e \in 0 .. MAX_DEPTH :
           f = Digits(j, 0, e) /\ Same(j, k, e) /\ get_index(j, e) # get_index(k, e)
<1>1. PICK pair \in K \X K : /\ pair[1] < pair[2]
        /\ f = LongestCommonPrefix({Digits(pair[1], 0, MAX_HEIGHT), Digits(pair[2], 0, MAX_HEIGHT)})
  BY DEF Partings
<1>2. \E j, k \in K : pair = <<j, k>>
  OBVIOUS
<1>3. PICK j, k \in K : pair = <<j, k>>
  BY <1>2
<1>4. j < k /\ f = LongestCommonPrefix({Digits(j, 0, MAX_HEIGHT), Digits(k, 0, MAX_HEIGHT)})
  BY <1>1, <1>3
<1>5. j \in Keys /\ k \in Keys /\ j # k
  BY <1>4, Sizes
<1> QED BY <1>4, <1>5, PartIs

\* The keys whose leaves are among S.
KeysOf(S) == {k \in Keys : Leaf(k) \in S}

\* Below each pointer of a node is the leaf of a key that goes through it.
LEMMA KeyBelow ==
  ASSUME NEW p, NEW c, NEW S, NEW dep, NEW rep, Shape(p, c, S, dep, rep),
         NEW n \in S \cap INodes, NEW i \in 0 .. FAN - 1, c[n][i] # NULL
  PROVE  \E k \in KeysOf(S) : Same(k, rep[n], End(c, dep, n)) /\ get_index(k, End(c, dep, n)) = i
<1> DEFINE m == c[n][i]
           e == End(c, dep, n)
<1>1. m \in S /\ dep[m] = e + 1 /\ rep[m] \in Keys /\ Same(rep[m], rep[n], e) /\ get_index(rep[m], e) = i
  BY ChildIs
<1>2. e \in 0 .. MAX_DEPTH
  BY InnerNode
<1> HIDE DEF m, e
<1>3. CASE m \notin INodes
  <2>1. m = Leaf(rep[m])
    BY <1>1, <1>3, LeafIs
  <2> QED BY <1>1, <2>1 DEF KeysOf, e
<1>4. CASE m \in INodes
  <2> DEFINE l == minimum(c, m)
             k == c[l][KEY]
             z == End(c, dep, m)
  <2>1. l \in S /\ l \in Leaves /\ k \in Keys /\ Same(k, rep[m], z) /\ z \in 0 .. MAX_DEPTH /\ dep[m] <= z
    BY <1>1, <1>4, MinimumIs, InnerNode
  <2> HIDE DEF l, k, z
  <2>2. l = Leaf(k)
    <3>1. l \notin INodes
      BY <2>1, Objects
    <3> QED BY <2>1, <3>1, LeafIs DEF k
  <2>3. Same(k, rep[m], e + 1)
    BY <1>1, <1>2, <2>1, SameTo
  <2>4. Same(k, rep[m], e) /\ get_index(k, e) = get_index(rep[m], e)
    BY <1>2, <2>3 DEF Same
  <2>5. Same(k, rep[n], e)
    BY <1>1, <2>4, SameVia
  <2> QED BY <1>1, <2>1, <2>2, <2>4, <2>5 DEF KeysOf, e
<1> QED BY <1>3, <1>4

\* Where two keys of the tree part, there is a node.
LEMMA ForkNode ==
  ASSUME NEW p, NEW c, NEW S, NEW dep, NEW rep, Shape(p, c, S, dep, rep),
         NEW j \in KeysOf(S), NEW k \in KeysOf(S), NEW e \in 0 .. MAX_DEPTH,
         Same(j, k, e), get_index(j, e) # get_index(k, e)
  PROVE  \E n \in S \cap INodes : End(c, dep, n) = e /\ Same(j, rep[n], e)
<1>1. j \in Keys /\ k \in Keys /\ Leaf(j) \in S /\ Leaf(k) \in S /\ j # k
  BY DEF KeysOf
<1>2. Leaf(j) # Leaf(k) /\ Leaf(j) \notin INodes /\ Leaf(k) \notin INodes
  BY <1>1, Objects
<1>3. PICK A : A \subseteq S /\ OnTheWay(c, dep, rep, j, A)
  BY <1>1, WayExists
<1>4. PICK B : B \subseteq S /\ OnTheWay(c, dep, rep, k, B)
  BY <1>1, WayExists
<1> DEFINE C == A \cap B
           H == {MAX_HEIGHT - dep[n] : n \in C}
<1>5. ASSUME NEW n \in C
      PROVE  /\ n \in S \cap INodes /\ dep[n] \in 0 .. MAX_DEPTH /\ dep[n] <= End(c, dep, n)
             /\ End(c, dep, n) \in 0 .. MAX_DEPTH /\ rep[n] \in Keys
             /\ Same(j, rep[n], End(c, dep, n)) /\ Same(k, rep[n], End(c, dep, n))
             /\ c[n][get_index(j, End(c, dep, n))] \in A /\ c[n][get_index(k, End(c, dep, n))] \in B
  <2>1. n \in A /\ n \in B /\ n \in S
    BY <1>3
  <2>2. n # Leaf(j) /\ n # Leaf(k)
    BY <1>2, <1>3, <1>4, <2>1 DEF OnTheWay
  <2>3. n \in S \cap INodes
    BY <1>3, <2>1, <2>2 DEF OnTheWay
  <2>4. /\ Same(j, rep[n], End(c, dep, n)) /\ Same(k, rep[n], End(c, dep, n))
        /\ c[n][get_index(j, End(c, dep, n))] \in A /\ c[n][get_index(k, End(c, dep, n))] \in B
    BY <1>3, <1>4, <2>1, <2>2 DEF OnTheWay
  <2> QED BY <2>3, <2>4, InnerNode
<1>6. c[0][0] \in C
  BY <1>3, <1>4 DEF OnTheWay
<1>7. H \subseteq Nat /\ H # {}
  <2>1. \A n \in C : MAX_HEIGHT - dep[n] \in Nat
    <3> HIDE DEF C
    <3> QED BY <1>5, Sizes
  <2> QED BY <1>6, <2>1
<1> HIDE DEF H
<1>8. PICK h \in H : \A g \in H : h <= g
  BY <1>7, LeastOf
<1>9. PICK n \in C : h = MAX_HEIGHT - dep[n]
  BY DEF H
<1>10. \A m \in C : h <= MAX_HEIGHT - dep[m]
  BY <1>8 DEF H
<1> DEFINE z == End(c, dep, n)
<1>11. /\ n \in S \cap INodes /\ dep[n] \in 0 .. MAX_DEPTH /\ dep[n] <= z /\ z \in 0 .. MAX_DEPTH /\ rep[n] \in Keys
       /\ Same(j, rep[n], z) /\ Same(k, rep[n], z)
       /\ c[n][get_index(j, z)] \in A /\ c[n][get_index(k, z)] \in B
  BY <1>5
<1> HIDE DEF C, z
<1>12. ~(e < z)
  <2> SUFFICES ASSUME e < z PROVE FALSE
    OBVIOUS
  <2>1. e \in 0 .. z - 1
    BY <1>11
  <2> QED BY <1>11, <2>1 DEF Same
<1>13. ~(z < e)
  <2> SUFFICES ASSUME z < e PROVE FALSE
    OBVIOUS
  <2>1. z \in 0 .. e - 1
    BY <1>11
  <2>2. get_index(j, z) = get_index(k, z) /\ get_index(j, z) \in 0 .. FAN - 1
    BY <1>1, <1>11, <2>1, Digit DEF Same
  <2> DEFINE m == c[n][get_index(j, z)]
  <2>3. m \in C
    BY <1>11, <2>2 DEF C
  <2>4. m # NULL
    BY <1>5, <2>3, Objects
  <2>5. dep[m] = z + 1
    BY <1>11, <2>2, <2>4, ChildIs DEF z
  <2>6. h <= MAX_HEIGHT - dep[m]
    BY <1>10, <2>3
  <2> HIDE DEF m
  <2> QED BY <1>9, <1>11, <2>5, <2>6, Sizes
<1>14. z = e
  BY <1>11, <1>12, <1>13
<1> QED BY <1>11, <1>14 DEF z

\* The paths of the tree's nodes are those after which two of its keys part.
LEMMA PartingsAre ==
  ASSUME NEW p, NEW c, NEW S, NEW dep, NEW rep, Shape(p, c, S, dep, rep), Branching(c, S)
  PROVE  Partings(KeysOf(S)) = {PathTo(c, dep, rep, n) : n \in S \cap INodes}
<1>1. KeysOf(S) \subseteq Keys
  BY DEF KeysOf
<1>2. ASSUME NEW n \in S \cap INodes PROVE PathTo(c, dep, rep, n) \in Partings(KeysOf(S))
  <2> DEFINE e == End(c, dep, n)
  <2>1. e \in 0 .. MAX_DEPTH /\ rep[n] \in Keys
    BY InnerNode
  <2>2. PICK i, i2 \in 0 .. FAN - 1 : i # i2 /\ c[n][i] # NULL /\ c[n][i2] # NULL
    BY DEF Branching
  <2>3. PICK j \in KeysOf(S) : Same(j, rep[n], e) /\ get_index(j, e) = i
    BY <2>2, KeyBelow
  <2>4. PICK k \in KeysOf(S) : Same(k, rep[n], e) /\ get_index(k, e) = i2
    BY <2>2, KeyBelow
  <2> HIDE DEF e
  <2>5. Same(j, k, e)
    BY <2>3, <2>4 DEF Same
  <2>6. get_index(j, e) # get_index(k, e)
    BY <2>2, <2>3, <2>4
  <2>7. Digits(j, 0, e) \in Partings(KeysOf(S))
    BY <1>1, <2>1, <2>5, <2>6, PartingIs
  <2>8. Digits(j, 0, e) = Digits(rep[n], 0, e)
    <3>1. e \in 0 .. MAX_HEIGHT /\ j \in Keys
      BY <1>1, <2>1, Sizes
    <3> QED BY <2>1, <2>3, <3>1, DigitsEqual
  <2> QED BY <2>7, <2>8 DEF PathTo, e
<1>3. ASSUME NEW f \in Partings(KeysOf(S)) PROVE \E n \in S \cap INodes : f = PathTo(c, dep, rep, n)
  <2>1. PICK j, k \in KeysOf(S) : \E e \in 0 .. MAX_DEPTH :
           f = Digits(j, 0, e) /\ Same(j, k, e) /\ get_index(j, e) # get_index(k, e)
    BY <1>1, PartingOf
  <2>2. PICK e \in 0 .. MAX_DEPTH : f = Digits(j, 0, e) /\ Same(j, k, e) /\ get_index(j, e) # get_index(k, e)
    BY <2>1
  <2>3. PICK n \in S \cap INodes : End(c, dep, n) = e /\ Same(j, rep[n], e)
    BY <2>2, ForkNode
  <2>4. Digits(j, 0, e) = Digits(rep[n], 0, e)
    <3>1. e \in 0 .. MAX_HEIGHT /\ j \in Keys /\ rep[n] \in Keys
      BY <1>1, Sizes, InnerNode
    <3> QED BY <2>3, <3>1, DigitsEqual
  <2> QED BY <2>2, <2>3, <2>4 DEF PathTo
<1> QED BY <1>2, <1>3

\* A key that agrees with a node up to where it hangs has it on its way.
LEMMA OnWay ==
  ASSUME NEW p, NEW c, NEW S, NEW dep, NEW rep, Shape(p, c, S, dep, rep),
         NEW k \in KeysOf(S), NEW A, OnTheWay(c, dep, rep, k, A)
  PROVE  \A n \in S \cap INodes : Same(k, rep[n], dep[n]) => n \in A
<1> DEFINE U == {n \in S \cap INodes : Same(k, rep[n], dep[n]) /\ n \notin A}
           V == {dep[n] : n \in U}
<1> SUFFICES ASSUME U # {} PROVE FALSE
  OBVIOUS
<1>1. \A n \in S \cap INodes : dep[n] \in 0 .. MAX_DEPTH /\ rep[n] \in Keys
  BY InnerNode
<1>2. V \subseteq Nat /\ V # {}
  <2>1. \A n \in U : dep[n] \in Nat
    BY <1>1
  <2> QED BY <2>1
<1> HIDE DEF V
<1>3. PICK d \in V : \A e \in V : d <= e
  BY <1>2, LeastOf
<1>4. PICK n \in U : d = dep[n]
  BY DEF V
<1>5. \A m \in U : d <= dep[m]
  BY <1>3 DEF V
<1>6. /\ n \in S /\ n \in INodes /\ n # NULL /\ n \notin A /\ Same(k, rep[n], dep[n])
      /\ k \in Keys /\ Leaf(k) \notin INodes
  BY <1>4, Objects DEF KeysOf
<1>7. PICK o \in Above(S) : \E w \in Ways(o) : c[o][w] = n
  BY <1>6 DEF Shape, Hung
<1>8. PICK w \in Ways(o) : c[o][w] = n
  BY <1>7
<1>9. CASE o = 0
  BY <1>6, <1>8, <1>9 DEF Ways, OnTheWay
<1>10. CASE o # 0
  <2>1. o \in S \cap INodes /\ w \in 0 .. FAN - 1
    BY <1>10 DEF Above, Ways
  <2> DEFINE e == End(c, dep, o)
  <2>2. dep[n] = e + 1 /\ Same(rep[n], rep[o], e) /\ get_index(rep[n], e) = w
    BY <1>6, <1>8, <2>1, ChildIs
  <2>3. e \in 0 .. MAX_DEPTH /\ dep[o] <= e /\ dep[o] \in 0 .. MAX_DEPTH
    BY <2>1, InnerNode
  <2> HIDE DEF e
  <2>4. Same(k, rep[n], e) /\ get_index(k, e) = w
    <3>1. e \in 0 .. (e + 1) - 1 /\ \A x \in 0 .. e - 1 : x \in 0 .. (e + 1) - 1
      BY <2>3
    <3> QED BY <1>6, <2>2, <3>1 DEF Same
  <2>5. Same(k, rep[o], e)
    BY <2>2, <2>4, SameVia
  <2>6. Same(k, rep[o], dep[o])
    BY <2>3, <2>5, SameTo
  <2>7. o \in A
    <3>1. CASE o \in U
      <4>1. d <= dep[o]
        BY <1>5, <3>1
      <4> QED BY <1>4, <2>2, <2>3, <4>1
    <3>2. CASE o \notin U
      BY <2>1, <2>6, <3>2
    <3> QED BY <3>1, <3>2
  <2>8. o # Leaf(k)
    BY <1>6, <2>1
  <2>9. c[o][get_index(k, e)] \in A
    BY <2>7, <2>8 DEF OnTheWay, e
  <2> QED BY <1>6, <1>8, <2>4, <2>9
<1> QED BY <1>9, <1>10

\* So every key of the tree that does passes the node's path.
LEMMA AllPass ==
  ASSUME NEW p, NEW c, NEW S, NEW dep, NEW rep, Shape(p, c, S, dep, rep),
         NEW k \in KeysOf(S), NEW n \in S \cap INodes, Same(k, rep[n], dep[n])
  PROVE  Same(k, rep[n], End(c, dep, n))
<1>1. k \in Keys /\ Leaf(k) \in S /\ n # Leaf(k)
  BY Objects DEF KeysOf
<1>2. PICK A : A \subseteq S /\ OnTheWay(c, dep, rep, k, A)
  BY <1>1, WayExists
<1>3. n \in A
  BY <1>2, OnWay
<1> QED BY <1>1, <1>2, <1>3 DEF OnTheWay

\* m is a fork above n: its path begins that of n.
ForkAbove(c, dep, rep, m, n) ==
  End(c, dep, m) < End(c, dep, n) /\ Same(rep[m], rep[n], End(c, dep, m))

\* A fork above n is above the place where n hangs.
LEMMA AbovePlace ==
  ASSUME NEW p, NEW c, NEW S, NEW dep, NEW rep, Shape(p, c, S, dep, rep), Branching(c, S),
         NEW n \in S \cap INodes, NEW m \in S \cap INodes, ForkAbove(c, dep, rep, m, n)
  PROVE  End(c, dep, m) < dep[n]
<1> DEFINE e == End(c, dep, m)
           z == End(c, dep, n)
<1>1. /\ e \in 0 .. MAX_DEPTH /\ z \in 0 .. MAX_DEPTH /\ dep[n] \in 0 .. MAX_DEPTH
      /\ e < z /\ Same(rep[m], rep[n], e)
  BY InnerNode DEF ForkAbove
<1>2. PICK i, i2 \in 0 .. FAN - 1 : i # i2 /\ c[m][i] # NULL /\ c[m][i2] # NULL
  BY DEF Branching
<1>3. PICK j \in KeysOf(S) : Same(j, rep[m], e) /\ get_index(j, e) = i
  BY <1>2, KeyBelow
<1>4. PICK k \in KeysOf(S) : Same(k, rep[m], e) /\ get_index(k, e) = i2
  BY <1>2, KeyBelow
<1> HIDE DEF e, z
<1> SUFFICES ASSUME ~(e < dep[n]) PROVE FALSE
  BY DEF e
<1>5. ASSUME NEW x \in KeysOf(S), Same(x, rep[m], e) PROVE get_index(x, e) = get_index(rep[n], e)
  <2>1. Same(x, rep[n], e)
    BY <1>1, <1>5, SameVia
  <2>2. Same(x, rep[n], dep[n])
    BY <1>1, <2>1 DEF Same
  <2>3. Same(x, rep[n], z)
    BY <2>2, AllPass DEF z
  <2>4. e \in 0 .. z - 1
    BY <1>1
  <2> QED BY <2>3, <2>4 DEF Same
<1> QED BY <1>2, <1>3, <1>4, <1>5

\* Each node hangs at the depth its path has in Forks.
LEMMA ForkDepthIs ==
  ASSUME NEW p, NEW c, NEW S, NEW dep, NEW rep, Shape(p, c, S, dep, rep), Branching(c, S),
         NEW n \in S \cap INodes
  PROVE  ForkDepth(Partings(KeysOf(S)), PathTo(c, dep, rep, n)) = dep[n]
<1> DEFINE I == S \cap INodes
           P == Partings(KeysOf(S))
           f == PathTo(c, dep, rep, n)
           L == {End(c, dep, m) : m \in {m \in I : ForkAbove(c, dep, rep, m, n)}}
<1>1. \A m \in I : End(c, dep, m) \in 0 .. MAX_HEIGHT /\ rep[m] \in Keys /\ 0 + End(c, dep, m) <= MAX_HEIGHT
                   /\ End(c, dep, m) \in Nat /\ dep[m] \in Nat /\ dep[m] <= End(c, dep, m)
  BY InnerNode, Sizes
<1>2. P = {PathTo(c, dep, rep, m) : m \in I}
  BY PartingsAre
<1>3. ASSUME NEW m \in I
      PROVE  /\ IsStrictPrefix(PathTo(c, dep, rep, m), f) <=> ForkAbove(c, dep, rep, m, n)
             /\ Len(PathTo(c, dep, rep, m)) = End(c, dep, m)
  <2>1. IsStrictPrefix(PathTo(c, dep, rep, m), f) <=> ForkAbove(c, dep, rep, m, n)
    BY <1>1, PrefixIs DEF PathTo, ForkAbove
  <2>2. Len(PathTo(c, dep, rep, m)) = End(c, dep, m)
    BY <1>1, DigitsAre DEF PathTo
  <2> QED BY <2>1, <2>2
<1> HIDE DEF f
<1>4. LengthsAbove(P, f) = L
  <2> HIDE DEF I, P
  <2>1. {g \in P : IsStrictPrefix(g, f)} = {PathTo(c, dep, rep, m) : m \in {m \in I : ForkAbove(c, dep, rep, m, n)}}
    BY <1>2, <1>3
  <2>2. LengthsAbove(P, f) = {Len(PathTo(c, dep, rep, m)) : m \in {m \in I : ForkAbove(c, dep, rep, m, n)}}
    BY <2>1 DEF LengthsAbove
  <2> QED BY <1>3, <2>2
<1>5. \A d \in L : d \in Nat /\ d < dep[n]
  BY <1>1, AbovePlace
<1>6. PICK o \in Above(S) : \E w \in Ways(o) : c[o][w] = n
  BY DEF Shape, Hung
<1>7. PICK w \in Ways(o) : c[o][w] = n
  BY <1>6
<1>8. n # NULL /\ dep[n] \in Nat
  BY <1>1, Objects
<1>9. CASE o = 0
  <2>1. dep[n] = 0
    BY <1>7, <1>8, <1>9, RootIs DEF Ways
  <2>2. L = {}
    <3> HIDE DEF L
    <3> QED BY <1>5, <2>1
  <2> HIDE DEF L
  <2> QED BY <1>4, <2>1, <2>2 DEF ForkDepth, f
<1>10. CASE o # 0
  <2>1. o \in I /\ w \in 0 .. FAN - 1
    BY <1>10 DEF Above, Ways
  <2>2. dep[n] = End(c, dep, o) + 1 /\ Same(rep[n], rep[o], End(c, dep, o))
    BY <1>7, <1>8, <2>1, ChildIs
  <2>3. End(c, dep, o) \in L
    <3>1. End(c, dep, o) < End(c, dep, n)
      BY <1>1, <2>1, <2>2
    <3>2. Same(rep[o], rep[n], End(c, dep, o))
      BY <2>2 DEF Same
    <3> QED BY <2>1, <3>1, <3>2 DEF ForkAbove
  <2> HIDE DEF L
  <2> DEFINE top == CHOOSE d \in L : \A e \in L : e <= d
  <2>4. End(c, dep, o) \in Nat /\ \A e \in L : e <= End(c, dep, o)
    BY <1>1, <1>5, <2>1, <2>2
  <2>5. top \in L /\ \A e \in L : e <= top
    BY <2>3, <2>4
  <2> HIDE DEF top
  <2>6. top = End(c, dep, o)
    BY <1>5, <2>3, <2>4, <2>5
  <2>7. ForkDepth(P, f) = 1 + top
    BY <1>4, <2>3 DEF ForkDepth, top
  <2> QED BY <2>2, <2>4, <2>6, <2>7 DEF f
<1> QED BY <1>9, <1>10

\* A tree is the compressed radix tree of the keys that art_search finds in it.
LEMMA CompressedIs ==
  ASSUME NEW p \in BOOLEAN, NEW c, NEW S, Tree(p, c, S), Valued(c, S)
  PROVE  Paths(c) = Forks({k \in Keys : art_search(c, k) # NULL})
<1>1. PICK dep, rep : Shape(p, c, S, dep, rep)
  BY DEF Tree, Formed
<1>2. Branching(c, S)
  BY DEF Tree
<1> DEFINE I == S \cap INodes
           P == Partings(KeysOf(S))
           D(f) == ForkDepth(P, f)
<1>3. {k \in Keys : art_search(c, k) # NULL} = KeysOf(S)
  <2>1. \A k \in Keys : art_search(c, k) = IF Leaf(k) \in S THEN c[Leaf(k)][VALUE] ELSE NULL
    BY <1>1, Found
  <2> QED BY <2>1 DEF Valued, KeysOf
<1>4. Forks(KeysOf(S)) = {<<D(f), f>> : f \in P}
  BY ForksIs
<1>5. P = {PathTo(c, dep, rep, n) : n \in I}
  BY <1>1, <1>2, PartingsAre
<1>6. \A n \in I : D(PathTo(c, dep, rep, n)) = dep[n]
  BY <1>1, <1>2, ForkDepthIs
<1>7. Paths(c) = {<<dep[n], PathTo(c, dep, rep, n)>> : n \in I}
  BY <1>1, PathsIs
<1> HIDE DEF P, D, I
<1>8. {<<D(f), f>> : f \in P} = {<<D(PathTo(c, dep, rep, n)), PathTo(c, dep, rep, n)>> : n \in I}
  BY <1>5
<1>9. {<<D(f), f>> : f \in P} = {<<dep[n], PathTo(c, dep, rep, n)>> : n \in I}
  BY <1>6, <1>8
<1> QED BY <1>3, <1>4, <1>7, <1>9

\* Whatever the order of the calls and wherever power was lost, between operations
\* each tree is the one compressed radix tree of its keys: recursive_insert makes a
\* node where two keys part (art_lp.c 415 to 488, art_lpo.c the same way) and
\* nowhere else, with the path and at the depth that art_search reckons with.
THEOREM PathsCompressed == Spec => []Compressed
<1>1. IInv /\ RInv => Compressed
  <2> SUFFICES ASSUME IInv, RInv, pc = "idle"
               PROVE  Paths(mem.cache) = Forks({k \in Keys : art_search(mem.cache, k) # NULL})
    BY DEF Compressed
  <2>1. PICK S : Trees(S, S)
    BY AtRest
  <2>2. PICK p, c : p = pessimistic /\ c = mem.cache
    OBVIOUS
  <2>3. p \in BOOLEAN /\ Tree(p, c, S) /\ Valued(c, S)
    BY <2>1, <2>2 DEF Trees
  <2>4. Paths(c) = Forks({k \in Keys : art_search(c, k) # NULL})
    BY <2>3, CompressedIs
  <2> QED BY <2>2, <2>4
<1> QED BY <1>1, TreeIsKnown, PTL
=============================================================================
