------------------------------ MODULE ArtKeys -------------------------------
(***************************************************************************)
(* Keys as the compressed radix trees read them: MAX_DEPTH + 1 digits of   *)
(* NODE_BITS bits, the digit of depth 0 first.                             *)
(***************************************************************************)
EXTENDS Integers, Sequences, SequencesExt

CONSTANTS NODE_BITS, MAX_DEPTH
ASSUME ArtKeysAssumption == NODE_BITS \in Nat \ {0} /\ MAX_DEPTH \in Nat

MAX_HEIGHT == MAX_DEPTH + 1
FAN        == 2 ^ NODE_BITS

get_index(key, depth) == (key \div 2 ^ ((MAX_DEPTH - depth) * NODE_BITS)) % FAN
Digits(key, depth, len) == [i \in 1 .. len |-> get_index(key, depth + i - 1)]

\* How many digits two paths share.
Agree(s, t) == Len(LongestCommonPrefix({s, t}))

\* Mutant: stops one digit early.
longest_common_prefix_OneShort(k1, k2, depth) ==
  LET n == Agree(Digits(k1, depth, MAX_HEIGHT - depth), Digits(k2, depth, MAX_HEIGHT - depth))
  IN  IF n = 0 THEN 0 ELSE n - 1

longest_common_prefix(k1, k2, depth) ==
  Agree(Digits(k1, depth, MAX_HEIGHT - depth), Digits(k2, depth, MAX_HEIGHT - depth))

\* What is left of a node's path below a node that branches after diff digits.
Rest(path, diff) == SubSeq(path, diff + 2, Len(path))

\* The inner nodes of a compressed tree over keys: <<d, p>> for each path p after
\* which two keys part, d being the depth just below the fork above it.
Forks(keys) ==
  LET all(k) == Digits(k, 0, MAX_HEIGHT)
      paths == {LongestCommonPrefix({all(pair[1]), all(pair[2])}) :
                  pair \in {p \in keys \X keys : p[1] < p[2]}}
      above(f) == {Len(g) : g \in {g \in paths : IsStrictPrefix(g, f)}}
      below(f) == IF above(f) = {} THEN 0 ELSE 1 + (CHOOSE d \in above(f) : \A e \in above(f) : e <= d)
  IN  {<<below(f), f>> : f \in paths}
=============================================================================
