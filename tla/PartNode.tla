------------------------------ MODULE PartNode ------------------------------
(***************************************************************************)
(* The four node layouts of the persistent adaptive radix tree             *)
(* (lazy_path_node/Persistent_ART/Order_8/flush/Integer/PART.h, PART.c)    *)
(* and what adding a child does to each.  In every layout one 8-byte word  *)
(* says which of the other words count:                                    *)
(*   NODE4    the slot array: digits in order, with their children's places*)
(*   NODE16   the bitmap of the places in use                              *)
(*   NODE48   for each group of digits, the digits present and the places  *)
(*            they have taken                                              *)
(*   NODE256  the child pointer itself                                     *)
(* A node's content is a function from its words to their values.          *)
(***************************************************************************)
EXTENDS ArtKeys, FiniteSets, FiniteSetsExt

CONSTANTS NULL,
          CAP4, CAP16, CAP48,  \* children of the three smaller layouts: 4, 16, 48
          GROUP                \* digits per word of a NODE48: 16

ASSUME PartNodeAssumption ==
  /\ CAP4 \in Nat \ {0, 1} /\ CAP16 \in Nat /\ CAP48 \in Nat /\ GROUP \in Nat \ {0}
  /\ CAP4 < CAP16 /\ CAP16 < CAP48 /\ CAP48 < FAN

NODE4   == 1
NODE16  == 2
NODE48  == 3
NODE256 == 4

Hdr       == <<"head", 0>>
Slots     == <<"slot", 0>>         \* slot[] of a NODE4
Bitmap    == <<"bitmap", 0>>       \* bitmap of a NODE16
Bits(c)   == <<"bits", c \div GROUP>>
Key(i)    == <<"key", i>>
Child(i)  == <<"child", i>>
AllBits   == {Bits(c) : c \in 0 .. FAN - 1}

\* The words of a layout, as sizeof counts them.
TypeWords(type) ==
  {Hdr} \cup CASE type = NODE4   -> {Slots} \cup {Child(i) : i \in 0 .. CAP4 - 1}
                [] type = NODE16  -> {Bitmap} \cup {Key(i) : i \in 0 .. CAP16 - 1}
                                           \cup {Child(i) : i \in 0 .. CAP16 - 1}
                [] type = NODE48  -> AllBits \cup {Key(i) : i \in 0 .. FAN - 1}
                                             \cup {Child(i) : i \in 0 .. CAP48 - 1}
                [] type = NODE256 -> {Child(i) : i \in 0 .. FAN - 1}
NodeWords == UNION {TypeWords(t) : t \in NODE4 .. NODE256}

Header(type, path) == [type |-> type, path |-> path]

\* One word, and two functions together.
Word(l, x) == [m \in {l} |-> x]
Both(f, g) == [l \in DOMAIN f \cup DOMAIN g |-> IF l \in DOMAIN f THEN f[l] ELSE g[l]]

\* What alloc_node initialises: malloc leaves the other words as they were.
alloc_node(type, path) ==
  Both(Word(Hdr, Header(type, path)),
       CASE type = NODE4   -> Word(Slots, <<>>)
         [] type = NODE16  -> Word(Bitmap, {})
         [] type = NODE48  -> [w \in AllBits |-> [k |-> {}, p |-> {}]]
         [] type = NODE256 -> [w \in TypeWords(NODE256) \ {Hdr} |-> NULL])

-----------------------------------------------------------------------------
(* Reading a node *)
\* The digits a node has children for, and the word that holds each.
PlaceOf(nd, c) ==
  CASE nd[Hdr].type = NODE4   -> {e.i_ptr : e \in {e \in Range(nd[Slots]) : e.key = c}}
    [] nd[Hdr].type = NODE16  -> {i \in nd[Bitmap] : nd[Key(i)] = c}
    [] nd[Hdr].type = NODE48  -> IF c \in nd[Bits(c)].k THEN {nd[Key(c)]} ELSE {}
    [] nd[Hdr].type = NODE256 -> IF nd[Child(c)] # NULL THEN {c} ELSE {}

Present(nd) == {c \in 0 .. FAN - 1 : PlaceOf(nd, c) # {}}

\* The line find_child returns the address of.
Slot(nd, c)       == Child(Min(PlaceOf(nd, c)))
find_child(nd, c) == IF PlaceOf(nd, c) = {} THEN NULL ELSE nd[Slot(nd, c)]

\* The places taken, in the order in which add_child looks for a free one.
Taken(nd) ==
  CASE nd[Hdr].type = NODE4   -> {e.i_ptr : e \in Range(nd[Slots])}
    [] nd[Hdr].type = NODE16  -> nd[Bitmap]
    [] nd[Hdr].type = NODE48  -> UNION {nd[w].p : w \in AllBits}
    [] nd[Hdr].type = NODE256 -> {}

Capacity(type) == CASE type = NODE4  -> CAP4  [] type = NODE16  -> CAP16
                    [] type = NODE48 -> CAP48 [] type = NODE256 -> FAN

HasRoom(nd) == Taken(nd) # 0 .. Capacity(nd[Hdr].type) - 1

Ascending(digits) ==
  [i \in 1 .. Cardinality(digits) |->
     CHOOSE c \in digits : Cardinality({d \in digits : d < c}) = i - 1]

\* Mutant: a NODE16's children in the order they came.
Visited_Unsorted(nd) ==
  LET order == Ascending(Present(nd)) IN
  CASE nd[Hdr].type = NODE4  -> [i \in 1 .. 1 |-> nd[Child(nd[Slots][1].i_ptr)]]
    [] nd[Hdr].type = NODE16 -> [i \in DOMAIN order |-> nd[Child(i - 1)]]
    [] OTHER                 -> [i \in DOMAIN order |-> find_child(nd, order[i])]

\* The children in the order recursive_lookup visits them.  A NODE4's loop runs
\* while i < (slot[i].i_ptr != -1 && i < 4), that is while i < 1.
Visited(nd) ==
  LET order == Ascending(Present(nd)) IN
  CASE nd[Hdr].type = NODE4 -> [i \in 1 .. 1 |-> nd[Child(nd[Slots][1].i_ptr)]]
    [] OTHER                 -> [i \in DOMAIN order |-> find_child(nd, order[i])]

-----------------------------------------------------------------------------
(* Adding a child *)
\* Where the digit c goes in a slot array: before the first greater one.
InOrder(slot, e) ==
  LET later == {i \in DOMAIN slot : e.key < slot[i].key} IN
  InsertAt(slot, IF later = {} THEN Len(slot) + 1 ELSE Min(later), e)

\* The word whose flush makes child c of nd count.
CommitWord(nd, c) ==
  CASE nd[Hdr].type = NODE4   -> Slots
    [] nd[Hdr].type = NODE16  -> Bitmap
    [] nd[Hdr].type = NODE48  -> Bits(c)
    [] nd[Hdr].type = NODE256 -> Child(c)

\* The stores of add_child4, 16, 48 and 256 into a node with room.
Added(nd, c, child) ==
  LET i == Min((0 .. Capacity(nd[Hdr].type) - 1) \ Taken(nd)) IN
  CASE nd[Hdr].type = NODE4   -> Both(Word(Child(i), child),
                                      Word(Slots, InOrder(nd[Slots], [key |-> c, i_ptr |-> i])))
    [] nd[Hdr].type = NODE16  -> Both(Word(Child(i), child),
                                      Both(Word(Key(i), c), Word(Bitmap, nd[Bitmap] \cup {i})))
    [] nd[Hdr].type = NODE48  -> Both(Word(Child(i), child),
                                      Both(Word(Key(c), i), Word(Bits(c), [k |-> nd[Bits(c)].k \cup {c},
                                                                          p |-> nd[Bits(c)].p \cup {i}])))
    [] nd[Hdr].type = NODE256 -> Word(Child(c), child)

\* Mutant: the places taken are not carried over.
Grown16_NoPlaces(nd) ==
  Both([i \in {Key(nd[Key(j)]) : j \in nd[Bitmap]} |-> CHOOSE j \in nd[Bitmap] : nd[Key(j)] = i[2]],
       [w \in AllBits |-> [k |-> {nd[Key(j)] : j \in {x \in nd[Bitmap] : Bits(nd[Key(x)]) = w}},
                           p |-> {}]])

\* The digits of a full NODE16 spread over a NODE48's words; places stay.
Grown16(nd) ==
  Both([i \in {Key(nd[Key(j)]) : j \in nd[Bitmap]} |-> CHOOSE j \in nd[Bitmap] : nd[Key(j)] = i[2]],
       [w \in AllBits |-> LET here == {j \in nd[Bitmap] : Bits(nd[Key(j)]) = w} IN
                          [k |-> {nd[Key(j)] : j \in here}, p |-> here]])

\* The words a full node passes on to its successor in the next larger layout.
Grown(nd) ==
  LET places == [w \in {Child(i) : i \in Taken(nd)} |-> nd[w]] IN
  CASE nd[Hdr].type = NODE4  ->
         Both(places, Both(Word(Bitmap, Taken(nd)),
                           [k \in {Key(i) : i \in Taken(nd)} |->
                              (CHOOSE s \in Range(nd[Slots]) : s.i_ptr = k[2]).key]))
    [] nd[Hdr].type = NODE16 -> Both(places, Grown16(nd))
    [] nd[Hdr].type = NODE48 ->
         [w \in {Child(c) : c \in Present(nd)} |-> find_child(nd, w[2])]

\* Mutant: copy_header is forgotten.
Bigger_NoHeader(nd, c, child) ==
  LET copy == Both(Grown(nd), alloc_node(nd[Hdr].type + 1, <<>>)) IN
  Both(Added(copy, c, child), copy)

\* The full node nd in the next layout, with child c added.
Bigger(nd, c, child) ==
  LET type == nd[Hdr].type + 1
      copy == Both(Grown(nd), alloc_node(type, nd[Hdr].path)) IN
  Both(Added(copy, c, child), copy)
=============================================================================
