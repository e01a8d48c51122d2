----------------------- MODULE PersistentART_proofs -----------------------
(***************************************************************************)
(* First, what a node of the persistent ART is, in each of its four        *)
(* layouts, and what add_child does to one:                                *)
(*   AddsByOneWord    an addition in place is invisible until the one word *)
(*                    that commits it is on the medium                     *)
(*   AddsOneChild     then the node has that child besides the others      *)
(*   GrowsToTheNext   the copy of a full node in the next layout has them  *)
(*                    all and the new one                                  *)
(* Live(nd) are the words that find_child, minimum and the growth read once*)
(* type, slot[], bitmap or bits_arr[] say what they say; a node is Laid out*)
(* when each child has a place of its own and no place is taken in vain.   *)
(*                                                                         *)
(* Then PART as a whole: Implements, Typed, NoNodeLost, PathsCompressed.   *)
(* View(c) reads each node of c as one with a word per digit, whatever its *)
(* layout, so that what is proved of the path-compressed tree's shape in   *)
(* LazyPath_proofs (L) holds of PART's.  Tree(c, S) says so of the objects *)
(* S, with every node laid out and Tight: no layout is larger than its     *)
(* children need.  RInv has a tree on the medium and one in the cache that *)
(* differ in one word, as the operation in progress has it; each action is *)
(* a lemma (Step...) that it keeps RInv and is a step of the durable map or*)
(* none.                                                                   *)
(***************************************************************************)
EXTENDS PersistentART, PMem_proofs, FiniteSetTheorems, SequenceTheorems, TLAPS

(* Nodes *)

Digit == 0 .. FAN - 1

Slot4 == [key : Digit, i_ptr : 0 .. CAP4 - 1]

\* What a layout's own words say.
Fit4(nd)  == nd[Slots] \in Seq(Slot4)
Fit16(nd) == nd[Bitmap] \subseteq 0 .. CAP16 - 1 /\ \A i \in nd[Bitmap] : nd[Key(i)] \in Digit
Fit48(nd) == \A w \in AllBits : /\ nd[w] = [k |-> nd[w].k, p |-> nd[w].p]
                                /\ nd[w].k \subseteq {c \in Digit : Bits(c) = w}
                                /\ nd[w].p \subseteq 0 .. CAP48 - 1
                                /\ \A c \in nd[w].k : nd[Key(c)] \in nd[w].p
Fits(nd) == /\ nd[Hdr].type \in NODE4 .. NODE256
            /\ nd[Hdr].type = NODE4  => Fit4(nd)
            /\ nd[Hdr].type = NODE16 => Fit16(nd)
            /\ nd[Hdr].type = NODE48 => Fit48(nd)

\* The words of nd that count.
Live(nd) ==
  {Hdr} \cup CASE nd[Hdr].type = NODE4   -> {Slots} \cup {Child(i) : i \in Taken(nd)}
                [] nd[Hdr].type = NODE16  -> {Bitmap} \cup {Key(i) : i \in nd[Bitmap]}
                                                     \cup {Child(i) : i \in nd[Bitmap]}
                [] nd[Hdr].type = NODE48  -> AllBits \cup {Key(c) : c \in Present(nd)}
                                                     \cup {Child(i) : i \in Taken(nd)}
                [] nd[Hdr].type = NODE256 -> {Child(c) : c \in Digit}

\* A node: each child has a place of its own, and no place is taken in vain.
Laid(nd) ==
  /\ Fits(nd)
  /\ \A c, d \in Digit : \A i \in PlaceOf(nd, c), j \in PlaceOf(nd, d) : c = d <=> i = j
  /\ \A c \in Digit : \A i \in PlaceOf(nd, c) : nd[Child(i)] # NULL
  /\ nd[Hdr].type # NODE256 => \A i \in Taken(nd) : \E c \in Digit : i \in PlaceOf(nd, c)

\* The constants.
LEMMA Caps ==
  /\ FAN \in Nat /\ FAN > 0
  /\ CAP4 \in Nat /\ CAP16 \in Nat /\ CAP48 \in Nat /\ GROUP \in Nat /\ GROUP > 0
  /\ 1 < CAP4 /\ CAP4 < CAP16 /\ CAP16 < CAP48 /\ CAP48 < FAN
  /\ NODE4 = 1 /\ NODE16 = 2 /\ NODE48 = 3 /\ NODE256 = 4
  /\ \A t : t \in NODE4 .. NODE256 <=> t \in {NODE4, NODE16, NODE48, NODE256}
BY PartNodeAssumption, DigitsAssumption DEF NODE4, NODE16, NODE48, NODE256

\* What each layout reads.
LEMMA Is4 ==
  ASSUME NEW nd, nd[Hdr].type = NODE4
  PROVE  /\ Taken(nd) = {e.i_ptr : e \in Range(nd[Slots])}
         /\ \A c : PlaceOf(nd, c) = {e.i_ptr : e \in {e \in Range(nd[Slots]) : e.key = c}}
         /\ Live(nd) = {Hdr, Slots} \cup {Child(i) : i \in Taken(nd)}
         /\ Capacity(nd[Hdr].type) = CAP4
BY Caps DEF Taken, PlaceOf, Live, Capacity

LEMMA Is16 ==
  ASSUME NEW nd, nd[Hdr].type = NODE16
  PROVE  /\ Taken(nd) = nd[Bitmap]
         /\ \A c : PlaceOf(nd, c) = {i \in nd[Bitmap] : nd[Key(i)] = c}
         /\ Live(nd) = {Hdr, Bitmap} \cup {Key(i) : i \in nd[Bitmap]} \cup {Child(i) : i \in nd[Bitmap]}
         /\ Capacity(nd[Hdr].type) = CAP16
BY Caps DEF Taken, PlaceOf, Live, Capacity

LEMMA Is48 ==
  ASSUME NEW nd, nd[Hdr].type = NODE48
  PROVE  /\ Taken(nd) = UNION {nd[w].p : w \in AllBits}
         /\ \A c : PlaceOf(nd, c) = IF c \in nd[Bits(c)].k THEN {nd[Key(c)]} ELSE {}
         /\ Live(nd) = {Hdr} \cup AllBits \cup {Key(c) : c \in Present(nd)} \cup {Child(i) : i \in Taken(nd)}
         /\ Capacity(nd[Hdr].type) = CAP48
BY Caps DEF Taken, PlaceOf, Live, Capacity

LEMMA Is256 ==
  ASSUME NEW nd, nd[Hdr].type = NODE256
  PROVE  /\ Taken(nd) = {}
         /\ \A c : PlaceOf(nd, c) = IF nd[Child(c)] # NULL THEN {c} ELSE {}
         /\ Live(nd) = {Hdr} \cup {Child(c) : c \in Digit}
         /\ Capacity(nd[Hdr].type) = FAN
BY Caps DEF Taken, PlaceOf, Live, Capacity

\* The elements of a sequence.
LEMMA RangeOf ==
  ASSUME NEW X, NEW s \in Seq(X), NEW e
  PROVE  /\ e \in Range(s) <=> \E j \in 1 .. Len(s) : e = s[j]
         /\ e \in Range(s) => e \in X
BY DEF Range

\* Words of different kinds are different words.
LEMMA WordsApart ==
  /\ \A i : Hdr # Child(i) /\ Slots # Child(i) /\ Bitmap # Child(i) /\ Hdr # Key(i) /\ Slots # Key(i) /\ Bitmap # Key(i)
  /\ \A i, j : (Child(i) = Child(j) <=> i = j) /\ (Key(i) = Key(j) <=> i = j) /\ Key(i) # Child(j)
  /\ \A c, i : Bits(c) # Child(i) /\ Bits(c) # Key(i) /\ Bits(c) # Hdr /\ Bits(c) # Slots /\ Bits(c) # Bitmap
  /\ \A w \in AllBits : \E c \in Digit : w = Bits(c)
  /\ \A c \in Digit : Bits(c) \in AllBits
  /\ Hdr # Slots /\ Hdr # Bitmap /\ Slots # Bitmap
BY DEF Hdr, Slots, Bitmap, Bits, Child, Key, AllBits, Digit

\* The words that say which others count say the same.
Agrees(nd, nd2) ==
  \A w \in Live(nd) : \/ nd2[w] = nd[w]
                      \/ w = Hdr /\ nd2[w].type = nd[w].type
                      \/ (\E i : w = Child(i)) /\ (nd2[w] = NULL <=> nd[w] = NULL)

\* Nodes that agree on them hold the same children at the same places.
LEMMA PlacesSame ==
  ASSUME NEW nd, NEW nd2, Fits(nd), Agrees(nd, nd2)
  PROVE  /\ Fits(nd2) /\ nd2[Hdr].type = nd[Hdr].type /\ Taken(nd2) = Taken(nd)
         /\ \A c \in Digit : PlaceOf(nd2, c) = PlaceOf(nd, c)
         /\ Live(nd2) = Live(nd)
<1>1. Hdr \in Live(nd)
  BY DEF Live
<1>2. nd2[Hdr].type = nd[Hdr].type
  BY <1>1, WordsApart DEF Agrees
<1>3. CASE nd[Hdr].type = NODE4
  <2>0. nd2[Hdr].type = NODE4
    BY <1>2, <1>3
  <2>1. nd2[Slots] = nd[Slots]
    BY <1>3, Is4, WordsApart DEF Agrees
  <2>2. Taken(nd2) = Taken(nd)
    BY <1>3, <2>0, <2>1, Is4
  <2>3. \A c \in Digit : PlaceOf(nd2, c) = PlaceOf(nd, c)
    BY <1>3, <2>0, <2>1, Is4
  <2>4. Live(nd2) = Live(nd)
    BY <1>3, <2>0, <2>2, Is4
  <2> QED BY <1>2, <2>0, <1>3, <2>1, <2>2, <2>3, <2>4, Caps DEF Fits, Fit4
<1>4. CASE nd[Hdr].type = NODE16
  <2>0. nd2[Hdr].type = NODE16
    BY <1>2, <1>4
  <2>1. nd2[Bitmap] = nd[Bitmap]
    BY <1>4, Is16, WordsApart DEF Agrees
  <2>2. \A i \in nd[Bitmap] : nd2[Key(i)] = nd[Key(i)]
    BY <1>4, Is16, WordsApart DEF Agrees
  <2>3. \A c \in Digit : PlaceOf(nd2, c) = PlaceOf(nd, c)
    <3> SUFFICES ASSUME NEW c \in Digit PROVE PlaceOf(nd2, c) = PlaceOf(nd, c)
      OBVIOUS
    <3>1. PlaceOf(nd2, c) = {i \in nd2[Bitmap] : nd2[Key(i)] = c}
      BY <2>0, Is16
    <3>2. PlaceOf(nd, c) = {i \in nd[Bitmap] : nd[Key(i)] = c}
      BY <1>4, Is16
    <3> QED BY <2>1, <2>2, <3>1, <3>2
  <2>4. Taken(nd2) = Taken(nd) /\ Live(nd2) = Live(nd)
    BY <2>0, <2>1, <1>4, Is16
  <2>5. Fit16(nd2)
    BY <1>4, <2>1, <2>2, Caps DEF Fits, Fit16
  <2> QED BY <1>2, <2>0, <2>3, <2>4, <2>5, Caps DEF Fits
<1>5. CASE nd[Hdr].type = NODE48
  <2>0. nd2[Hdr].type = NODE48
    BY <1>2, <1>5
  <2>1. \A w \in AllBits : nd2[w] = nd[w]
    <3>1. \A w \in AllBits : w \in Live(nd) /\ w # Hdr /\ ~\E i : w = Child(i)
      BY <1>5, Is48, WordsApart
    <3> QED BY <3>1 DEF Agrees
  <2>2. \A c \in Digit : c \in nd[Bits(c)].k => c \in Present(nd)
    BY <1>5, Is48 DEF Present, Digit
  <2>3. \A c \in Digit : c \in nd[Bits(c)].k => nd2[Key(c)] = nd[Key(c)]
    <3>1. \A c \in Present(nd) : Key(c) \in Live(nd) /\ Key(c) # Hdr /\ ~\E i : Key(c) = Child(i)
      BY <1>5, Is48, WordsApart
    <3> QED BY <2>2, <3>1 DEF Agrees
  <2>4. \A c \in Digit : PlaceOf(nd2, c) = PlaceOf(nd, c)
    <3> SUFFICES ASSUME NEW c \in Digit PROVE PlaceOf(nd2, c) = PlaceOf(nd, c)
      OBVIOUS
    <3>1. nd2[Bits(c)] = nd[Bits(c)]
      BY <2>1, WordsApart
    <3>2. PlaceOf(nd2, c) = IF c \in nd2[Bits(c)].k THEN {nd2[Key(c)]} ELSE {}
      BY <2>0, Is48
    <3>3. PlaceOf(nd, c) = IF c \in nd[Bits(c)].k THEN {nd[Key(c)]} ELSE {}
      BY <1>5, Is48
    <3> QED BY <2>3, <3>1, <3>2, <3>3
  <2>5. Present(nd2) = Present(nd)
    BY <2>4 DEF Present, Digit
  <2>6. Taken(nd2) = Taken(nd)
    <3>1. {nd2[w].p : w \in AllBits} = {nd[w].p : w \in AllBits}
      BY <2>1
    <3> QED BY <1>5, <2>0, <3>1, Is48
  <2>7. Live(nd2) = Live(nd)
    BY <2>0, <1>5, <2>5, <2>6, Is48
  <2>8. Fit48(nd)
    BY <1>5 DEF Fits
  <2>9. Fit48(nd2)
    <3> SUFFICES ASSUME NEW w \in AllBits
                 PROVE  /\ nd2[w] = [k |-> nd2[w].k, p |-> nd2[w].p]
                        /\ nd2[w].k \subseteq {c \in Digit : Bits(c) = w}
                        /\ nd2[w].p \subseteq 0 .. CAP48 - 1
                        /\ \A c \in nd2[w].k : nd2[Key(c)] \in nd2[w].p
      BY DEF Fit48
    <3>1. nd2[w] = nd[w]
      BY <2>1
    <3>2. \A c \in nd[w].k : nd2[Key(c)] = nd[Key(c)]
      BY <2>3, <2>8 DEF Fit48
    <3> QED BY <2>8, <3>1, <3>2 DEF Fit48
  <2> QED BY <1>2, <2>0, <2>4, <2>6, <2>7, <2>9, Caps DEF Fits
<1>6. CASE nd[Hdr].type = NODE256
  <2>0. nd2[Hdr].type = NODE256
    BY <1>2, <1>6
  <2>1. \A c \in Digit : nd2[Child(c)] = NULL <=> nd[Child(c)] = NULL
    BY <1>6, Is256, WordsApart DEF Agrees
  <2>2. \A c \in Digit : PlaceOf(nd2, c) = PlaceOf(nd, c)
    BY <2>0, <1>6, <2>1, Is256
  <2>3. Taken(nd2) = Taken(nd) /\ Live(nd2) = Live(nd)
    BY <2>0, <1>6, Is256
  <2> QED BY <1>2, <2>0, <2>2, <2>3, Caps DEF Fits
<1> QED BY <1>3, <1>4, <1>5, <1>6, Caps DEF Fits

\* A child's place.
LEMMA PlaceIs ==
  ASSUME NEW nd, Laid(nd), NEW c \in Digit, NEW i \in PlaceOf(nd, c)
  PROVE  /\ PlaceOf(nd, c) = {i} /\ Slot(nd, c) = Child(i) /\ find_child(nd, c) = nd[Child(i)]
         /\ nd[Child(i)] # NULL /\ i \in 0 .. Capacity(nd[Hdr].type) - 1
         /\ nd[Hdr].type # NODE256 => i \in Taken(nd)
         /\ nd[Hdr].type = NODE256 => i = c
         /\ Child(i) \in Live(nd)
<1>1. PlaceOf(nd, c) = {i}
  BY DEF Laid
<1>2. Fits(nd) /\ nd[Child(i)] # NULL
  BY DEF Laid
<1>3. i \in 0 .. Capacity(nd[Hdr].type) - 1 /\ (nd[Hdr].type # NODE256 => i \in Taken(nd))
  <2>1. CASE nd[Hdr].type = NODE4
    <3>1. i \in Taken(nd)
      BY <2>1, Is4
    <3>2. PICK e \in Range(nd[Slots]) : i = e.i_ptr
      BY <2>1, <3>1, Is4
    <3>3. nd[Slots] \in Seq(Slot4)
      BY <1>2, <2>1 DEF Fits, Fit4
    <3>4. e \in Slot4
      BY <3>2, <3>3, RangeOf
    <3> QED BY <2>1, <3>1, <3>2, <3>4, Is4 DEF Slot4
  <2>2. CASE nd[Hdr].type = NODE16
    <3>1. i \in nd[Bitmap]
      BY <2>2, Is16
    <3> QED BY <1>2, <2>2, <3>1, Is16 DEF Fits, Fit16
  <2>3. CASE nd[Hdr].type = NODE48
    <3>1. c \in nd[Bits(c)].k /\ i = nd[Key(c)]
      BY <2>3, Is48
    <3>2. i \in nd[Bits(c)].p /\ nd[Bits(c)].p \subseteq 0 .. CAP48 - 1 /\ Bits(c) \in AllBits
      BY <1>2, <2>3, <3>1, WordsApart DEF Fits, Fit48
    <3> QED BY <2>3, <3>2, Is48
  <2>4. CASE nd[Hdr].type = NODE256
    BY <2>4, Is256 DEF Digit
  <2> QED BY <1>2, <2>1, <2>2, <2>3, <2>4, Caps DEF Fits
<1>4. Min(PlaceOf(nd, c)) = i
  BY <1>1, <1>3 DEF Min
<1>5. nd[Hdr].type = NODE256 => i = c
  BY Is256
<1>6. Child(i) \in Live(nd)
  <2>1. CASE nd[Hdr].type = NODE4
    BY <1>3, <2>1, Is4, Caps
  <2>2. CASE nd[Hdr].type = NODE16
    BY <1>3, <2>2, Is16, Caps
  <2>3. CASE nd[Hdr].type = NODE48
    BY <1>3, <2>3, Is48, Caps
  <2>4. CASE nd[Hdr].type = NODE256
    BY <1>5, <2>4, Is256
  <2> QED BY <1>2, <2>1, <2>2, <2>3, <2>4, Caps DEF Fits
<1> QED BY <1>1, <1>2, <1>3, <1>4, <1>5, <1>6 DEF Slot, find_child

\* No child, no place.
LEMMA ChildNull ==
  ASSUME NEW nd, Laid(nd), NEW c \in Digit
  PROVE  /\ find_child(nd, c) = NULL <=> PlaceOf(nd, c) = {}
         /\ find_child(nd, c) # NULL => \E i \in PlaceOf(nd, c) : find_child(nd, c) = nd[Child(i)]
<1>1. CASE PlaceOf(nd, c) = {}
  BY <1>1 DEF find_child
<1>2. CASE PlaceOf(nd, c) # {}
  BY <1>2, PlaceIs
<1> QED BY <1>1, <1>2

\* What a node says depends on its live words alone.
LEMMA LiveSame ==
  ASSUME NEW nd, NEW nd2, Laid(nd), \A w \in Live(nd) : nd2[w] = nd[w]
  PROVE  /\ Laid(nd2) /\ nd2[Hdr] = nd[Hdr] /\ Live(nd2) = Live(nd) /\ Taken(nd2) = Taken(nd)
         /\ \A c \in Digit : /\ find_child(nd2, c) = find_child(nd, c) /\ PlaceOf(nd2, c) = PlaceOf(nd, c)
                             /\ Slot(nd2, c) = Slot(nd, c)
<1>1. /\ Fits(nd2) /\ nd2[Hdr] = nd[Hdr] /\ Taken(nd2) = Taken(nd)
      /\ \A c \in Digit : PlaceOf(nd2, c) = PlaceOf(nd, c)
      /\ Live(nd2) = Live(nd)
  <2>1. nd2[Hdr] = nd[Hdr]
    BY DEF Live
  <2>2. Fits(nd) /\ Agrees(nd, nd2)
    BY DEF Laid, Agrees
  <2> QED BY ONLY <2>1, <2>2, PlacesSame
<1>2. \A c \in Digit : \A i \in PlaceOf(nd, c) : nd2[Child(i)] = nd[Child(i)]
  BY PlaceIs
<1>3. Laid(nd2)
  BY <1>1, <1>2 DEF Laid
<1>4. \A c \in Digit : find_child(nd2, c) = find_child(nd, c)
  <2> SUFFICES ASSUME NEW c \in Digit PROVE find_child(nd2, c) = find_child(nd, c)
    OBVIOUS
  <2>1. CASE PlaceOf(nd, c) = {}
    BY <1>1, <2>1 DEF find_child
  <2>2. CASE PlaceOf(nd, c) # {}
    <3>1. PICK i \in PlaceOf(nd, c) : TRUE
      BY <2>2
    <3> QED BY <1>1, <1>2, <1>3, <3>1, PlaceIs
  <2> QED BY <2>1, <2>2
<1> QED BY <1>1, <1>3, <1>4 DEF Slot

\* Another path in the header changes nothing else.
LEMMA Retitled ==
  ASSUME NEW nd, NEW nd2, Laid(nd), nd2[Hdr].type = nd[Hdr].type, \A w \in Live(nd) : w # Hdr => nd2[w] = nd[w]
  PROVE  /\ Laid(nd2)
         /\ \A c \in Digit : find_child(nd2, c) = find_child(nd, c) /\ PlaceOf(nd2, c) = PlaceOf(nd, c)
<1>1. /\ Fits(nd2) /\ Taken(nd2) = Taken(nd)
      /\ \A c \in Digit : PlaceOf(nd2, c) = PlaceOf(nd, c)
  <2>1. Agrees(nd, nd2)
    BY DEF Agrees
  <2> QED BY <2>1, PlacesSame DEF Laid
<1>2. \A c \in Digit : \A i \in PlaceOf(nd, c) : nd2[Child(i)] = nd[Child(i)]
  BY PlaceIs, WordsApart
<1>3. Laid(nd2)
  BY <1>1, <1>2 DEF Laid
<1>4. \A c \in Digit : find_child(nd2, c) = find_child(nd, c)
  <2> SUFFICES ASSUME NEW c \in Digit PROVE find_child(nd2, c) = find_child(nd, c)
    OBVIOUS
  <2>1. CASE PlaceOf(nd, c) = {}
    BY <1>1, <2>1 DEF find_child
  <2>2. CASE PlaceOf(nd, c) # {}
    <3>1. PICK i \in PlaceOf(nd, c) : TRUE
      BY <2>2
    <3> QED BY <1>1, <1>2, <1>3, <3>1, PlaceIs
  <2> QED BY <2>1, <2>2
<1> QED BY <1>1, <1>3, <1>4

\* A pointer of the node is replaced.
LEMMA PointerSet ==
  ASSUME NEW nd, NEW nd2, Laid(nd), NEW c \in Digit, find_child(nd, c) # NULL, NEW x, x # NULL,
         nd2[Slot(nd, c)] = x, \A w \in Live(nd) : w # Slot(nd, c) => nd2[w] = nd[w]
  PROVE  /\ Laid(nd2) /\ nd2[Hdr] = nd[Hdr] /\ Live(nd2) = Live(nd) /\ Slot(nd, c) \in Live(nd)
         /\ \A d \in Digit : /\ find_child(nd2, d) = IF d = c THEN x ELSE find_child(nd, d)
                             /\ PlaceOf(nd2, d) = PlaceOf(nd, d)
<1>1. PICK i \in PlaceOf(nd, c) : TRUE
  BY ChildNull
<1>2. Slot(nd, c) = Child(i) /\ nd[Child(i)] # NULL /\ Child(i) \in Live(nd) /\ PlaceOf(nd, c) = {i}
  BY <1>1, PlaceIs
<1>3. Agrees(nd, nd2)
  BY <1>2 DEF Agrees
<1>4. /\ Fits(nd2) /\ nd2[Hdr] = nd[Hdr] /\ Taken(nd2) = Taken(nd)
      /\ \A d \in Digit : PlaceOf(nd2, d) = PlaceOf(nd, d)
      /\ Live(nd2) = Live(nd)
  <2>1. nd2[Hdr] = nd[Hdr]
    BY <1>2, WordsApart DEF Live
  <2> QED BY <1>3, <2>1, PlacesSame DEF Laid
<1>5. \A d \in Digit : \A j \in PlaceOf(nd, d) : nd2[Child(j)] = IF d = c THEN x ELSE nd[Child(j)]
  <2> SUFFICES ASSUME NEW d \in Digit, NEW j \in PlaceOf(nd, d)
               PROVE  nd2[Child(j)] = IF d = c THEN x ELSE nd[Child(j)]
    OBVIOUS
  <2>1. d = c <=> j = i
    BY <1>1 DEF Laid
  <2>2. Child(j) \in Live(nd)
    BY PlaceIs
  <2> QED BY <1>2, <2>1, <2>2, WordsApart
<1>6. Laid(nd2)
  <2>1. \A d \in Digit : \A j \in PlaceOf(nd, d) : nd2[Child(j)] # NULL
    BY <1>5 DEF Laid
  <2> QED BY <1>4, <2>1 DEF Laid
<1>7. ASSUME NEW d \in Digit
      PROVE  find_child(nd2, d) = IF d = c THEN x ELSE find_child(nd, d)
  <2>1. CASE PlaceOf(nd, d) = {}
    BY <1>1, <1>4, <2>1 DEF find_child
  <2>2. CASE PlaceOf(nd, d) # {}
    <3>1. PICK j \in PlaceOf(nd, d) : TRUE
      BY <2>2
    <3>2. find_child(nd2, d) = nd2[Child(j)]
      BY <1>4, <1>6, <3>1, PlaceIs
    <3>3. find_child(nd, d) = nd[Child(j)]
      BY <3>1, PlaceIs
    <3> QED BY <1>5, <3>1, <3>2, <3>3
  <2> QED BY <2>1, <2>2
<1> QED BY <1>2, <1>4, <1>6, <1>7

-----------------------------------------------------------------------------
(* Adding a child *)

\* Two functions together: a word of the first, ...
LEMMA BothL ==
  ASSUME NEW f, NEW g, NEW l \in DOMAIN f
  PROVE  Both(f, g)[l] = f[l]
BY DEF Both

\* ... and one of the second alone.
LEMMA BothR ==
  ASSUME NEW f, NEW g, NEW l \in DOMAIN g, l \notin DOMAIN f
  PROVE  Both(f, g)[l] = g[l]
BY DEF Both

\* Min is what it says.
LEMMA LeastIs ==
  ASSUME NEW S, S \subseteq Nat, S # {}
  PROVE  Min(S) \in S /\ \A m \in S : Min(S) <= m
<1>1. \E k \in S : \A m \in S : k <= m
  BY LeastOf
<1> QED BY <1>1 DEF Min

\* An element among others.
LEMMA InsertedIs ==
  ASSUME NEW X, NEW s \in Seq(X), NEW e \in X, NEW p \in 1 .. Len(s) + 1
  PROVE  InsertAt(s, p, e) \in Seq(X) /\ \A x : x \in Range(InsertAt(s, p, e)) <=> x \in Range(s) \/ x = e
<1> DEFINE a == SubSeq(s, 1, p - 1)
           b == SubSeq(s, p, Len(s))
           m == a \o <<e>>
           t == m \o b
<1>1. InsertAt(s, p, e) = t
  BY DEF InsertAt
<1>0. p - 1 \in 0 .. Len(s) /\ p \in Nat /\ Len(s) \in Nat
  OBVIOUS
<1>2. /\ a \in Seq(X) /\ Len(a) = p - 1 /\ \A j \in 1 .. p - 1 : a[j] = s[j]
  BY SubSeqProperties
<1>3. /\ b \in Seq(X) /\ Len(b) = Len(s) - p + 1 /\ \A j \in 1 .. Len(s) - p + 1 : b[j] = s[p + j - 1]
  BY SubSeqProperties
<1> HIDE DEF a, b
<1>4. /\ t \in Seq(X) /\ Len(t) = Len(s) + 1
      /\ \A j \in 1 .. Len(s) + 1 : t[j] = IF j < p THEN a[j] ELSE IF j = p THEN e ELSE b[j - p]
  <2>1. m \in Seq(X) /\ Len(m) = p /\ \A j \in 1 .. p : m[j] = IF j < p THEN a[j] ELSE e
    BY <1>0, <1>2
  <2> HIDE DEF m
  <2>2. t \in Seq(X) /\ Len(t) = p + (Len(s) - p + 1)
    BY <1>0, <1>3, <2>1
  <2>3. \A j \in 1 .. p + (Len(s) - p + 1) : t[j] = IF j <= p THEN m[j] ELSE b[j - p]
    BY <1>0, <1>3, <2>1
  <2>4. p + (Len(s) - p + 1) = Len(s) + 1
    BY <1>0
  <2> HIDE DEF t
  <2>5. ASSUME NEW j \in 1 .. Len(s) + 1
        PROVE  t[j] = IF j < p THEN a[j] ELSE IF j = p THEN e ELSE b[j - p]
    <3>1. t[j] = IF j <= p THEN m[j] ELSE b[j - p]
      BY <2>3, <2>4
    <3>2. CASE j <= p
      <4>1. j \in 1 .. p
        BY <1>0, <3>2
      <4> QED BY <1>0, <2>1, <3>1, <3>2, <4>1
    <3>3. CASE ~(j <= p)
      BY <1>0, <3>1, <3>3
    <3> QED BY <3>2, <3>3
  <2> QED BY <2>2, <2>4, <2>5
<1>5. \A j \in 1 .. Len(s) + 1 : t[j] = IF j < p THEN s[j] ELSE IF j = p THEN e ELSE s[j - 1]
  <2> SUFFICES ASSUME NEW j \in 1 .. Len(s) + 1
               PROVE  t[j] = IF j < p THEN s[j] ELSE IF j = p THEN e ELSE s[j - 1]
    OBVIOUS
  <2>1. CASE j < p
    BY <1>2, <1>4, <2>1
  <2>2. CASE j > p
    <3>1. j - p \in 1 .. Len(s) - p + 1 /\ p + (j - p) - 1 = j - 1
      BY <2>2
    <3> QED BY <1>3, <1>4, <2>2, <3>1
  <2> QED BY <1>4, <2>1, <2>2
<1> HIDE DEF t
<1>6. ASSUME NEW x, x \in Range(t) PROVE x \in Range(s) \/ x = e
  <2>1. PICK j \in 1 .. Len(s) + 1 : x = t[j]
    BY <1>4, <1>6, RangeOf
  <2>2. j < p => j \in 1 .. Len(s)
    OBVIOUS
  <2>3. j > p => j - 1 \in 1 .. Len(s)
    OBVIOUS
  <2> QED BY <1>5, <2>1, <2>2, <2>3, RangeOf
<1>7. ASSUME NEW x, x \in Range(s) \/ x = e PROVE x \in Range(t)
  <2>1. CASE x = e
    <3>1. x = t[p]
      BY <1>5, <2>1
    <3> QED BY <1>4, <3>1, RangeOf
  <2>2. CASE x \in Range(s)
    <3>1. PICK j \in 1 .. Len(s) : x = s[j]
      BY <2>2, RangeOf
    <3>2. CASE j < p
      BY <1>4, <1>5, <3>1, <3>2, RangeOf
    <3>3. CASE j >= p
      <4>1. j + 1 \in 1 .. Len(s) + 1 /\ j + 1 > p /\ (j + 1) - 1 = j
        BY <3>3
      <4>2. t[j + 1] = x
        BY <1>5, <3>1, <4>1
      <4> QED BY <1>4, <4>1, <4>2, RangeOf
    <3> QED BY <3>2, <3>3
  <2> QED BY <1>7, <2>1, <2>2
<1> QED BY <1>1, <1>4, <1>6, <1>7

\* The entry that insertion in key order adds to slot[] (PART.c:688-706).
LEMMA InOrderIs ==
  ASSUME NEW s \in Seq(Slot4), NEW e \in Slot4
  PROVE  InOrder(s, e) \in Seq(Slot4) /\ \A x : x \in Range(InOrder(s, e)) <=> x \in Range(s) \/ x = e
<1> DEFINE later == {i \in DOMAIN s : e.key < s[i].key}
           p == IF later = {} THEN Len(s) + 1 ELSE Min(later)
<1>1. InOrder(s, e) = InsertAt(s, p, e)
  BY DEF InOrder
<1>2. later \subseteq 1 .. Len(s) /\ later \subseteq Nat
  OBVIOUS
<1>3. later # {} => Min(later) \in later
  BY <1>2, LeastIs
<1>4. p \in 1 .. Len(s) + 1
  BY <1>2, <1>3
<1> HIDE DEF p
<1> QED BY <1>1, <1>4, InsertedIs

\* The place a child is given.
LEMMA FreePlace ==
  ASSUME NEW nd, Laid(nd), nd[Hdr].type # NODE256
  PROVE  /\ Taken(nd) \subseteq 0 .. Capacity(nd[Hdr].type) - 1
         /\ HasRoom(nd) => \E i \in 0 .. Capacity(nd[Hdr].type) - 1 :
                             i \notin Taken(nd) /\ i = Min((0 .. Capacity(nd[Hdr].type) - 1) \ Taken(nd))
<1> DEFINE cap == Capacity(nd[Hdr].type)
           free == (0 .. cap - 1) \ Taken(nd)
<1>0. cap \in Nat
  BY Caps DEF Laid, Fits, Capacity
<1>1. Taken(nd) \subseteq 0 .. cap - 1
  <2> SUFFICES ASSUME NEW i \in Taken(nd) PROVE i \in 0 .. cap - 1
    OBVIOUS
  <2>1. PICK c \in Digit : i \in PlaceOf(nd, c)
    BY DEF Laid
  <2> QED BY <2>1, PlaceIs
<1>2. ASSUME HasRoom(nd) PROVE Min(free) \in free
  <2>1. Taken(nd) # 0 .. cap - 1
    BY <1>2 DEF HasRoom
  <2>2. free # {}
    BY <1>1, <2>1
  <2>3. free \subseteq Nat
    BY <1>0
  <2> HIDE DEF free
  <2> QED BY <2>2, <2>3, LeastIs
<1> QED BY <1>1, <1>2

\* nd2 is nd with a child x for c at the place i.
WithChild(nd, nd2, c, x, i) ==
  /\ nd2[Hdr] = nd[Hdr] /\ Fits(nd2)
  /\ PlaceOf(nd2, c) = {i} /\ nd2[Child(i)] = x
  /\ \A d \in Digit : d # c => PlaceOf(nd2, d) = PlaceOf(nd, d)
  /\ \A d \in Digit : d # c => \A j \in PlaceOf(nd, d) : j # i /\ nd2[Child(j)] = nd[Child(j)]
  /\ nd[Hdr].type # NODE256 => Taken(nd2) = Taken(nd) \cup {i}

\* Such a node is laid out and finds x besides what nd finds.
LEMMA ChildAdded ==
  ASSUME NEW nd, Laid(nd), NEW c \in Digit, find_child(nd, c) = NULL, NEW x, x # NULL, NEW i, NEW nd2,
         WithChild(nd, nd2, c, x, i)
  PROVE  Laid(nd2) /\ \A d \in Digit : find_child(nd2, d) = IF d = c THEN x ELSE find_child(nd, d)
<1>1. /\ nd2[Hdr] = nd[Hdr] /\ Fits(nd2)
      /\ PlaceOf(nd2, c) = {i} /\ nd2[Child(i)] = x
      /\ \A d \in Digit : d # c => PlaceOf(nd2, d) = PlaceOf(nd, d)
      /\ \A d \in Digit : d # c => \A j \in PlaceOf(nd, d) : j # i /\ nd2[Child(j)] = nd[Child(j)]
      /\ nd[Hdr].type # NODE256 => Taken(nd2) = Taken(nd) \cup {i}
  BY DEF WithChild
<1>2. PlaceOf(nd, c) = {}
  BY ChildNull
<1>3. \A a, b \in Digit : \A j \in PlaceOf(nd2, a), l \in PlaceOf(nd2, b) : a = b <=> j = l
  <2> SUFFICES ASSUME NEW a \in Digit, NEW b \in Digit, NEW j \in PlaceOf(nd2, a), NEW l \in PlaceOf(nd2, b)
               PROVE  a = b <=> j = l
    OBVIOUS
  <2>1. CASE a = c
    BY <1>1, <2>1
  <2>2. CASE b = c
    BY <1>1, <2>2
  <2>3. CASE a # c /\ b # c
    <3>1. j \in PlaceOf(nd, a) /\ l \in PlaceOf(nd, b)
      BY <1>1, <2>3
    <3> QED BY <3>1 DEF Laid
  <2> QED BY <2>1, <2>2, <2>3
<1>4. \A d \in Digit : \A j \in PlaceOf(nd2, d) : nd2[Child(j)] # NULL
  <2> SUFFICES ASSUME NEW d \in Digit, NEW j \in PlaceOf(nd2, d) PROVE nd2[Child(j)] # NULL
    OBVIOUS
  <2>1. CASE d # c
    <3>1. j \in PlaceOf(nd, d) /\ nd2[Child(j)] = nd[Child(j)]
      BY <1>1, <2>1
    <3> QED BY <3>1 DEF Laid
  <2> QED BY <1>1, <2>1
<1>5. nd2[Hdr].type # NODE256 => \A j \in Taken(nd2) : \E d \in Digit : j \in PlaceOf(nd2, d)
  <2> SUFFICES ASSUME nd[Hdr].type # NODE256, NEW j \in Taken(nd2) PROVE \E d \in Digit : j \in PlaceOf(nd2, d)
    BY <1>1
  <2>1. CASE j = i
    BY <1>1, <2>1
  <2>2. CASE j \in Taken(nd)
    <3>1. PICK d \in Digit : j \in PlaceOf(nd, d)
      BY <2>2 DEF Laid
    <3> QED BY <1>1, <1>2, <3>1
  <2> QED BY <1>1, <2>1, <2>2
<1>6. Laid(nd2)
  BY <1>1, <1>3, <1>4, <1>5 DEF Laid
<1>7. ASSUME NEW d \in Digit PROVE find_child(nd2, d) = IF d = c THEN x ELSE find_child(nd, d)
  <2>1. CASE d = c
    BY <1>1, <1>6, <2>1, PlaceIs
  <2>2. CASE d # c /\ PlaceOf(nd, d) = {}
    BY <1>1, <2>2 DEF find_child
  <2>3. CASE d # c /\ PlaceOf(nd, d) # {}
    <3>1. PICK j \in PlaceOf(nd, d) : TRUE
      BY <2>3
    <3>2. find_child(nd, d) = nd[Child(j)] /\ find_child(nd2, d) = nd2[Child(j)]
      BY <1>1, <1>6, <2>3, <3>1, PlaceIs
    <3> QED BY <1>1, <2>3, <3>1, <3>2
  <2> QED BY <2>1, <2>2, <2>3
<1> QED BY <1>6, <1>7

\* The words of the layouts.
LEMMA TypeWordsAre ==
  /\ TypeWords(NODE4) = {Hdr, Slots} \cup {Child(i) : i \in 0 .. CAP4 - 1}
  /\ TypeWords(NODE16) = {Hdr, Bitmap} \cup {Key(i) : i \in 0 .. CAP16 - 1} \cup {Child(i) : i \in 0 .. CAP16 - 1}
  /\ TypeWords(NODE48) = {Hdr} \cup AllBits \cup {Key(i) : i \in 0 .. FAN - 1} \cup {Child(i) : i \in 0 .. CAP48 - 1}
  /\ TypeWords(NODE256) = {Hdr} \cup {Child(i) : i \in 0 .. FAN - 1}
  /\ \A t \in NODE4 .. NODE256 : TypeWords(t) \subseteq NodeWords
<1>1. NODE4 = 1 /\ NODE16 = 2 /\ NODE48 = 3 /\ NODE256 = 4
  BY Caps
<1>2. TypeWords(NODE4) = {Hdr, Slots} \cup {Child(i) : i \in 0 .. CAP4 - 1}
  BY <1>1 DEF TypeWords
<1>3. TypeWords(NODE16) = {Hdr, Bitmap} \cup {Key(i) : i \in 0 .. CAP16 - 1} \cup {Child(i) : i \in 0 .. CAP16 - 1}
  BY <1>1 DEF TypeWords
<1>4. TypeWords(NODE48) = {Hdr} \cup AllBits \cup {Key(i) : i \in 0 .. FAN - 1} \cup {Child(i) : i \in 0 .. CAP48 - 1}
  BY <1>1 DEF TypeWords
<1>5. TypeWords(NODE256) = {Hdr} \cup {Child(i) : i \in 0 .. FAN - 1}
  BY <1>1 DEF TypeWords
<1>6. \A t \in NODE4 .. NODE256 : TypeWords(t) \subseteq NodeWords
  BY DEF NodeWords
<1> QED BY <1>2, <1>3, <1>4, <1>5, <1>6

\* The live words belong to the layout.
LEMMA LiveWords ==
  ASSUME NEW nd, Laid(nd)
  PROVE  Live(nd) \subseteq TypeWords(nd[Hdr].type) /\ Hdr \in Live(nd) /\ TypeWords(nd[Hdr].type) \subseteq NodeWords
<1>1. Fits(nd) /\ Hdr \in Live(nd) /\ TypeWords(nd[Hdr].type) \subseteq NodeWords
  BY TypeWordsAre DEF Laid, Fits, Live
<1>2. \A i \in Taken(nd) : nd[Hdr].type # NODE256 => i \in 0 .. Capacity(nd[Hdr].type) - 1
  BY FreePlace
<1>3. CASE nd[Hdr].type = NODE4
  BY <1>2, <1>3, Is4, TypeWordsAre, Caps
<1>4. CASE nd[Hdr].type = NODE16
  BY <1>2, <1>4, Is16, TypeWordsAre, Caps
<1>5. CASE nd[Hdr].type = NODE48
  <2>1. \A i \in Taken(nd) : i \in 0 .. CAP48 - 1
    BY <1>2, <1>5, Is48, Caps
  <2>2. Present(nd) \subseteq 0 .. FAN - 1
    BY DEF Present
  <2>3. Live(nd) = {Hdr} \cup AllBits \cup {Key(c) : c \in Present(nd)} \cup {Child(i) : i \in Taken(nd)}
    BY <1>5, Is48
  <2>4. TypeWords(NODE48) = {Hdr} \cup AllBits \cup {Key(i) : i \in 0 .. FAN - 1} \cup {Child(i) : i \in 0 .. CAP48 - 1}
    BY TypeWordsAre
  <2> QED BY <1>1, <1>5, <2>1, <2>2, <2>3, <2>4
<1>6. CASE nd[Hdr].type = NODE256
  <2>1. Live(nd) = {Hdr} \cup {Child(c) : c \in 0 .. FAN - 1}
    BY <1>6, Is256 DEF Digit
  <2>2. TypeWords(NODE256) = {Hdr} \cup {Child(c) : c \in 0 .. FAN - 1}
    BY TypeWordsAre
  <2> QED BY <1>1, <1>6, <2>1, <2>2
<1> QED BY <1>1, <1>3, <1>4, <1>5, <1>6, Caps DEF Fits

\* What add_child stores: the place, the digit and the word that commits.
Adding(nd, c, x, a) ==
  /\ CommitWord(nd, c) \in DOMAIN a
  /\ DOMAIN a \subseteq TypeWords(nd[Hdr].type) \ {Hdr}
  /\ \A w \in DOMAIN a : w \in Live(nd) => w = CommitWord(nd, c)

\* add_child4 in place (PART.c:665-707), ...
LEMMA Added4 ==
  ASSUME NEW nd, Laid(nd), nd[Hdr].type = NODE4, NEW c \in Digit, find_child(nd, c) = NULL, NEW x, HasRoom(nd),
         NEW a, a = Added(nd, c, x), NEW big, big = Both(a, nd), Live(nd) \subseteq DOMAIN nd
  PROVE  Adding(nd, c, x, a) /\ Live(big) \subseteq Live(nd) \cup DOMAIN a /\ \E i : WithChild(nd, big, c, x, i)
<1> DEFINE cap == Capacity(nd[Hdr].type)
<1>0. cap = CAP4 /\ nd[Hdr].type # NODE256
  BY Is4, Caps
<1>1. PICK i \in 0 .. CAP4 - 1 : i \notin Taken(nd) /\ i = Min((0 .. cap - 1) \ Taken(nd))
  BY <1>0, FreePlace
<1>2. PlaceOf(nd, c) = {}
  BY ChildNull
<1> DEFINE e == [key |-> c, i_ptr |-> i]
           s == InOrder(nd[Slots], e)
<1>3. a = Both(Word(Child(i), x), Word(Slots, s))
  BY <1>1, Caps DEF Added
<1>4. nd[Slots] \in Seq(Slot4) /\ e \in Slot4
  BY Caps DEF Laid, Fits, Fit4, Slot4
<1>5. s \in Seq(Slot4) /\ \A y : y \in Range(s) <=> y \in Range(nd[Slots]) \/ y = e
  BY <1>4, InOrderIs
<1> HIDE DEF s
<1>6. DOMAIN a = {Child(i), Slots} /\ a[Child(i)] = x /\ a[Slots] = s
  <2>1. Child(i) # Slots
    BY WordsApart
  <2> QED BY <1>3, <2>1 DEF Both, Word
<1>7. CommitWord(nd, c) = Slots
  BY Caps DEF CommitWord
<1>8. Live(nd) = {Hdr, Slots} \cup {Child(j) : j \in Taken(nd)}
  BY Is4
<1>9. Adding(nd, c, x, a)
  <2>1. Child(i) \notin Live(nd) /\ Slots # Hdr /\ Child(i) # Hdr
    BY <1>1, <1>8, WordsApart
  <2>2. Child(i) \in TypeWords(NODE4) /\ Slots \in TypeWords(NODE4)
    BY TypeWordsAre
  <2> QED BY <1>6, <1>7, <2>1, <2>2 DEF Adding
<1>10. big[Child(i)] = x /\ big[Slots] = s /\ big[Hdr] = nd[Hdr] /\ \A j \in Taken(nd) : big[Child(j)] = nd[Child(j)]
  <2>1. big[Child(i)] = x /\ big[Slots] = s
    BY <1>6, BothL
  <2>2. Hdr \in Live(nd) /\ Hdr \notin DOMAIN a
    BY <1>6, <1>8, WordsApart
  <2>3. \A j \in Taken(nd) : Child(j) \in Live(nd) /\ Child(j) \notin DOMAIN a
    BY <1>1, <1>6, <1>8, WordsApart
  <2> QED BY <2>1, <2>2, <2>3, BothR
<1>11. big[Hdr].type = NODE4
  BY <1>10
<1>12. Fits(big)
  BY <1>5, <1>10, <1>11, Caps DEF Fits, Fit4
<1>13. Taken(big) = Taken(nd) \cup {i}
  <2>1. Taken(big) = {y.i_ptr : y \in Range(s)}
    BY <1>10, <1>11, Is4
  <2>2. Taken(nd) = {y.i_ptr : y \in Range(nd[Slots])}
    BY Is4
  <2>3. e.i_ptr = i
    OBVIOUS
  <2> HIDE DEF e
  <2> QED BY <1>5, <2>1, <2>2, <2>3
<1>14. \A d : PlaceOf(big, d) = {y.i_ptr : y \in {y \in Range(s) : y.key = d}}
  BY <1>10, <1>11, Is4
<1>15. \A d : PlaceOf(nd, d) = {y.i_ptr : y \in {y \in Range(nd[Slots]) : y.key = d}}
  BY Is4
<1>16. e.key = c /\ e.i_ptr = i
  OBVIOUS
<1> HIDE DEF e
<1>17. PlaceOf(big, c) = {i}
  <2>0. PlaceOf(nd, c) = {y.i_ptr : y \in {y \in Range(nd[Slots]) : y.key = c}}
    BY <1>15
  <2>1. \A y \in Range(nd[Slots]) : y.key # c
    BY <1>2, <2>0
  <2>2. {y \in Range(s) : y.key = c} = {e}
    BY <1>5, <1>16, <2>1
  <2> QED BY <1>14, <1>16, <2>2
<1>18. \A d \in Digit : d # c => PlaceOf(big, d) = PlaceOf(nd, d)
  <2> SUFFICES ASSUME NEW d \in Digit, d # c PROVE PlaceOf(big, d) = PlaceOf(nd, d)
    OBVIOUS
  <2>1. {y \in Range(s) : y.key = d} = {y \in Range(nd[Slots]) : y.key = d}
    BY <1>5, <1>16
  <2> QED BY <1>14, <1>15, <2>1
<1>19. \A d \in Digit : \A j \in PlaceOf(nd, d) : j \in Taken(nd)
  BY PlaceIs, Caps
<1>20. WithChild(nd, big, c, x, i)
  BY <1>1, <1>10, <1>12, <1>13, <1>17, <1>18, <1>19 DEF WithChild
<1>21. Live(big) \subseteq Live(nd) \cup DOMAIN a
  <2>1. Live(big) = {Hdr, Slots} \cup {Child(j) : j \in Taken(big)}
    BY <1>11, Is4
  <2> QED BY <1>6, <1>8, <1>13, <2>1
<1> QED BY <1>9, <1>20, <1>21

\* ... add_child16 (PART.c:610-627), ...
LEMMA Added16 ==
  ASSUME NEW nd, Laid(nd), nd[Hdr].type = NODE16, NEW c \in Digit, find_child(nd, c) = NULL, NEW x, HasRoom(nd),
         NEW a, a = Added(nd, c, x), NEW big, big = Both(a, nd), Live(nd) \subseteq DOMAIN nd
  PROVE  Adding(nd, c, x, a) /\ Live(big) \subseteq Live(nd) \cup DOMAIN a /\ \E i : WithChild(nd, big, c, x, i)
<1> DEFINE cap == Capacity(nd[Hdr].type)
<1>0. cap = CAP16 /\ nd[Hdr].type # NODE256
  BY Is16, Caps
<1>1. PICK i \in 0 .. CAP16 - 1 : i \notin Taken(nd) /\ i = Min((0 .. cap - 1) \ Taken(nd))
  BY <1>0, FreePlace
<1>2. PlaceOf(nd, c) = {}
  BY ChildNull
<1>3. a = Both(Word(Child(i), x), Both(Word(Key(i), c), Word(Bitmap, nd[Bitmap] \cup {i})))
  BY <1>1, Caps DEF Added
<1>4. Fit16(nd) /\ Taken(nd) = nd[Bitmap]
  BY Is16 DEF Laid, Fits
<1>6. DOMAIN a = {Child(i), Key(i), Bitmap} /\ a[Child(i)] = x /\ a[Key(i)] = c /\ a[Bitmap] = nd[Bitmap] \cup {i}
  <2>1. Child(i) # Key(i) /\ Child(i) # Bitmap /\ Key(i) # Bitmap
    BY WordsApart
  <2> QED BY <1>3, <2>1 DEF Both, Word
<1>7. CommitWord(nd, c) = Bitmap
  BY Caps DEF CommitWord
<1>8. Live(nd) = {Hdr, Bitmap} \cup {Key(j) : j \in Taken(nd)} \cup {Child(j) : j \in Taken(nd)}
  BY <1>4, Is16
<1>9. Adding(nd, c, x, a)
  <2>1. Child(i) \notin Live(nd) /\ Key(i) \notin Live(nd)
    <3>1. ASSUME NEW w \in Live(nd) PROVE w # Child(i) /\ w # Key(i)
      <4>1. i \notin Taken(nd)
        BY <1>1
      <4>2. w \in {Hdr, Bitmap} \/ (\E j \in Taken(nd) : w = Key(j) \/ w = Child(j))
        BY ONLY <1>8, <3>1
      <4>3. CASE w \in {Hdr, Bitmap}
        BY ONLY <4>3, WordsApart
      <4>4. CASE \E j \in Taken(nd) : w = Key(j) \/ w = Child(j)
        <5>1. PICK j \in Taken(nd) : w = Key(j) \/ w = Child(j)
          BY <4>4
        <5>2. j # i
          BY ONLY <4>1, <5>1
        <5> QED BY ONLY <5>1, <5>2, WordsApart
      <4> QED BY ONLY <4>2, <4>3, <4>4
    <3> QED BY ONLY <3>1
  <2>2. Hdr \notin DOMAIN a
    BY <1>6, WordsApart
  <2>3. Child(i) \in TypeWords(NODE16) /\ Key(i) \in TypeWords(NODE16) /\ Bitmap \in TypeWords(NODE16)
    BY TypeWordsAre
  <2> QED BY <1>6, <1>7, <2>1, <2>2, <2>3 DEF Adding
<1>10. /\ big[Child(i)] = x /\ big[Key(i)] = c /\ big[Bitmap] = nd[Bitmap] \cup {i} /\ big[Hdr] = nd[Hdr]
       /\ \A j \in Taken(nd) : big[Child(j)] = nd[Child(j)] /\ big[Key(j)] = nd[Key(j)]
  <2>1. big[Child(i)] = x /\ big[Key(i)] = c /\ big[Bitmap] = nd[Bitmap] \cup {i}
    BY <1>6, BothL
  <2>2. Hdr \in Live(nd) /\ Hdr \notin DOMAIN a
    BY <1>6, <1>8, WordsApart
  <2>3. \A j \in Taken(nd) : Child(j) \in Live(nd) /\ Child(j) \notin DOMAIN a
    BY <1>1, <1>6, <1>8, WordsApart
  <2>4. \A j \in Taken(nd) : Key(j) \in Live(nd) /\ Key(j) \notin DOMAIN a
    BY <1>1, <1>6, <1>8, WordsApart
  <2> QED BY <2>1, <2>2, <2>3, <2>4, BothR
<1>11. big[Hdr].type = NODE16
  BY <1>10
<1>12. Fits(big)
  <2>1. Fit16(big)
    BY <1>1, <1>4, <1>10 DEF Fit16
  <2> QED BY <1>11, <2>1, Caps DEF Fits
<1>13. Taken(big) = Taken(nd) \cup {i}
  BY <1>4, <1>10, <1>11, Is16
<1>14. \A d : PlaceOf(big, d) = {j \in nd[Bitmap] \cup {i} : big[Key(j)] = d}
  BY <1>10, <1>11, Is16
<1>15. \A d : PlaceOf(nd, d) = {j \in nd[Bitmap] : nd[Key(j)] = d}
  BY Is16
<1>17. PlaceOf(big, c) = {i}
  <2>1. \A j \in nd[Bitmap] : big[Key(j)] # c
    BY <1>2, <1>4, <1>10, <1>15
  <2>2. {j \in nd[Bitmap] \cup {i} : big[Key(j)] = c} = {i}
    BY <1>10, <2>1
  <2> QED BY <1>14, <2>2
<1>18. \A d \in Digit : d # c => PlaceOf(big, d) = PlaceOf(nd, d)
  <2> SUFFICES ASSUME NEW d \in Digit, d # c PROVE PlaceOf(big, d) = PlaceOf(nd, d)
    OBVIOUS
  <2>1. {j \in nd[Bitmap] \cup {i} : big[Key(j)] = d} = {j \in nd[Bitmap] : nd[Key(j)] = d}
    BY <1>4, <1>10
  <2> QED BY <1>14, <1>15, <2>1
<1>19. \A d \in Digit : \A j \in PlaceOf(nd, d) : j \in Taken(nd)
  BY PlaceIs, Caps
<1>20. WithChild(nd, big, c, x, i)
  BY <1>1, <1>10, <1>12, <1>13, <1>17, <1>18, <1>19 DEF WithChild
<1>21. Live(big) \subseteq Live(nd) \cup DOMAIN a
  <2>1. Live(big) = {Hdr, Bitmap} \cup {Key(j) : j \in Taken(big)} \cup {Child(j) : j \in Taken(big)}
    BY <1>11, Is16
  <2> QED BY <1>6, <1>8, <1>13, <2>1
<1> QED BY <1>9, <1>20, <1>21

\* ... add_child48 (PART.c:538-561), ...
LEMMA Added48 ==
  ASSUME NEW nd, Laid(nd), nd[Hdr].type = NODE48, NEW c \in Digit, find_child(nd, c) = NULL, NEW x, HasRoom(nd),
         NEW a, a = Added(nd, c, x), NEW big, big = Both(a, nd), Live(nd) \subseteq DOMAIN nd
  PROVE  Adding(nd, c, x, a) /\ Live(big) \subseteq Live(nd) \cup DOMAIN a /\ \E i : WithChild(nd, big, c, x, i)
<1> DEFINE cap == Capacity(nd[Hdr].type)
<1>0. cap = CAP48 /\ nd[Hdr].type # NODE256
  BY Is48, Caps
<1>1. PICK i \in 0 .. CAP48 - 1 : i \notin Taken(nd) /\ i = Min((0 .. cap - 1) \ Taken(nd))
  BY <1>0, FreePlace
<1>2. PlaceOf(nd, c) = {}
  BY ChildNull
<1> DEFINE W == Bits(c)
           bits == [k |-> nd[W].k \cup {c}, p |-> nd[W].p \cup {i}]
<1>3. a = Both(Word(Child(i), x), Both(Word(Key(c), i), Word(W, bits)))
  BY <1>1, Caps DEF Added
<1>4. Fit48(nd) /\ W \in AllBits
  BY WordsApart DEF Laid, Fits
<1>5. W # Hdr /\ \A j : W # Key(j) /\ W # Child(j)
  BY WordsApart
<1> HIDE DEF W, bits
<1>7. DOMAIN a = {Child(i), Key(c), W} /\ a[Child(i)] = x /\ a[Key(c)] = i /\ a[W] = bits
  <2>1. Child(i) # Key(c) /\ Child(i) # W /\ Key(c) # W
    BY <1>5, WordsApart
  <2> QED BY <1>3, <2>1 DEF Both, Word
<1>8. CommitWord(nd, c) = W
  BY Caps DEF CommitWord, W
<1>9. Live(nd) = {Hdr} \cup AllBits \cup {Key(d) : d \in Present(nd)} \cup {Child(j) : j \in Taken(nd)}
  BY Is48
<1>10. c \notin Present(nd) /\ c \notin nd[W].k
  <2>1. PlaceOf(nd, c) = IF c \in nd[W].k THEN {nd[Key(c)]} ELSE {}
    BY Is48 DEF W
  <2> QED BY <1>2, <2>1 DEF Present
<1>11. Adding(nd, c, x, a)
  <2>1. Child(i) \notin Live(nd) /\ Key(c) \notin Live(nd)
    <3>1. Child(i) # Hdr /\ Key(c) # Hdr /\ \A w \in AllBits : Child(i) # w /\ Key(c) # w
      BY WordsApart
    <3>2. /\ \A d : Child(i) # Key(d) /\ (Key(c) = Key(d) => c = d)
          /\ \A j : Key(c) # Child(j) /\ (Child(i) = Child(j) => i = j)
      BY WordsApart
    <3> QED BY ONLY <1>1, <1>9, <1>10, <3>1, <3>2
  <2>2. DOMAIN a \subseteq TypeWords(NODE48) /\ Hdr \notin DOMAIN a
    <3>1. Child(i) \in TypeWords(NODE48) /\ Key(c) \in TypeWords(NODE48) /\ W \in TypeWords(NODE48)
      BY <1>4, TypeWordsAre DEF Digit
    <3>2. Hdr # Child(i) /\ Hdr # Key(c) /\ Hdr # W
      BY <1>5, WordsApart
    <3> QED BY <1>7, <3>1, <3>2
  <2> QED BY <1>7, <1>8, <2>1, <2>2 DEF Adding
<1>12. /\ big[Child(i)] = x /\ big[Key(c)] = i /\ big[W] = bits /\ big[Hdr] = nd[Hdr]
       /\ \A w \in AllBits : w # W => big[w] = nd[w]
       /\ \A j \in Taken(nd) : big[Child(j)] = nd[Child(j)]
       /\ \A d \in Present(nd) : big[Key(d)] = nd[Key(d)]
  <2>1. big[Child(i)] = x /\ big[Key(c)] = i /\ big[W] = bits
    BY <1>7, BothL
  <2>2. \A w \in Live(nd) : w \notin DOMAIN a => big[w] = nd[w]
    BY BothR
  <2>3. \A w \in AllBits : w # W => w \in Live(nd) /\ w \notin DOMAIN a
    BY <1>7, <1>9, WordsApart
  <2>4. Hdr \in Live(nd) /\ Hdr \notin DOMAIN a
    BY <1>5, <1>7, <1>9, WordsApart
  <2>5. \A j \in Taken(nd) : Child(j) \in Live(nd) /\ Child(j) \notin DOMAIN a
    BY <1>1, <1>5, <1>7, <1>9, WordsApart
  <2>6. \A d \in Present(nd) : Key(d) \in Live(nd) /\ Key(d) \notin DOMAIN a
    BY <1>5, <1>7, <1>9, <1>10, WordsApart
  <2> QED BY <2>1, <2>2, <2>3, <2>4, <2>5, <2>6
<1>13. big[Hdr].type = NODE48
  BY <1>12
<1>14. bits = [k |-> nd[W].k \cup {c}, p |-> nd[W].p \cup {i}]
  BY DEF bits
<1>15. \A d \in Digit : d # c => PlaceOf(big, d) = PlaceOf(nd, d)
  <2> SUFFICES ASSUME NEW d \in Digit, d # c PROVE PlaceOf(big, d) = PlaceOf(nd, d)
    OBVIOUS
  <2>1. Bits(d) \in AllBits
    BY WordsApart
  <2>2. d \in big[Bits(d)].k <=> d \in nd[Bits(d)].k
    BY <1>12, <1>14, <2>1
  <2>3. PlaceOf(nd, d) = IF d \in nd[Bits(d)].k THEN {nd[Key(d)]} ELSE {}
    BY Is48
  <2>4. PlaceOf(big, d) = IF d \in big[Bits(d)].k THEN {big[Key(d)]} ELSE {}
    BY <1>13, Is48
  <2>5. d \in nd[Bits(d)].k => d \in Present(nd)
    BY <2>3 DEF Present, Digit
  <2> QED BY <1>12, <2>2, <2>3, <2>4, <2>5
<1>16. PlaceOf(big, c) = {i}
  <2>1. PlaceOf(big, c) = IF c \in big[W].k THEN {big[Key(c)]} ELSE {}
    BY <1>13, Is48 DEF W
  <2> QED BY <1>12, <1>14, <2>1
<1>17. Taken(big) = Taken(nd) \cup {i}
  <2>1. Taken(big) = UNION {big[w].p : w \in AllBits}
    BY <1>13, Is48
  <2>2. Taken(nd) = UNION {nd[w].p : w \in AllBits}
    BY Is48
  <2>3. ASSUME NEW j \in Taken(big) PROVE j \in Taken(nd) \cup {i}
    <3>1. PICK w \in AllBits : j \in big[w].p
      BY <2>1
    <3> QED BY <1>12, <1>14, <2>2, <3>1
  <2>4. ASSUME NEW j \in Taken(nd) PROVE j \in Taken(big)
    <3>1. PICK w \in AllBits : j \in nd[w].p
      BY <2>2
    <3> QED BY <1>12, <1>14, <2>1, <3>1
  <2>5. i \in Taken(big)
    BY <1>4, <1>12, <1>14, <2>1
  <2> QED BY <2>3, <2>4, <2>5
<1>18. Fits(big)
  <2>1. \A w \in AllBits : \A d \in nd[w].k : d \in Digit /\ Bits(d) = w /\ d \in Present(nd)
    <3> SUFFICES ASSUME NEW w \in AllBits, NEW d \in nd[w].k PROVE d \in Digit /\ Bits(d) = w /\ d \in Present(nd)
      OBVIOUS
    <3>1. d \in Digit /\ Bits(d) = w
      BY <1>4 DEF Fit48
    <3>2. PlaceOf(nd, d) = IF d \in nd[Bits(d)].k THEN {nd[Key(d)]} ELSE {}
      BY Is48
    <3> QED BY <3>1, <3>2 DEF Present, Digit
  <2>2. ASSUME NEW w \in AllBits
        PROVE  /\ big[w] = [k |-> big[w].k, p |-> big[w].p]
               /\ big[w].k \subseteq {d \in Digit : Bits(d) = w}
               /\ big[w].p \subseteq 0 .. CAP48 - 1
               /\ \A d \in big[w].k : big[Key(d)] \in big[w].p
    <3>0. /\ nd[w] = [k |-> nd[w].k, p |-> nd[w].p]
          /\ nd[w].k \subseteq {d \in Digit : Bits(d) = w}
          /\ nd[w].p \subseteq 0 .. CAP48 - 1
          /\ \A d \in nd[w].k : nd[Key(d)] \in nd[w].p
      BY <1>4 DEF Fit48
    <3>1. CASE w = W
      <4>1. big[w] = bits
        BY <1>12, <3>1
      <4>2. bits.k = nd[w].k \cup {c} /\ bits.p = nd[w].p \cup {i} /\ bits = [k |-> bits.k, p |-> bits.p]
        BY <1>14, <3>1
      <4>3. Bits(c) = w
        BY <3>1 DEF W
      <4>4. \A d \in big[w].k : big[Key(d)] \in big[w].p
        BY <1>12, <2>1, <3>0, <4>1, <4>2
      <4> QED BY <1>1, <3>0, <4>1, <4>2, <4>3, <4>4
    <3>2. CASE w # W
      <4>1. big[w] = nd[w]
        BY <1>12, <3>2
      <4>2. \A d \in nd[w].k : big[Key(d)] = nd[Key(d)]
        BY <1>12, <2>1
      <4> QED BY <3>0, <4>1, <4>2
    <3> QED BY <3>1, <3>2
  <2>3. Fit48(big)
    BY <2>2 DEF Fit48
  <2> QED BY <1>13, <2>3, Caps DEF Fits
<1>19. \A d \in Digit : \A j \in PlaceOf(nd, d) : j \in Taken(nd)
  BY PlaceIs, Caps
<1>20. WithChild(nd, big, c, x, i)
  BY <1>1, <1>12, <1>15, <1>16, <1>17, <1>18, <1>19 DEF WithChild
<1>21. Live(big) \subseteq Live(nd) \cup DOMAIN a
  <2>1. Live(big) = {Hdr} \cup AllBits \cup {Key(d) : d \in Present(big)} \cup {Child(j) : j \in Taken(big)}
    BY <1>13, Is48
  <2>2. \A d \in Present(big) : d = c \/ d \in Present(nd)
    BY <1>15 DEF Present, Digit
  <2> QED BY <1>7, <1>9, <1>17, <2>1, <2>2
<1> QED BY <1>11, <1>20, <1>21

\* ... and add_child256 (PART.c:527-531).
LEMMA Added256 ==
  ASSUME NEW nd, Laid(nd), nd[Hdr].type = NODE256, NEW c \in Digit, find_child(nd, c) = NULL, NEW x, x # NULL,
         NEW a, a = Added(nd, c, x), NEW big, big = Both(a, nd), Live(nd) \subseteq DOMAIN nd
  PROVE  Adding(nd, c, x, a) /\ Live(big) \subseteq Live(nd) \cup DOMAIN a /\ \E i : WithChild(nd, big, c, x, i)
<1>1. a = Word(Child(c), x)
  BY Caps DEF Added
<1>2. DOMAIN a = {Child(c)} /\ a[Child(c)] = x /\ CommitWord(nd, c) = Child(c)
  <2>1. CommitWord(nd, c) = Child(c)
    BY Caps DEF CommitWord
  <2> QED BY <1>1, <2>1 DEF Word
<1>3. Live(nd) = {Hdr} \cup {Child(d) : d \in Digit}
  BY Is256
<1>4. Adding(nd, c, x, a)
  BY <1>2, TypeWordsAre, WordsApart DEF Adding, Digit
<1>5. big[Child(c)] = x /\ big[Hdr] = nd[Hdr] /\ \A d \in Digit : d # c => big[Child(d)] = nd[Child(d)]
  <2>1. big[Child(c)] = x
    BY <1>2, BothL
  <2>2. Hdr \in Live(nd) /\ Hdr \notin DOMAIN a
    BY <1>2, <1>3, WordsApart
  <2>3. \A d \in Digit : d # c => Child(d) \in Live(nd) /\ Child(d) \notin DOMAIN a
    BY <1>2, <1>3, WordsApart
  <2> QED BY <2>1, <2>2, <2>3, BothR
<1>6. big[Hdr].type = NODE256 /\ Fits(big)
  BY <1>5, Caps DEF Fits
<1>7. PlaceOf(big, c) = {c}
  BY <1>5, <1>6, Is256
<1>8. \A d \in Digit : d # c => PlaceOf(big, d) = PlaceOf(nd, d)
  <2>1. \A d : PlaceOf(big, d) = IF big[Child(d)] # NULL THEN {d} ELSE {}
    BY <1>6, Is256
  <2>2. \A d : PlaceOf(nd, d) = IF nd[Child(d)] # NULL THEN {d} ELSE {}
    BY Is256
  <2> QED BY <1>5, <2>1, <2>2
<1>9. \A d \in Digit : \A j \in PlaceOf(nd, d) : j = d
  BY Is256
<1>10. WithChild(nd, big, c, x, c)
  BY <1>5, <1>6, <1>7, <1>8, <1>9 DEF WithChild
<1>11. Live(big) \subseteq Live(nd)
  BY <1>3, <1>6, Is256
<1> QED BY <1>4, <1>10, <1>11

\* A node with a child more, whatever its layout.
LEMMA AddedIs ==
  ASSUME NEW nd, Laid(nd), NEW c \in Digit, find_child(nd, c) = NULL, NEW x, x # NULL, HasRoom(nd),
         NEW a, a = Added(nd, c, x), NEW big, big = Both(a, nd), Live(nd) \subseteq DOMAIN nd
  PROVE  /\ Adding(nd, c, x, a) /\ Laid(big) /\ big[Hdr] = nd[Hdr]
         /\ Live(big) \subseteq Live(nd) \cup DOMAIN a
         /\ \A d \in Digit : find_child(big, d) = IF d = c THEN x ELSE find_child(nd, d)
<1>1. Adding(nd, c, x, a) /\ Live(big) \subseteq Live(nd) \cup DOMAIN a /\ \E i : WithChild(nd, big, c, x, i)
  BY Added4, Added16, Added48, Added256, Caps DEF Laid, Fits
<1>2. PICK i : WithChild(nd, big, c, x, i)
  BY <1>1
<1>3. big[Hdr] = nd[Hdr]
  BY <1>2 DEF WithChild
<1> QED BY <1>1, <1>2, <1>3, ChildAdded

-----------------------------------------------------------------------------
(* Growing *)

\* A copy with the same places, ...
LEMMA Copied ==
  ASSUME NEW nd, Laid(nd), nd[Hdr].type # NODE256, NEW nd2, Fits(nd2), Taken(nd2) = Taken(nd),
         \A d \in Digit : PlaceOf(nd2, d) = PlaceOf(nd, d),
         \A i \in Taken(nd) : nd2[Child(i)] = nd[Child(i)]
  PROVE  Laid(nd2) /\ \A d \in Digit : find_child(nd2, d) = find_child(nd, d)
<1>1. \A d \in Digit : \A i \in PlaceOf(nd, d) : i \in Taken(nd)
  BY PlaceIs
<1>2. Laid(nd2)
  BY <1>1 DEF Laid
<1>3. ASSUME NEW d \in Digit PROVE find_child(nd2, d) = find_child(nd, d)
  <2>1. CASE PlaceOf(nd, d) = {}
    BY <2>1 DEF find_child
  <2>2. CASE PlaceOf(nd, d) # {}
    <3>1. PICK i \in PlaceOf(nd, d) : TRUE
      BY <2>2
    <3>2. find_child(nd, d) = nd[Child(i)] /\ find_child(nd2, d) = nd2[Child(i)]
      BY <1>2, <3>1, PlaceIs
    <3> QED BY <1>1, <3>1, <3>2
  <2> QED BY <2>1, <2>2
<1> QED BY <1>2, <1>3

\* ... and one with a place for every digit.
LEMMA Spread ==
  ASSUME NEW nd, Laid(nd), NEW nd2, nd2[Hdr].type = NODE256,
         \A d \in Digit : nd2[Child(d)] = find_child(nd, d)
  PROVE  Laid(nd2) /\ \A d \in Digit : find_child(nd2, d) = find_child(nd, d)
<1>1. \A d : PlaceOf(nd2, d) = IF nd2[Child(d)] # NULL THEN {d} ELSE {}
  BY Is256
<1>2. Fits(nd2)
  BY Caps DEF Fits
<1>3. \A d \in Digit : \A i \in PlaceOf(nd2, d) : i = d /\ nd2[Child(d)] # NULL
  BY <1>1
<1>4. Laid(nd2)
  BY <1>2, <1>3 DEF Laid
<1>5. ASSUME NEW d \in Digit PROVE find_child(nd2, d) = find_child(nd, d)
  <2>1. CASE find_child(nd, d) = NULL
    BY <1>1, <2>1 DEF find_child
  <2>2. CASE find_child(nd, d) # NULL
    <3>1. d \in PlaceOf(nd2, d)
      BY <1>1, <2>2
    <3> QED BY <1>4, <3>1, PlaceIs
  <2> QED BY <2>1, <2>2
<1> QED BY <1>4, <1>5

\* As many children as places taken.
LEMMA AsMany ==
  ASSUME NEW nd, Laid(nd), nd[Hdr].type # NODE256
  PROVE  /\ IsFiniteSet(Present(nd)) /\ IsFiniteSet(Taken(nd))
         /\ Cardinality(Present(nd)) = Cardinality(Taken(nd))
<1>1. Present(nd) \subseteq 0 .. FAN - 1 /\ IsFiniteSet(0 .. FAN - 1)
  BY Caps, FS_Interval DEF Present
<1>2. IsFiniteSet(Present(nd))
  BY <1>1, FS_Subset
<1>3. \A d \in Present(nd) : d \in Digit /\ \E i : PlaceOf(nd, d) = {i} /\ i \in Taken(nd)
  BY PlaceIs DEF Present, Digit
<1> DEFINE f == [d \in Present(nd) |-> CHOOSE i \in Taken(nd) : PlaceOf(nd, d) = {i}]
<1>4. \A d \in Present(nd) : f[d] \in Taken(nd) /\ PlaceOf(nd, d) = {f[d]}
  BY <1>3
<1>5. f \in [Present(nd) -> Taken(nd)]
  BY <1>4
<1> HIDE DEF f
<1>6. \A a, b \in Present(nd) : f[a] = f[b] => a = b
  BY <1>3, <1>4 DEF Laid
<1>7. \A i \in Taken(nd) : \E d \in Present(nd) : f[d] = i
  <2> SUFFICES ASSUME NEW i \in Taken(nd) PROVE \E d \in Present(nd) : f[d] = i
    OBVIOUS
  <2>1. PICK d \in Digit : i \in PlaceOf(nd, d)
    BY DEF Laid
  <2>2. d \in Present(nd)
    BY <2>1 DEF Present, Digit
  <2> QED BY <1>4, <2>1, <2>2
<1>8. f \in Bijection(Present(nd), Taken(nd))
  BY <1>5, <1>6, <1>7 DEF Bijection, Injection, Surjection, IsInjective
<1> QED BY <1>2, <1>8, FS_Bijection DEF ExistsBijection

\* A full node.
LEMMA Full ==
  ASSUME NEW nd, Laid(nd), ~HasRoom(nd)
  PROVE  /\ nd[Hdr].type \in {NODE4, NODE16, NODE48} /\ Taken(nd) = 0 .. Capacity(nd[Hdr].type) - 1
         /\ Cardinality(Present(nd)) = Capacity(nd[Hdr].type)
<1>1. Taken(nd) = 0 .. Capacity(nd[Hdr].type) - 1
  BY DEF HasRoom
<1>2. nd[Hdr].type # NODE256
  <2> SUFFICES ASSUME nd[Hdr].type = NODE256 PROVE FALSE
    OBVIOUS
  <2>1. Taken(nd) = {} /\ Capacity(nd[Hdr].type) = FAN
    BY Is256
  <2>2. 0 \in 0 .. FAN - 1
    BY Caps
  <2> QED BY <1>1, <2>1, <2>2
<1>3. nd[Hdr].type \in {NODE4, NODE16, NODE48}
  BY <1>2, Caps DEF Laid, Fits
<1>4. Capacity(nd[Hdr].type) \in Nat
  BY Caps DEF Capacity, Laid, Fits
<1>5. Cardinality(0 .. Capacity(nd[Hdr].type) - 1) = Capacity(nd[Hdr].type)
  BY <1>4, FS_Interval
<1> QED BY <1>1, <1>2, <1>3, <1>5, AsMany

\* What a full node's copy holds before the new child is added.
Grows(nd, copy, path) ==
  /\ Laid(copy) /\ copy[Hdr] = Header(nd[Hdr].type + 1, path) /\ HasRoom(copy)
  /\ Live(copy) \subseteq DOMAIN copy /\ DOMAIN copy \subseteq TypeWords(nd[Hdr].type + 1)
  /\ \A d \in Digit : find_child(copy, d) = find_child(nd, d)

\* The words of a header.
LEMMA HeaderIs ==
  ASSUME NEW t, NEW p
  PROVE  Header(t, p).type = t /\ Header(t, p).path = p
BY DEF Header

\* A full NODE4 copied into a NODE16 (PART.c:708-727), ...
LEMMA Grows4 ==
  ASSUME NEW nd, Laid(nd), nd[Hdr].type = NODE4, ~HasRoom(nd), NEW path,
         NEW copy, copy = Both(Grown(nd), alloc_node(NODE16, path))
  PROVE  Grows(nd, copy, path)
<1> DEFINE T == Taken(nd)
           slots == Range(nd[Slots])
           places == [w \in {Child(i) : i \in T} |-> nd[w]]
           keys == [k \in {Key(i) : i \in T} |-> (CHOOSE s \in slots : s.i_ptr = k[2]).key]
           more == Both(Word(Bitmap, T), keys)
           grown == Both(places, more)
           head == Both(Word(Hdr, Header(NODE16, path)), Word(Bitmap, {}))
<1>1. copy = Both(grown, head)
  BY Caps DEF Grown, alloc_node
<1>2. T = 0 .. CAP4 - 1
  BY Full, Is4, Caps
<1>3. DOMAIN places = {Child(i) : i \in T} /\ DOMAIN keys = {Key(i) : i \in T}
  OBVIOUS
<1>4. \A i \in T : places[Child(i)] = nd[Child(i)]
  OBVIOUS
<1>5. \A i \in T : keys[Key(i)] = (CHOOSE s \in slots : s.i_ptr = i).key
  BY DEF Key
<1> HIDE DEF T, slots, places, keys
<1>6. DOMAIN more = {Bitmap} \cup {Key(i) : i \in T} /\ more[Bitmap] = T /\ \A i \in T : more[Key(i)] = keys[Key(i)]
  <2>1. DOMAIN more = {Bitmap} \cup {Key(i) : i \in T} /\ more[Bitmap] = T
    BY <1>3 DEF Both, Word
  <2>2. \A i \in T : Key(i) \in DOMAIN keys /\ Key(i) \notin DOMAIN Word(Bitmap, T)
    BY <1>3, WordsApart DEF Word
  <2> QED BY <2>1, <2>2, BothR
<1> HIDE DEF more
<1>7. /\ DOMAIN grown = {Bitmap} \cup {Key(i) : i \in T} \cup {Child(i) : i \in T}
      /\ grown[Bitmap] = T
      /\ \A i \in T : grown[Key(i)] = keys[Key(i)]
      /\ \A i \in T : grown[Child(i)] = nd[Child(i)]
  <2>1. DOMAIN grown = {Bitmap} \cup {Key(i) : i \in T} \cup {Child(i) : i \in T}
    BY <1>3, <1>6 DEF Both
  <2>2. Bitmap \in DOMAIN more /\ Bitmap \notin DOMAIN places
    BY <1>3, <1>6, WordsApart
  <2>3. \A i \in T : Key(i) \in DOMAIN more /\ Key(i) \notin DOMAIN places
    BY <1>3, <1>6, WordsApart
  <2>4. \A i \in T : Child(i) \in DOMAIN places
    BY <1>3
  <2>5. grown[Bitmap] = T
    BY <1>6, <2>2, BothR
  <2>6. \A i \in T : grown[Key(i)] = keys[Key(i)]
    BY <1>6, <2>3, BothR
  <2>7. \A i \in T : grown[Child(i)] = nd[Child(i)]
    BY <1>4, <2>4, BothL
  <2> QED BY <2>1, <2>5, <2>6, <2>7
<1> HIDE DEF grown
<1>8. DOMAIN head = {Hdr, Bitmap} /\ head[Hdr] = Header(NODE16, path)
  BY DEF Both, Word
<1> HIDE DEF head
<1>9. /\ DOMAIN copy = {Hdr, Bitmap} \cup {Key(i) : i \in T} \cup {Child(i) : i \in T}
      /\ copy[Hdr] = Header(NODE16, path) /\ copy[Bitmap] = T
      /\ \A i \in T : copy[Key(i)] = keys[Key(i)]
      /\ \A i \in T : copy[Child(i)] = nd[Child(i)]
  <2>1. DOMAIN copy = {Hdr, Bitmap} \cup {Key(i) : i \in T} \cup {Child(i) : i \in T}
    BY <1>1, <1>7, <1>8 DEF Both
  <2>2. Hdr \in DOMAIN head /\ Hdr \notin DOMAIN grown
    BY <1>7, <1>8, WordsApart
  <2>3. copy[Hdr] = Header(NODE16, path)
    BY <1>1, <1>8, <2>2, BothR
  <2>4. Bitmap \in DOMAIN grown
    BY <1>7
  <2>5. copy[Bitmap] = T
    BY <1>1, <1>7, <2>4, BothL
  <2>6. \A i \in T : copy[Key(i)] = keys[Key(i)]
    <3>1. \A i \in T : Key(i) \in DOMAIN grown
      BY <1>7
    <3> QED BY <1>1, <1>7, <3>1, BothL
  <2>7. \A i \in T : copy[Child(i)] = nd[Child(i)]
    <3>1. \A i \in T : Child(i) \in DOMAIN grown
      BY <1>7
    <3> QED BY <1>1, <1>7, <3>1, BothL
  <2> QED BY <2>1, <2>3, <2>5, <2>6, <2>7
<1>10. copy[Hdr].type = NODE16
  BY <1>9, HeaderIs
<1>11. ASSUME NEW i \in T
       PROVE  /\ keys[Key(i)] \in Digit
              /\ \A d \in Digit : i \in PlaceOf(nd, d) <=> keys[Key(i)] = d
  <2>1. PICK e \in slots : e.i_ptr = i
    BY <1>11, Is4 DEF T, slots
  <2> DEFINE s == CHOOSE s \in slots : s.i_ptr = i
  <2>2. s \in slots /\ s.i_ptr = i
    BY <2>1
  <2>3. keys[Key(i)] = s.key
    BY <1>5
  <2> HIDE DEF s
  <2>4. nd[Slots] \in Seq(Slot4)
    BY Caps DEF Laid, Fits, Fit4
  <2>5. s \in Slot4
    BY <2>2, <2>4, RangeOf DEF slots
  <2>6. s.key \in Digit
    BY <2>5 DEF Slot4
  <2>7. PlaceOf(nd, s.key) = {y.i_ptr : y \in {y \in slots : y.key = s.key}}
    BY Is4 DEF slots
  <2>8. i \in PlaceOf(nd, s.key)
    BY <2>2, <2>7
  <2>9. \A d \in Digit : i \in PlaceOf(nd, d) <=> s.key = d
    BY <2>6, <2>8 DEF Laid
  <2> QED BY <2>3, <2>6, <2>9
<1>12. Fits(copy)
  <2>1. Fit16(copy)
    BY <1>2, <1>9, <1>11, Caps DEF Fit16
  <2> QED BY <1>10, <2>1, Caps DEF Fits
<1>13. Taken(copy) = T
  BY <1>9, <1>10, Is16
<1>14. \A d \in Digit : PlaceOf(copy, d) = PlaceOf(nd, d)
  <2> SUFFICES ASSUME NEW d \in Digit PROVE PlaceOf(copy, d) = PlaceOf(nd, d)
    OBVIOUS
  <2>1. PlaceOf(copy, d) = {i \in copy[Bitmap] : copy[Key(i)] = d}
    BY <1>10, Is16
  <2>2. \A i \in PlaceOf(nd, d) : i \in T
    BY PlaceIs, Caps DEF T
  <2> QED BY <1>9, <1>11, <2>1, <2>2
<1>15. Laid(copy) /\ \A d \in Digit : find_child(copy, d) = find_child(nd, d)
  BY <1>9, <1>12, <1>13, <1>14, Copied, Caps DEF T
<1>16. HasRoom(copy)
  <2>1. Capacity(copy[Hdr].type) = CAP16
    BY <1>10, Is16
  <2>2. CAP4 \in 0 .. CAP16 - 1 /\ CAP4 \notin 0 .. CAP4 - 1
    BY Caps
  <2> QED BY <1>2, <1>13, <2>1, <2>2 DEF HasRoom
<1>17. Live(copy) \subseteq DOMAIN copy
  <2>1. Live(copy) = {Hdr, Bitmap} \cup {Key(i) : i \in T} \cup {Child(i) : i \in T}
    BY <1>9, <1>10, Is16
  <2> QED BY <1>9, <2>1
<1>18. DOMAIN copy \subseteq TypeWords(NODE16)
  <2>1. \A i \in T : Key(i) \in TypeWords(NODE16) /\ Child(i) \in TypeWords(NODE16)
    <3>1. \A i \in T : i \in 0 .. CAP16 - 1
      BY <1>2, Caps
    <3> QED BY <3>1, TypeWordsAre
  <2>2. Hdr \in TypeWords(NODE16) /\ Bitmap \in TypeWords(NODE16)
    BY TypeWordsAre
  <2> QED BY <1>9, <2>1, <2>2
<1>19. nd[Hdr].type + 1 = NODE16
  BY Caps
<1> QED BY <1>9, <1>15, <1>16, <1>17, <1>18, <1>19 DEF Grows

\* ... a full NODE16 into a NODE48 (PART.c:628-647), ...
LEMMA Grows16 ==
  ASSUME NEW nd, Laid(nd), nd[Hdr].type = NODE16, ~HasRoom(nd), NEW path,
         NEW copy, copy = Both(Grown(nd), alloc_node(NODE48, path))
  PROVE  Grows(nd, copy, path)
<1> DEFINE T == Taken(nd)
           Here(w) == {j \in T : Bits(nd[Key(j)]) = w}
           places == [w \in {Child(i) : i \in T} |-> nd[w]]
           keys == [k \in {Key(nd[Key(j)]) : j \in T} |-> CHOOSE j \in T : nd[Key(j)] = k[2]]
           bits == [w \in AllBits |-> [k |-> {nd[Key(j)] : j \in Here(w)}, p |-> Here(w)]]
           more == Both(keys, bits)
           grown == Both(places, more)
           head == Both(Word(Hdr, Header(NODE48, path)), [w \in AllBits |-> [k |-> {}, p |-> {}]])
<1>0. T = nd[Bitmap]
  BY Is16
<1>1. copy = Both(grown, head)
  <2>1. Grown(nd) = Both(places, Grown16(nd))
    BY Caps DEF Grown
  <2>2. Grown16(nd) = more
    BY <1>0 DEF Grown16
  <2>3. alloc_node(NODE48, path) = head
    BY Caps DEF alloc_node
  <2> QED BY <2>1, <2>2, <2>3
<1>2. T = 0 .. CAP16 - 1
  BY Full, Is16, Caps
<1>3. /\ DOMAIN places = {Child(i) : i \in T} /\ DOMAIN keys = {Key(nd[Key(j)]) : j \in T}
      /\ DOMAIN bits = AllBits
  OBVIOUS
<1>4. \A i \in T : places[Child(i)] = nd[Child(i)]
  OBVIOUS
<1>5. \A j \in T : nd[Key(j)] \in Digit /\ j \in PlaceOf(nd, nd[Key(j)])
  <2>1. \A d : PlaceOf(nd, d) = {i \in T : nd[Key(i)] = d}
    BY <1>0, Is16
  <2>2. Fit16(nd)
    BY Caps DEF Laid, Fits
  <2> QED BY <1>0, <2>1, <2>2 DEF Fit16
<1>6. \A j \in T : keys[Key(nd[Key(j)])] = j
  <2> SUFFICES ASSUME NEW j \in T PROVE keys[Key(nd[Key(j)])] = j
    OBVIOUS
  <2>1. keys[Key(nd[Key(j)])] = CHOOSE i \in T : nd[Key(i)] = nd[Key(j)]
    BY DEF Key
  <2>2. \A i \in T : nd[Key(i)] = nd[Key(j)] => i = j
    <3> SUFFICES ASSUME NEW i \in T, nd[Key(i)] = nd[Key(j)] PROVE i = j
      OBVIOUS
    <3>1. i \in PlaceOf(nd, nd[Key(j)]) /\ j \in PlaceOf(nd, nd[Key(j)]) /\ nd[Key(j)] \in Digit
      BY <1>5
    <3> QED BY <3>1 DEF Laid
  <2> QED BY <2>1, <2>2
<1>7. \A w \in AllBits : bits[w] = [k |-> {nd[Key(j)] : j \in Here(w)}, p |-> Here(w)]
  OBVIOUS
<1>8. \A w : \A j : j \in Here(w) <=> j \in T /\ Bits(nd[Key(j)]) = w
  OBVIOUS
<1> HIDE DEF T, places, keys, bits, Here
<1>9. /\ DOMAIN more = {Key(nd[Key(j)]) : j \in T} \cup AllBits
      /\ \A j \in T : more[Key(nd[Key(j)])] = j
      /\ \A w \in AllBits : more[w] = bits[w]
  <2>1. DOMAIN more = {Key(nd[Key(j)]) : j \in T} \cup AllBits
    BY <1>3 DEF Both
  <2>2. \A j \in T : Key(nd[Key(j)]) \in DOMAIN keys
    BY <1>3
  <2>3. \A w \in AllBits : w \in DOMAIN bits /\ w \notin DOMAIN keys
    BY <1>3, WordsApart
  <2>4. \A j \in T : more[Key(nd[Key(j)])] = j
    BY <1>6, <2>2, BothL
  <2>5. \A w \in AllBits : more[w] = bits[w]
    BY <2>3, BothR
  <2> QED BY <2>1, <2>4, <2>5
<1> HIDE DEF more
<1>10. /\ DOMAIN grown = {Child(i) : i \in T} \cup {Key(nd[Key(j)]) : j \in T} \cup AllBits
       /\ \A j \in T : grown[Key(nd[Key(j)])] = j
       /\ \A w \in AllBits : grown[w] = bits[w]
       /\ \A i \in T : grown[Child(i)] = nd[Child(i)]
  <2>1. DOMAIN grown = {Child(i) : i \in T} \cup {Key(nd[Key(j)]) : j \in T} \cup AllBits
    BY <1>3, <1>9 DEF Both
  <2>2. \A j \in T : Key(nd[Key(j)]) \in DOMAIN more /\ Key(nd[Key(j)]) \notin DOMAIN places
    BY <1>3, <1>9, WordsApart
  <2>3. \A w \in AllBits : w \in DOMAIN more /\ w \notin DOMAIN places
    BY <1>3, <1>9, WordsApart
  <2>4. \A i \in T : Child(i) \in DOMAIN places
    BY <1>3
  <2>5. \A j \in T : grown[Key(nd[Key(j)])] = j
    BY <1>9, <2>2, BothR
  <2>6. \A w \in AllBits : grown[w] = bits[w]
    BY <1>9, <2>3, BothR
  <2>7. \A i \in T : grown[Child(i)] = nd[Child(i)]
    BY <1>4, <2>4, BothL
  <2> QED BY <2>1, <2>5, <2>6, <2>7
<1> HIDE DEF grown
<1>11. DOMAIN head = {Hdr} \cup AllBits /\ head[Hdr] = Header(NODE48, path)
  BY DEF Both, Word
<1> HIDE DEF head
<1>12. /\ DOMAIN copy = {Hdr} \cup {Child(i) : i \in T} \cup {Key(nd[Key(j)]) : j \in T} \cup AllBits
       /\ copy[Hdr] = Header(NODE48, path)
       /\ \A j \in T : copy[Key(nd[Key(j)])] = j
       /\ \A w \in AllBits : copy[w] = bits[w]
       /\ \A i \in T : copy[Child(i)] = nd[Child(i)]
  <2>1. DOMAIN copy = {Hdr} \cup {Child(i) : i \in T} \cup {Key(nd[Key(j)]) : j \in T} \cup AllBits
    BY <1>1, <1>10, <1>11 DEF Both
  <2>2. Hdr \in DOMAIN head /\ Hdr \notin DOMAIN grown
    BY <1>10, <1>11, WordsApart
  <2>3. copy[Hdr] = Header(NODE48, path)
    BY <1>1, <1>11, <2>2, BothR
  <2>4. \A j \in T : Key(nd[Key(j)]) \in DOMAIN grown
    BY <1>10
  <2>5. \A w \in AllBits : w \in DOMAIN grown
    BY <1>10
  <2>6. \A i \in T : Child(i) \in DOMAIN grown
    BY <1>10
  <2>7. \A j \in T : copy[Key(nd[Key(j)])] = j
    BY <1>1, <1>10, <2>4, BothL
  <2>8. \A w \in AllBits : copy[w] = bits[w]
    BY <1>1, <1>10, <2>5, BothL
  <2>9. \A i \in T : copy[Child(i)] = nd[Child(i)]
    BY <1>1, <1>10, <2>6, BothL
  <2> QED BY <2>1, <2>3, <2>7, <2>8, <2>9
<1>13. copy[Hdr].type = NODE48
  BY <1>12, HeaderIs
<1>23. ASSUME NEW w \in AllBits
       PROVE  /\ copy[w] = [k |-> copy[w].k, p |-> copy[w].p]
              /\ \A j : j \in copy[w].p <=> j \in T /\ Bits(nd[Key(j)]) = w
              /\ \A d : d \in copy[w].k <=> \E j \in T : d = nd[Key(j)] /\ Bits(d) = w
  <2>1. copy[w] = [k |-> {nd[Key(j)] : j \in Here(w)}, p |-> Here(w)]
    BY <1>7, <1>12
  <2>2. copy[w].k = {nd[Key(j)] : j \in Here(w)} /\ copy[w].p = Here(w)
    BY <2>1
  <2>3. copy[w] = [k |-> copy[w].k, p |-> copy[w].p]
    BY <2>1
  <2> QED BY <1>8, <2>2, <2>3
<1>14. /\ \A w \in AllBits : \A j : j \in copy[w].p <=> j \in T /\ Bits(nd[Key(j)]) = w
       /\ \A w \in AllBits : \A d : d \in copy[w].k <=> \E j \in T : d = nd[Key(j)] /\ Bits(d) = w
  BY <1>23
<1>24. \A w \in AllBits : copy[w] = [k |-> copy[w].k, p |-> copy[w].p]
  BY <1>23
<1>15. Fits(copy)
  <2>1. ASSUME NEW w \in AllBits
        PROVE  /\ copy[w].k \subseteq {c \in Digit : Bits(c) = w}
               /\ copy[w].p \subseteq 0 .. CAP48 - 1
               /\ \A c \in copy[w].k : copy[Key(c)] \in copy[w].p
    <3>1. copy[w].k \subseteq {c \in Digit : Bits(c) = w}
      BY <1>5, <1>14
    <3>2. \A j \in T : j \in 0 .. CAP48 - 1
      BY <1>2, Caps
    <3>3. copy[w].p \subseteq 0 .. CAP48 - 1
      BY <1>8, <1>14, <3>2
    <3>4. ASSUME NEW c \in copy[w].k PROVE copy[Key(c)] \in copy[w].p
      <4>1. PICK j \in T : c = nd[Key(j)] /\ Bits(c) = w
        BY <1>14
      <4> QED BY <1>8, <1>12, <1>14, <4>1
    <3> QED BY <3>1, <3>3, <3>4
  <2>2. Fit48(copy)
    BY <1>24, <2>1 DEF Fit48
  <2> QED BY <1>13, <2>2, Caps DEF Fits
<1>16. Taken(copy) = T
  <2>1. Taken(copy) = UNION {copy[w].p : w \in AllBits}
    BY <1>13, Is48
  <2>2. ASSUME NEW j \in Taken(copy) PROVE j \in T
    <3>1. PICK w \in AllBits : j \in copy[w].p
      BY <2>1
    <3> QED BY <1>8, <1>14, <3>1
  <2>3. ASSUME NEW j \in T PROVE j \in Taken(copy)
    <3>1. Bits(nd[Key(j)]) \in AllBits
      BY <1>5, WordsApart
    <3>2. j \in copy[Bits(nd[Key(j)])].p
      BY <1>8, <1>14, <3>1
    <3> QED BY <2>1, <3>1, <3>2
  <2> QED BY <2>2, <2>3
<1>17. \A d \in Digit : PlaceOf(copy, d) = PlaceOf(nd, d)
  <2> SUFFICES ASSUME NEW d \in Digit PROVE PlaceOf(copy, d) = PlaceOf(nd, d)
    OBVIOUS
  <2>1. PlaceOf(copy, d) = IF d \in copy[Bits(d)].k THEN {copy[Key(d)]} ELSE {}
    BY <1>13, Is48
  <2>2. PlaceOf(nd, d) = {i \in T : nd[Key(i)] = d}
    BY <1>0, Is16
  <2>3. Bits(d) \in AllBits
    BY WordsApart
  <2>4. d \in copy[Bits(d)].k <=> \E j \in T : d = nd[Key(j)]
    BY <1>14, <2>3
  <2>5. CASE \E j \in T : d = nd[Key(j)]
    <3>1. PICK j \in T : d = nd[Key(j)]
      BY <2>5
    <3>2. PlaceOf(copy, d) = {j}
      BY <1>12, <2>1, <2>4, <3>1
    <3>3. j \in PlaceOf(nd, d)
      BY <2>2, <3>1
    <3>4. PlaceOf(nd, d) = {j}
      BY <3>3 DEF Laid
    <3> QED BY <3>2, <3>4
  <2>6. CASE ~\E j \in T : d = nd[Key(j)]
    BY <2>1, <2>2, <2>4, <2>6
  <2> QED BY <2>5, <2>6
<1>18. Laid(copy) /\ \A d \in Digit : find_child(copy, d) = find_child(nd, d)
  BY <1>12, <1>15, <1>16, <1>17, Copied, Caps DEF T
<1>19. HasRoom(copy)
  <2>1. Capacity(copy[Hdr].type) = CAP48
    BY <1>13, Is48
  <2>2. CAP16 \in 0 .. CAP48 - 1 /\ CAP16 \notin 0 .. CAP16 - 1
    BY Caps
  <2> QED BY <1>2, <1>16, <2>1, <2>2 DEF HasRoom
<1>20. Live(copy) \subseteq DOMAIN copy
  <2>1. Live(copy) = {Hdr} \cup AllBits \cup {Key(d) : d \in Present(copy)} \cup {Child(i) : i \in T}
    BY <1>16, <1>13, Is48
  <2>2. ASSUME NEW d \in Present(copy) PROVE Key(d) \in DOMAIN copy
    <3>1. d \in Digit /\ PlaceOf(copy, d) # {}
      BY DEF Present, Digit
    <3>2. PICK j : j \in PlaceOf(nd, d)
      BY <1>17, <3>1
    <3>3. PlaceOf(nd, d) = {i \in T : nd[Key(i)] = d}
      BY <1>0, Is16
    <3> QED BY <1>12, <3>2, <3>3
  <2> QED BY <1>12, <2>1, <2>2
<1>21. DOMAIN copy \subseteq TypeWords(NODE48)
  <2>0. TypeWords(NODE48) = {Hdr} \cup AllBits \cup {Key(i) : i \in 0 .. FAN - 1} \cup {Child(i) : i \in 0 .. CAP48 - 1}
    BY TypeWordsAre
  <2>1. \A i \in T : Child(i) \in TypeWords(NODE48)
    <3>1. \A i \in T : i \in 0 .. CAP48 - 1
      BY <1>2, Caps
    <3> QED BY <2>0, <3>1
  <2>2. \A j \in T : Key(nd[Key(j)]) \in TypeWords(NODE48)
    BY <1>5, <2>0 DEF Digit
  <2>3. Hdr \in TypeWords(NODE48) /\ AllBits \subseteq TypeWords(NODE48)
    BY <2>0
  <2> QED BY <1>12, <2>1, <2>2, <2>3
<1>22. nd[Hdr].type + 1 = NODE48
  BY Caps
<1> QED BY <1>12, <1>18, <1>19, <1>20, <1>21, <1>22 DEF Grows

\* ... and a full NODE48 into a NODE256 (PART.c:562-587).
LEMMA Grows48 ==
  ASSUME NEW nd, Laid(nd), nd[Hdr].type = NODE48, NEW path,
         NEW copy, copy = Both(Grown(nd), alloc_node(NODE256, path))
  PROVE  Grows(nd, copy, path)
<1> DEFINE P == Present(nd)
           grown == [w \in {Child(c) : c \in P} |-> find_child(nd, w[2])]
           rest == [w \in TypeWords(NODE256) \ {Hdr} |-> NULL]
           head == Both(Word(Hdr, Header(NODE256, path)), rest)
<1>1. copy = Both(grown, head)
  <2>1. Grown(nd) = grown
    BY Caps DEF Grown
  <2>2. alloc_node(NODE256, path) = head
    BY Caps DEF alloc_node
  <2> QED BY <2>1, <2>2
<1>2. DOMAIN grown = {Child(c) : c \in P} /\ \A c \in P : grown[Child(c)] = find_child(nd, c)
  BY DEF Child
<1>3. DOMAIN rest = TypeWords(NODE256) \ {Hdr} /\ \A w \in TypeWords(NODE256) \ {Hdr} : rest[w] = NULL
  OBVIOUS
<1>4. TypeWords(NODE256) = {Hdr} \cup {Child(i) : i \in Digit}
  BY TypeWordsAre DEF Digit
<1> HIDE DEF grown, rest
<1>5. /\ DOMAIN head = TypeWords(NODE256)
      /\ head[Hdr] = Header(NODE256, path)
      /\ \A c \in Digit : head[Child(c)] = NULL
  <2>1. DOMAIN Word(Hdr, Header(NODE256, path)) = {Hdr} /\ Word(Hdr, Header(NODE256, path))[Hdr] = Header(NODE256, path)
    BY DEF Word
  <2>2. DOMAIN head = TypeWords(NODE256)
    BY <1>3, <1>4, <2>1 DEF Both
  <2>3. head[Hdr] = Header(NODE256, path)
    BY <2>1, BothL
  <2>4. \A c \in Digit : Child(c) \in DOMAIN rest /\ Child(c) \notin DOMAIN Word(Hdr, Header(NODE256, path))
    BY <1>3, <1>4, <2>1, WordsApart
  <2>5. \A c \in Digit : head[Child(c)] = rest[Child(c)]
    BY <2>4, BothR
  <2>6. \A c \in Digit : rest[Child(c)] = NULL
    BY <1>3, <1>4, WordsApart
  <2> QED BY <2>2, <2>3, <2>5, <2>6
<1> HIDE DEF head
<1>6. P \subseteq Digit
  BY DEF Present, Digit
<1>7. DOMAIN copy = TypeWords(NODE256)
  BY <1>1, <1>2, <1>4, <1>5, <1>6 DEF Both
<1>8. copy[Hdr] = Header(NODE256, path)
  <2>1. Hdr \in DOMAIN head /\ Hdr \notin DOMAIN grown
    BY <1>2, <1>4, <1>5, WordsApart
  <2> QED BY <1>1, <1>5, <2>1, BothR
<1>9. ASSUME NEW c \in Digit PROVE copy[Child(c)] = find_child(nd, c)
  <2>1. CASE c \in P
    <3>1. Child(c) \in DOMAIN grown
      BY <1>2, <2>1
    <3> QED BY <1>1, <1>2, <2>1, <3>1, BothL
  <2>2. CASE c \notin P
    <3>1. Child(c) \notin DOMAIN grown
      BY <1>2, <2>2, WordsApart
    <3>2. Child(c) \in DOMAIN head
      BY <1>4, <1>5
    <3>3. copy[Child(c)] = NULL
      BY <1>1, <1>5, <3>1, <3>2, BothR
    <3>4. find_child(nd, c) = NULL
      BY <2>2 DEF Present, Digit, find_child
    <3> QED BY <3>3, <3>4
  <2> QED BY <2>1, <2>2
<1>10. copy[Hdr].type = NODE256
  BY <1>8, HeaderIs
<1>11. Laid(copy) /\ \A d \in Digit : find_child(copy, d) = find_child(nd, d)
  BY <1>9, <1>10, Spread
<1>12. Live(copy) \subseteq DOMAIN copy
  BY <1>4, <1>7, <1>10, Is256
<1>13. HasRoom(copy)
  <2>1. Taken(copy) = {} /\ Capacity(copy[Hdr].type) = FAN
    BY <1>10, Is256
  <2>2. 0 \in 0 .. FAN - 1
    BY Caps
  <2> QED BY <2>1, <2>2 DEF HasRoom
<1>14. nd[Hdr].type + 1 = NODE256
  BY Caps
<1> QED BY <1>7, <1>8, <1>11, <1>12, <1>13, <1>14 DEF Grows

\* Whatever its layout.
LEMMA GrowsIs ==
  ASSUME NEW nd, Laid(nd), ~HasRoom(nd), NEW path,
         NEW copy, copy = Both(Grown(nd), alloc_node(nd[Hdr].type + 1, path))
  PROVE  Grows(nd, copy, path)
<1>1. nd[Hdr].type \in {NODE4, NODE16, NODE48}
  BY Full
<1>2. CASE nd[Hdr].type = NODE4
  <2>1. nd[Hdr].type + 1 = NODE16
    BY <1>2, Caps
  <2> QED BY <1>2, <2>1, Grows4
<1>3. CASE nd[Hdr].type = NODE16
  <2>1. nd[Hdr].type + 1 = NODE48
    BY <1>3, Caps
  <2> QED BY <1>3, <2>1, Grows16
<1>4. CASE nd[Hdr].type = NODE48
  <2>1. nd[Hdr].type + 1 = NODE256
    BY <1>4, Caps
  <2> QED BY <1>4, <2>1, Grows48
<1> QED BY <1>1, <1>2, <1>3, <1>4

\* The bigger node and its new child.
LEMMA BiggerIs ==
  ASSUME NEW nd, Laid(nd), ~HasRoom(nd), NEW c \in Digit, find_child(nd, c) = NULL, NEW x, x # NULL,
         NEW big, big = Bigger(nd, c, x)
  PROVE  /\ Laid(big) /\ big[Hdr] = Header(nd[Hdr].type + 1, nd[Hdr].path)
         /\ Live(big) \subseteq DOMAIN big /\ DOMAIN big \subseteq TypeWords(nd[Hdr].type + 1)
         /\ \A d \in Digit : find_child(big, d) = IF d = c THEN x ELSE find_child(nd, d)
<1> DEFINE path == nd[Hdr].path
           type == nd[Hdr].type + 1
           copy == Both(Grown(nd), alloc_node(type, path))
           a == Added(copy, c, x)
<1>1. big = Both(a, copy)
  BY DEF Bigger
<1>2. Grows(nd, copy, path)
  BY GrowsIs
<1> HIDE DEF copy
<1>3. /\ Laid(copy) /\ copy[Hdr] = Header(type, path) /\ HasRoom(copy)
      /\ Live(copy) \subseteq DOMAIN copy /\ DOMAIN copy \subseteq TypeWords(type)
      /\ \A d \in Digit : find_child(copy, d) = find_child(nd, d)
  BY <1>2 DEF Grows
<1>4. copy[Hdr].type = type
  BY <1>3, HeaderIs
<1> HIDE DEF a
<1>5. /\ Adding(copy, c, x, a) /\ Laid(big) /\ big[Hdr] = copy[Hdr]
      /\ Live(big) \subseteq Live(copy) \cup DOMAIN a
      /\ \A d \in Digit : find_child(big, d) = IF d = c THEN x ELSE find_child(copy, d)
  BY <1>1, <1>3, AddedIs DEF a
<1>6. DOMAIN a \subseteq TypeWords(type)
  BY <1>4, <1>5 DEF Adding
<1>7. DOMAIN big = DOMAIN a \cup DOMAIN copy
  BY <1>1 DEF Both
<1> HIDE DEF type, path
<1>8. \A d \in Digit : find_child(big, d) = IF d = c THEN x ELSE find_child(nd, d)
  BY <1>3, <1>5
<1>9. Live(big) \subseteq DOMAIN big /\ DOMAIN big \subseteq TypeWords(type)
  BY <1>3, <1>5, <1>6, <1>7
<1> QED BY <1>3, <1>5, <1>8, <1>9 DEF type, path

\* A NODE4 as alloc_node leaves it.
LEMMA EmptyIs ==
  ASSUME NEW path, NEW nd, nd = alloc_node(NODE4, path)
  PROVE  /\ Laid(nd) /\ nd[Hdr] = Header(NODE4, path) /\ Taken(nd) = {} /\ HasRoom(nd)
         /\ DOMAIN nd = {Hdr, Slots} /\ Live(nd) = {Hdr, Slots}
         /\ \A d \in Digit : find_child(nd, d) = NULL
<1>1. nd = Both(Word(Hdr, Header(NODE4, path)), Word(Slots, <<>>))
  BY Caps DEF alloc_node
<1>2. DOMAIN nd = {Hdr, Slots} /\ nd[Hdr] = Header(NODE4, path) /\ nd[Slots] = <<>>
  BY <1>1, WordsApart DEF Both, Word
<1>3. nd[Hdr].type = NODE4
  BY <1>2, HeaderIs
<1>4. Range(nd[Slots]) = {}
  BY <1>2 DEF Range
<1>5. Taken(nd) = {} /\ \A d : PlaceOf(nd, d) = {}
  BY <1>3, <1>4, Is4
<1>6. Live(nd) = {Hdr, Slots}
  BY <1>3, <1>5, Is4
<1>7. Fits(nd)
  BY <1>2, <1>3, Caps DEF Fits, Fit4
<1>8. Laid(nd)
  BY <1>5, <1>7 DEF Laid
<1>9. HasRoom(nd)
  <2>1. Capacity(nd[Hdr].type) = CAP4 /\ 0 \in 0 .. CAP4 - 1
    BY <1>3, Is4, Caps
  <2> QED BY <1>5, <2>1 DEF HasRoom
<1> QED BY <1>2, <1>5, <1>6, <1>8, <1>9 DEF find_child

\* nd is a NODE4 over x and y.
PairOf(nd, path, c, x, d, y) ==
  c \in Digit /\ d \in Digit /\ c # d /\ x # NULL /\ y # NULL /\ nd = Pair(path, <<c, x>>, <<d, y>>)

\* The NODE4 over two children.
LEMMA PairIs ==
  ASSUME NEW nd, NEW path, NEW c, NEW x, NEW d, NEW y, PairOf(nd, path, c, x, d, y)
  PROVE  /\ Laid(nd) /\ nd[Hdr] = Header(NODE4, path)
         /\ Live(nd) \subseteq DOMAIN nd /\ DOMAIN nd \subseteq TypeWords(NODE4)
         /\ \A e \in Digit : find_child(nd, e) = IF e = c THEN x ELSE IF e = d THEN y ELSE NULL
<1>0. c \in Digit /\ d \in Digit /\ c # d /\ x # NULL /\ y # NULL /\ nd = Pair(path, <<c, x>>, <<d, y>>)
  BY DEF PairOf
<1> USE <1>0
<1> DEFINE none == alloc_node(NODE4, path)
           a == Added(none, c, x)
           one == Both(a, none)
           b == Added(one, d, y)
<1>1. nd = Both(b, one)
  BY DEF Pair
<1>2. /\ Laid(none) /\ none[Hdr] = Header(NODE4, path) /\ Taken(none) = {} /\ HasRoom(none)
      /\ DOMAIN none = {Hdr, Slots} /\ Live(none) = {Hdr, Slots}
      /\ \A e \in Digit : find_child(none, e) = NULL
  BY EmptyIs
<1>3. none[Hdr].type = NODE4
  BY <1>2, HeaderIs
<1> HIDE DEF none
<1>4. /\ Adding(none, c, x, a) /\ Live(one) \subseteq Live(none) \cup DOMAIN a
      /\ \E i : WithChild(none, one, c, x, i)
  BY <1>2, <1>3, Added4
<1>5. /\ Laid(one) /\ one[Hdr] = none[Hdr]
      /\ \A e \in Digit : find_child(one, e) = IF e = c THEN x ELSE find_child(none, e)
  BY <1>2, <1>3, AddedIs
<1>6. DOMAIN a \subseteq TypeWords(NODE4) /\ DOMAIN one = DOMAIN a \cup DOMAIN none
  BY <1>3, <1>4 DEF Adding, Both
<1>7. one[Hdr].type = NODE4
  BY <1>3, <1>5
<1>8. HasRoom(one)
  <2>1. PICK i : WithChild(none, one, c, x, i)
    BY <1>4
  <2>2. Taken(one) = {i}
    BY <1>2, <1>3, <2>1, Caps DEF WithChild
  <2>3. Capacity(one[Hdr].type) = CAP4 /\ 0 \in 0 .. CAP4 - 1 /\ 1 \in 0 .. CAP4 - 1
    BY <1>7, Is4, Caps
  <2> QED BY <2>2, <2>3 DEF HasRoom
<1>9. find_child(one, d) = NULL
  BY <1>2, <1>5
<1>10. Live(one) \subseteq DOMAIN one
  BY <1>2, <1>4, <1>6
<1> HIDE DEF a, one, b
<1>15. b = Added(one, d, y) /\ nd = Both(b, one)
  BY <1>1 DEF b
<1>11. /\ Adding(one, d, y, b) /\ Laid(nd) /\ nd[Hdr] = one[Hdr]
       /\ Live(nd) \subseteq Live(one) \cup DOMAIN b
       /\ \A e \in Digit : find_child(nd, e) = IF e = d THEN y ELSE find_child(one, e)
  <2>1. Laid(one) /\ HasRoom(one) /\ find_child(one, d) = NULL /\ Live(one) \subseteq DOMAIN one
    BY <1>5, <1>8, <1>9, <1>10
  <2> QED BY ONLY <1>15, <2>1, AddedIs, d \in Digit, y # NULL
<1>12. DOMAIN b \subseteq TypeWords(NODE4) /\ DOMAIN nd = DOMAIN b \cup DOMAIN one
  BY <1>1, <1>7, <1>11 DEF Adding, Both
<1>13. Live(nd) \subseteq DOMAIN nd /\ DOMAIN nd \subseteq TypeWords(NODE4)
  BY <1>2, <1>6, <1>10, <1>11, <1>12, TypeWordsAre
<1>14. \A e \in Digit : find_child(nd, e) = IF e = c THEN x ELSE IF e = d THEN y ELSE NULL
  BY <1>2, <1>5, <1>11
<1> QED BY <1>2, <1>5, <1>11, <1>13, <1>14

-----------------------------------------------------------------------------
(* What add_child promises *)

\* However much of an addition has reached the medium, and in whatever order, a
\* restart reads the node as it was until the one commit word is there: the other
\* words add_child4, 16, 48 and 256 store are words no layout counts yet
\* (add_child256 to add_child4, PART.c:527-707).
THEOREM AddsByOneWord ==
  ASSUME NEW nd, Laid(nd), NEW c \in Digit, find_child(nd, c) = NULL, NEW x, x # NULL, HasRoom(nd),
         Live(nd) \subseteq DOMAIN nd,
         NEW W, W \subseteq DOMAIN Added(nd, c, x), CommitWord(nd, c) \notin W,
         NEW nd2, nd2 = [w \in DOMAIN nd |-> IF w \in W THEN Added(nd, c, x)[w] ELSE nd[w]]
  PROVE  Laid(nd2) /\ \A d \in Digit : find_child(nd2, d) = find_child(nd, d)
<1> DEFINE a == Added(nd, c, x)
<1>1. Adding(nd, c, x, a)
  BY AddedIs
<1>2. \A w \in W : w \notin Live(nd)
  BY <1>1 DEF Adding
<1>3. \A w \in Live(nd) : nd2[w] = nd[w]
  BY <1>2
<1> HIDE DEF a
<1> QED BY <1>3, LiveSame

\* With all its words there, the node has the new child and every child it had,
\* each at a place of its own (add_child, PART.c:527-788).
THEOREM AddsOneChild ==
  ASSUME NEW nd, Laid(nd), NEW c \in Digit, find_child(nd, c) = NULL, NEW x, x # NULL, HasRoom(nd),
         Live(nd) \subseteq DOMAIN nd, NEW big, big = Both(Added(nd, c, x), nd)
  PROVE  /\ Laid(big) /\ big[Hdr] = nd[Hdr]
         /\ \A d \in Digit : find_child(big, d) = IF d = c THEN x ELSE find_child(nd, d)
BY AddedIs

\* A full node's copy in the next layout has the path, the new child and every
\* child of the original, whatever the places it held them at, and fewer than it
\* has room for at that (copy_header and the else branches, PART.c:522-727).
THEOREM GrowsToTheNext ==
  ASSUME NEW nd, Laid(nd), ~HasRoom(nd), NEW c \in Digit, find_child(nd, c) = NULL, NEW x, x # NULL,
         NEW big, big = Bigger(nd, c, x)
  PROVE  /\ Laid(big) /\ big[Hdr] = Header(nd[Hdr].type + 1, nd[Hdr].path)
         /\ nd[Hdr].type \in NODE4 .. NODE48 /\ Cardinality(Present(nd)) = Capacity(nd[Hdr].type)
         /\ Live(big) \subseteq DOMAIN big /\ DOMAIN big \subseteq TypeWords(nd[Hdr].type + 1)
         /\ \A d \in Digit : find_child(big, d) = IF d = c THEN x ELSE find_child(nd, d)
<1>1. nd[Hdr].type \in NODE4 .. NODE48 /\ Cardinality(Present(nd)) = Capacity(nd[Hdr].type)
  BY Full, Caps
<1> QED BY <1>1, BiggerIs
-----------------------------------------------------------------------------
(* A tree of such nodes *)

L == INSTANCE LazyPath_proofs WITH Forms <- {TRUE}, pessimistic <- TRUE

\* What the proofs about the path-compressed tree assume holds of this one.
LEMMA Ground == L!ArtKeysAssumption /\ L!LazyPathAssumption /\ L!DigitsAssumption
<1>1. L!ArtKeysAssumption
  BY ArtKeysAssumption DEF L!ArtKeysAssumption
<1>2. L!LazyPathAssumption
  BY PARTAssumption DEF L!LazyPathAssumption, L!FAN, FAN, L!MAX_HEIGHT, MAX_HEIGHT
<1>3. L!DigitsAssumption
  BY DigitsAssumption DEF L!DigitsAssumption, L!FAN, FAN, L!get_index, get_index
<1> QED BY <1>1, <1>2, <1>3

\* A header as the path-compressed tree has it, and a tree's objects.
HeaderView(path) == [partial_len |-> Len(path), partial |-> path]
Objs == {0} \cup INodes \cup Leaves

\* c as a path-compressed tree of nodes with one word per digit.
View(c) ==
  [o \in Objs |->
     IF o = 0 THEN [w \in {0} |-> c[0][Child(0)]]
     ELSE IF o \in INodes
       THEN [w \in 0 .. FAN |-> IF w = FAN THEN HeaderView(c[o][Hdr].path) ELSE find_child(c[o], w)]
     ELSE [w \in {0, 1} |-> IF w = 0 THEN c[o][Value] ELSE c[o][Key(0)]]]

\* Nodes hold the digits of their paths.
Form == TRUE
LEMMA FormIs == Form \in BOOLEAN /\ Form
BY DEF Form

\* What the two modules name alike is the same.
LEMMA Names ==
  /\ L!INodes = INodes /\ L!Leaves = Leaves /\ \A k : L!Leaf(k) = Leaf(k)
  /\ L!FAN = FAN /\ L!MAX_HEIGHT = MAX_HEIGHT /\ L!HDR = FAN /\ L!VALUE = 0 /\ L!KEY = 1
  /\ \A k, d : L!get_index(k, d) = get_index(k, d)
  /\ \A k, d, len : L!Digits(k, d, len) = Digits(k, d, len)
  /\ L!INodes \cup L!Leaves \cup {NULL} = Nodes
<1>1. L!INodes = INodes /\ \A k : L!Leaf(k) = Leaf(k)
  BY DEF L!INodes, INodes, L!Leaf, Leaf
<1>2. L!Leaves = Leaves
  BY DEF L!Leaves, Leaves, L!Leaf, Leaf
<1>3. L!FAN = FAN /\ L!MAX_HEIGHT = MAX_HEIGHT /\ L!HDR = FAN /\ L!VALUE = 0 /\ L!KEY = 1
  BY DEF L!FAN, FAN, L!MAX_HEIGHT, MAX_HEIGHT, L!HDR, L!VALUE, L!KEY
<1>4. \A k, d : L!get_index(k, d) = get_index(k, d)
  BY <1>3 DEF L!get_index, get_index
<1>5. \A k, d, len : L!Digits(k, d, len) = Digits(k, d, len)
  BY <1>4 DEF L!Digits, Digits
<1>6. L!INodes \cup L!Leaves \cup {NULL} = Nodes
  BY <1>1, <1>2 DEF Nodes
<1> QED BY <1>1, <1>2, <1>3, <1>4, <1>5, <1>6

\* Paths agree in both modules where they agree in one.
LEMMA AgreeSame ==
  ASSUME NEW s, NEW t
  PROVE  L!Agree(s, t) = Agree(s, t) /\ L!LongestCommonPrefix({s, t}) = LongestCommonPrefix({s, t})
<1>1. \A a, b : L!IsPrefix(a, b) <=> IsPrefix(a, b)
  BY DEF L!IsPrefix, IsPrefix
<1>2. \A a : L!Prefixes(a) = Prefixes(a)
  BY DEF L!Prefixes, Prefixes
<1>3. L!CommonPrefixes({s, t}) = CommonPrefixes({s, t})
  BY <1>1, <1>2 DEF L!CommonPrefixes, CommonPrefixes
<1>4. L!LongestCommonPrefix({s, t}) = LongestCommonPrefix({s, t})
  BY <1>3 DEF L!LongestCommonPrefix, LongestCommonPrefix
<1> QED BY <1>4 DEF L!Agree, Agree

\* Where two keys part.
LEMMA CommonSame ==
  ASSUME NEW j, NEW k, NEW d
  PROVE  L!longest_common_prefix(j, k, d) = longest_common_prefix(j, k, d)
BY Names, AgreeSame DEF L!longest_common_prefix, longest_common_prefix

\* What the view shows.
LEMMA ViewIs ==
  ASSUME NEW c, NEW v, v = View(c)
  PROVE  /\ v[0][0] = c[0][Child(0)]
         /\ \A n \in INodes : /\ v[n][FAN] = HeaderView(c[n][Hdr].path)
                              /\ v[n][FAN].partial_len = Len(c[n][Hdr].path) /\ v[n][FAN].partial = c[n][Hdr].path
                              /\ \A i \in 0 .. FAN - 1 : v[n][i] = find_child(c[n], i)
         /\ \A m \in Leaves : v[m][0] = c[m][Value] /\ v[m][1] = c[m][Key(0)]
<1>1. /\ 0 \in Objs /\ INodes \subseteq Objs /\ Leaves \subseteq Objs
      /\ \A n \in INodes : n # 0 /\ n \notin Leaves
      /\ \A m \in Leaves : m # 0 /\ m \notin INodes
  BY Ground, Names, L!Objects DEF Objs
<1>2. FAN \in 0 .. FAN /\ \A i \in 0 .. FAN - 1 : i \in 0 .. FAN /\ i # FAN
  BY Caps
<1>3. v[0][0] = c[0][Child(0)]
  BY <1>1 DEF View
<1>4. ASSUME NEW n \in INodes
      PROVE  v[n] = [w \in 0 .. FAN |-> IF w = FAN THEN HeaderView(c[n][Hdr].path) ELSE find_child(c[n], w)]
  BY <1>1 DEF View
<1>5. \A n \in INodes : v[n][FAN] = HeaderView(c[n][Hdr].path) /\ \A i \in 0 .. FAN - 1 : v[n][i] = find_child(c[n], i)
  BY <1>2, <1>4
<1>6. \A p : HeaderView(p).partial_len = Len(p) /\ HeaderView(p).partial = p
  BY DEF HeaderView
<1>7. \A m \in Leaves : v[m][0] = c[m][Value] /\ v[m][1] = c[m][Key(0)]
  BY <1>1 DEF View
<1> QED BY <1>3, <1>5, <1>6, <1>7

-----------------------------------------------------------------------------
(* Reading a tree *)

\* Loops that turn alike end alike.
LEMMA LoopsAgree ==
  ASSUME NEW D, NEW f, NEW f2, NEW x \in D, NEW n \in Nat, \A s \in D : f[s] \in D /\ f2[s] = f[s],
         NEW g, L!Loop(f, x, n, g), NEW g2, L!Loop(f2, x, n, g2)
  PROVE  g2 = g /\ \A j \in 0 .. n : g[j] \in D
<1>1. g = [j \in 0 .. n |-> IF j = 0 THEN x ELSE f[g[j - 1]]] /\ g2 = [j \in 0 .. n |-> IF j = 0 THEN x ELSE f2[g2[j - 1]]]
  BY DEF L!Loop
<1> DEFINE T == {j \in 0 .. n : g[j] \in D /\ g2[j] = g[j]}
<1>2. 0 \in T
  BY <1>1
<1>3. ASSUME NEW j \in 0 .. n - 1, j \in T PROVE j + 1 \in T
  <2>1. j + 1 \in 0 .. n /\ j + 1 # 0 /\ (j + 1) - 1 = j
    OBVIOUS
  <2>2. g[j + 1] = f[g[j]] /\ g2[j + 1] = f2[g2[j]]
    BY <1>1, <2>1
  <2> QED BY <1>3, <2>1, <2>2
<1> HIDE DEF T
<1>4. \A j \in 0 .. n : j \in T
  BY <1>2, <1>3, Ground, L!Ascent
<1>5. \A j \in 0 .. n : g[j] \in D /\ g2[j] = g[j]
  BY <1>4 DEF T
<1>6. DOMAIN g = 0 .. n /\ DOMAIN g2 = 0 .. n /\ g = [j \in 0 .. n |-> g[j]] /\ g2 = [j \in 0 .. n |-> g2[j]]
  BY <1>1
<1> QED BY <1>5, <1>6

\* A turn of art_search is that of the path-compressed tree's.
LEMMA TurnSame ==
  ASSUME NEW c, NEW v, v = View(c), NEW S, NEW dep, NEW rep, L!Shape(Form, v, S, dep, rep), NEW k \in Keys,
         NEW A, NEW s, s.n \in INodes => s.n \in S, L!Going(v, S, dep, k, A, s)
  PROVE  Turn(c, k, s) = L!Turn(v, k, s)
<1>1. CASE s.n \notin INodes
  BY <1>1, Names DEF Turn, L!Turn
<1>2. CASE s.n \in INodes
  <2> DEFINE n == s.n
             path == c[n][Hdr].path
             d == s.depth + Len(path)
  <2>1. v[n][L!HDR].partial_len = Len(path) /\ v[n][L!HDR].partial = path
    BY <1>2, ViewIs, Names
  <2>2. n \in S \cap L!INodes /\ s.depth = dep[n]
    BY <1>2, Names DEF L!Going
  <2>3. L!End(v, dep, n) = d /\ d \in 0 .. MAX_DEPTH
    <3>1. L!End(v, dep, n) \in 0 .. MAX_DEPTH /\ L!End(v, dep, n) = dep[n] + v[n][L!HDR].partial_len
      BY <2>2, Ground, L!InnerNode
    <3> QED BY <2>1, <2>2, <3>1
  <2>4. get_index(k, d) \in 0 .. FAN - 1
    BY <2>3, Ground, Names, L!Digit
  <2>5. v[n][get_index(k, d)] = find_child(c[n], get_index(k, d))
    BY <1>2, <2>4, ViewIs
  <2>6. L!check_prefix(v, n, k, s.depth) = prefix_mismatch(c[n], k, s.depth)
    BY <2>1, Names, AgreeSame DEF L!check_prefix, prefix_mismatch
  <2>7. Turn(c, k, s) = IF prefix_mismatch(c[n], k, s.depth) # Len(path) THEN [n |-> NULL, depth |-> d]
                        ELSE [n |-> find_child(c[n], get_index(k, d)), depth |-> d + 1]
    BY <1>2 DEF Turn
  <2>8. L!Turn(v, k, s) = IF L!check_prefix(v, n, k, s.depth) # Len(v[n][L!HDR].partial)
                          THEN [n |-> NULL, depth |-> s.depth + v[n][L!HDR].partial_len]
                          ELSE [n |-> v[n][L!get_index(k, s.depth + v[n][L!HDR].partial_len)],
                                depth |-> s.depth + v[n][L!HDR].partial_len + 1]
    BY <1>2, Names DEF L!Turn
  <2>9. L!get_index(k, d) = get_index(k, d)
    BY Names
  <2> HIDE DEF n, path
  <2> QED BY <2>1, <2>5, <2>6, <2>7, <2>8, <2>9
<1> QED BY <1>1, <1>2

\* art_search finds what the path-compressed tree's finds.
LEMMA SearchIs ==
  ASSUME NEW c, NEW v, v = View(c), NEW S, NEW dep, NEW rep, L!Shape(Form, v, S, dep, rep), NEW k \in Keys
  PROVE  art_search(c, k) = L!art_search(v, k)
<1> DEFINE Places == [n : Nodes, depth : Nat]
           f == [s \in Places |-> L!Turn(v, k, s)]
           f2 == [s \in Places |-> Turn(c, k, s)]
           x == [n |-> c[0][Child(0)], depth |-> 0]
           value == [n \in Nodes |-> IF n \in Leaves /\ c[n][Key(0)] = k THEN c[n][Value] ELSE NULL]
<1>1. PICK A : Leaf(k) \in S => A \subseteq S /\ L!OnTheWay(v, dep, rep, k, A)
  BY Ground, Names, L!WayExists
<1> DEFINE D == {s \in Places : L!Going(v, S, dep, k, A, s)}
<1>0. v[0][0] = c[0][Child(0)] /\ MAX_HEIGHT \in Nat
  BY ViewIs, Ground, Names, L!Sizes
<1>s. S \subseteq INodes \cup Leaves /\ NULL \notin S /\ \A n \in INodes \cup Leaves : n \in Nodes
  BY Ground, Names, L!Objects DEF L!Shape, L!Placed, Nodes
<1>2. x \in D
  <2>2. v[0][0] = NULL \/ (v[0][0] \in S /\ dep[v[0][0]] = 0)
    BY Ground, L!RootIs
  <2>3. Leaf(k) \in S => v[0][0] \in A
    BY <1>1 DEF L!OnTheWay
  <2>4. L!Going(v, S, dep, k, A, x)
    BY <1>0, <1>s, <2>2, <2>3, Names DEF L!Going
  <2>5. x \in Places
    BY <1>0, <1>s, <2>2 DEF Nodes
  <2> QED BY <2>4, <2>5
<1>3. ASSUME NEW s \in D PROVE f[s] \in D /\ f2[s] = f[s]
  <2>1. f[s] = L!Turn(v, k, s) /\ f2[s] = Turn(c, k, s)
    OBVIOUS
  <2>2. s \in [n : L!INodes \cup L!Leaves \cup {NULL}, depth : Nat] /\ L!Going(v, S, dep, k, A, s)
    BY Names
  <2>3. L!Turn(v, k, s) \in [n : L!INodes \cup L!Leaves \cup {NULL}, depth : Nat] /\ L!Going(v, S, dep, k, A, L!Turn(v, k, s))
    <3>1. L!Leaf(k) \in S => A \subseteq S /\ L!OnTheWay(v, dep, rep, k, A)
      BY <1>1, Names
    <3> HIDE DEF D, Places
    <3> QED BY <2>2, <3>1, Ground, FormIs, L!TurnIs
  <2>4. s.n \in INodes => s.n \in S
    BY <2>2, Ground, Names, L!Objects DEF L!Going
  <2>5. Turn(c, k, s) = L!Turn(v, k, s)
    <3> HIDE DEF D, Places
    <3> QED BY <2>2, <2>4, TurnSame
  <2>6. L!Turn(v, k, s) \in Places
    BY <2>3, Names
  <2> QED BY <2>1, <2>3, <2>5, <2>6
<1>4. \E g : L!Loop(f, x, MAX_HEIGHT, g)
  <2> HIDE DEF f, x
  <2> QED BY <1>0, Ground, L!Repeated
<1>5. \E g : L!Loop(f2, x, MAX_HEIGHT, g)
  <2> HIDE DEF f2, x
  <2> QED BY <1>0, Ground, L!Repeated
<1> DEFINE lf == [s \in [n : L!INodes \cup L!Leaves \cup {NULL}, depth : Nat] |-> L!Turn(v, k, s)]
           lvalue == [n \in L!INodes \cup L!Leaves \cup {NULL} |->
                        IF n \in L!Leaves /\ v[n][L!KEY] = k THEN v[n][L!VALUE] ELSE NULL]
<1>l. lf = f /\ [n |-> v[0][0], depth |-> 0] = x /\ L!MAX_HEIGHT = MAX_HEIGHT
  BY <1>0, Names
<1>m. \E g : L!Loop(lf, [n |-> v[0][0], depth |-> 0], L!MAX_HEIGHT, g)
  <2> HIDE DEF f, lf, x
  <2> QED BY <1>4, <1>l
<1>n. PICK g : L!Loop(lf, [n |-> v[0][0], depth |-> 0], L!MAX_HEIGHT, g)
               /\ L!art_search(v, k) = lvalue[g[L!MAX_HEIGHT].n]
  BY <1>m DEF L!art_search, L!Loop
<1>o. lvalue = [n \in Nodes |-> IF n \in Leaves /\ v[n][1] = k THEN v[n][0] ELSE NULL]
  BY Names
<1>6. L!Loop(f, x, MAX_HEIGHT, g)
      /\ L!art_search(v, k) = [n \in Nodes |-> IF n \in Leaves /\ v[n][1] = k THEN v[n][0] ELSE NULL][g[MAX_HEIGHT].n]
  <2> HIDE DEF f, lf, x, lvalue
  <2> QED BY <1>l, <1>n, <1>o
<1>7. PICK g2 : L!Loop(f2, x, MAX_HEIGHT, g2) /\ art_search(c, k) = value[g2[MAX_HEIGHT].n]
  BY <1>5, Zenon DEF art_search, L!Loop
<1>8. g2 = g
  <2>1. x \in D /\ (\A s \in D : f[s] \in D /\ f2[s] = f[s]) /\ MAX_HEIGHT \in Nat
    BY <1>0, <1>2, <1>3
  <2>2. L!Loop(f, x, MAX_HEIGHT, g) /\ L!Loop(f2, x, MAX_HEIGHT, g2)
    BY <1>6, <1>7
  <2> HIDE DEF f, f2, x, D
  <2> QED BY <2>1, <2>2, LoopsAgree
<1>9. [n \in Nodes |-> IF n \in Leaves /\ v[n][1] = k THEN v[n][0] ELSE NULL] = value
  BY ViewIs
<1> QED BY <1>6, <1>7, <1>8, <1>9

\* Every inner node of S is laid out.
AllLaid(c, S) == \A n \in S \cap INodes : Laid(c[n])

\* Sequences made step by step alike are the same.
Likewise(D, n, g, g2) ==
  /\ n \in Nat /\ g = [j \in 0 .. n |-> g[j]] /\ g2 = [j \in 0 .. n |-> g2[j]]
  /\ g[0] \in D /\ g2[0] = g[0]
  /\ \A j \in 0 .. n - 1 : g[j] \in D /\ g2[j] = g[j] => g[j + 1] \in D /\ g2[j + 1] = g[j + 1]
LEMMA Alongside ==
  ASSUME NEW D, NEW n, NEW g, NEW g2, Likewise(D, n, g, g2)
  PROVE  g2 = g /\ \A j \in 0 .. n : g[j] \in D
<1> USE DEF Likewise
<1> DEFINE T == {j \in 0 .. n : g[j] \in D /\ g2[j] = g[j]}
<1>1. 0 \in T
  OBVIOUS
<1>2. ASSUME NEW j \in 0 .. n - 1, j \in T PROVE j + 1 \in T
  <2>1. j + 1 \in 0 .. n
    OBVIOUS
  <2> QED BY <1>2, <2>1
<1> HIDE DEF T
<1>3. \A j \in 0 .. n : j \in T
  BY <1>1, <1>2, Ground, L!Ascent
<1>4. \A j \in 0 .. n : g[j] \in D /\ g2[j] = g[j]
  BY <1>3 DEF T
<1> QED BY <1>4

\* What turns again and again, within D.
Turns(D, f, x, n) == x \in D /\ n \in Nat /\ \A s \in D : f[s] \in D
LEMMA LoopMade ==
  ASSUME NEW D, NEW f, NEW x, NEW n, Turns(D, f, x, n)
  PROVE  \E g : /\ g[0] = x /\ g = [j \in 0 .. n |-> g[j]]
                /\ \A j \in 0 .. n : g[j] \in D
                /\ \A j \in 0 .. n : j # 0 => g[j] = f[g[j - 1]]
<1>0. x \in D /\ n \in Nat /\ \A s \in D : f[s] \in D
  BY DEF Turns
<1>1. PICK g : L!Loop(f, x, n, g)
  BY <1>0, Ground, L!Repeated
<1>2. /\ g[0] = x /\ g = [j \in 0 .. n |-> g[j]]
      /\ \A j \in 0 .. n : g[j] \in D
      /\ \A j \in 0 .. n : j # 0 => g[j] = f[g[j - 1]]
  BY <1>0, <1>1, Ground, L!LoopIn
<1> QED BY <1>2

\* The nodes that those of N lead to.
Under(c, N) == (UNION {Below(c[n]) : n \in N}) \cap INodes

\* The digits a node has children for.
LEMMA PresentIs ==
  ASSUME NEW c, NEW v, v = View(c), NEW n \in INodes, Laid(c[n])
  PROVE  /\ Present(c[n]) = {i \in 0 .. FAN - 1 : v[n][i] # NULL}
         /\ \A i \in 0 .. FAN - 1 : v[n][i] = find_child(c[n], i)
<1>1. ASSUME NEW i \in Digit PROVE v[n][i] = find_child(c[n], i) /\ (i \in Present(c[n]) <=> v[n][i] # NULL)
  <2>1. v[n][i] = find_child(c[n], i)
    BY ViewIs DEF Digit
  <2>2. find_child(c[n], i) = NULL <=> PlaceOf(c[n], i) = {}
    BY ChildNull
  <2> QED BY <2>1, <2>2 DEF Present, Digit
<1>2. Present(c[n]) \subseteq Digit
  BY DEF Present, Digit
<1> QED BY <1>1, <1>2 DEF Digit

\* Its children.
LEMMA ChildrenOf ==
  ASSUME NEW c, NEW v, v = View(c), NEW n, n \in INodes /\ Laid(c[n])
  PROVE  \A x : x \in Below(c[n]) <=> x # NULL /\ \E i \in 0 .. FAN - 1 : v[n][i] = x
<1>1. PICK P : P = Present(c[n])
  OBVIOUS
<1>2. P = {i \in 0 .. FAN - 1 : v[n][i] # NULL} /\ \A i \in 0 .. FAN - 1 : v[n][i] = find_child(c[n], i)
  BY <1>1, PresentIs
<1>3. Below(c[n]) = {find_child(c[n], d) : d \in P}
  BY <1>1 DEF Below
<1> QED BY <1>2, <1>3

\* Level by level, Reachable finds the inner nodes of the tree.
LEMMA ReachIs ==
  ASSUME NEW c, NEW v, v = View(c), NEW S, NEW dep, NEW rep, L!Shape(Form, v, S, dep, rep), AllLaid(c, S)
  PROVE  Reachable(c) = S \cap INodes
<1> DEFINE x == {c[0][Child(0)]} \cap INodes
           D == SUBSET (S \cap INodes)
<1>0. v[0][0] = c[0][Child(0)] /\ MAX_HEIGHT \in Nat /\ NULL \notin INodes
  BY ViewIs, Ground, Names, L!Sizes, L!Objects
<1>1. x \in D
  <2>1. v[0][0] = NULL \/ v[0][0] \in S
    BY Ground, L!RootIs
  <2> QED BY <1>0, <2>1
<1>2. ASSUME NEW N \in D
      PROVE  Under(c, N) = L!Below(v, N) /\ L!Below(v, N) \in D
  <2>1. \A n \in N : n \in INodes /\ n \in S /\ Laid(c[n])
    BY DEF AllLaid
  <2>2. ASSUME NEW m PROVE m \in Under(c, N) <=> m \in L!Below(v, N)
    <3>1. m \in L!Below(v, N) <=> m \in INodes /\ \E n \in N : \E i \in 0 .. FAN - 1 : m = v[n][i]
      BY Names DEF L!Below
    <3>2. ASSUME NEW n \in N, m \in INodes PROVE m \in Below(c[n]) <=> \E i \in 0 .. FAN - 1 : m = v[n][i]
      <4>0. n \in INodes /\ Laid(c[n]) /\ v = View(c)
        BY <2>1
      <4>1. m \in Below(c[n]) <=> m # NULL /\ \E i \in 0 .. FAN - 1 : v[n][i] = m
        BY ONLY <4>0, ChildrenOf
      <4>2. m # NULL
        BY <1>0, <3>2
      <4> QED BY <4>1, <4>2
    <3> QED BY <3>1, <3>2 DEF Under
  <2>3. L!Below(v, N) \subseteq S \cap L!INodes
    <3>1. N \subseteq S \cap L!INodes
      BY Names
    <3> QED BY <3>1, Ground, L!BelowIs
  <2> QED BY <2>2, <2>3, Names
<1> DEFINE F == [N \in D |-> L!Below(v, N)]
<1>3. \A N \in D : F[N] = L!Below(v, N) /\ F[N] \in D
  BY <1>2
<1> HIDE DEF x, D, F
<1>5. PICK g :
      /\ g[0] = x /\ g = [j \in 0 .. MAX_HEIGHT |-> g[j]]
      /\ \A j \in 0 .. MAX_HEIGHT : g[j] \in D
      /\ \A j \in 0 .. MAX_HEIGHT : j # 0 => g[j] = F[g[j - 1]]
  <2>1. Turns(D, F, x, MAX_HEIGHT)
    BY <1>1, <1>0, <1>3 DEF Turns
  <2> QED BY ONLY <2>1, LoopMade
<1>6. ASSUME NEW j \in 0 .. MAX_HEIGHT
      PROVE  /\ g[j] = IF j = 0 THEN x ELSE L!Below(v, g[j - 1])
             /\ g[j] = IF j = 0 THEN x ELSE Under(c, g[j - 1])
  <2>1. CASE j = 0
    BY <1>5, <2>1
  <2>2. CASE j # 0
    <3>1. j - 1 \in 0 .. MAX_HEIGHT
      BY <1>0, <2>2
    <3> QED BY <1>2, <1>3, <1>5, <2>2, <3>1
  <2> QED BY <2>1, <2>2
<1>7. /\ g = [j \in 0 .. MAX_HEIGHT |-> IF j = 0 THEN x ELSE L!Below(v, g[j - 1])]
      /\ g = [j \in 0 .. MAX_HEIGHT |-> IF j = 0 THEN x ELSE Under(c, g[j - 1])]
  BY <1>5, <1>6
<1>8. PICK g1 : /\ g1 = [j \in 0 .. MAX_HEIGHT |-> IF j = 0 THEN x ELSE Under(c, g1[j - 1])]
                /\ Reachable(c) = UNION {g1[j] : j \in 0 .. MAX_HEIGHT}
  <2>1. PICK h : h = CHOOSE z : z = [j \in 0 .. MAX_HEIGHT |-> IF j = 0 THEN x ELSE Under(c, z[j - 1])]
    OBVIOUS
  <2>2. h = [j \in 0 .. MAX_HEIGHT |-> IF j = 0 THEN x ELSE Under(c, h[j - 1])]
    BY <1>7, <2>1
  <2>3. Reachable(c) = UNION {h[j] : j \in 0 .. MAX_HEIGHT}
    BY <2>1 DEF Reachable, x, Under
  <2> QED BY <2>2, <2>3
<1>9. L!Below(v, {}) = {} /\ x = {v[0][0]} \cap L!INodes
  BY <1>0, Names DEF L!Below, x
<1>10. PICK g2 : /\ g2 = [j \in 0 .. MAX_HEIGHT |-> IF j = 0 THEN x ELSE L!Below(v, g2[j - 1])]
                 /\ L!Reachable(v) = UNION {g2[j] : j \in 0 .. MAX_HEIGHT}
  <2> DEFINE lx == {v[0][0]} \cap L!INodes
  <2>1. PICK g3 : /\ g3 = [j \in 0 .. L!MAX_HEIGHT |-> IF j = 0 THEN lx ELSE L!Below(v, g3[j - 1])]
                  /\ L!Reachable(v) = UNION {g3[j] : j \in 0 .. L!MAX_HEIGHT}
    <3>1. \E h : h = [j \in 0 .. L!MAX_HEIGHT |-> IF j = 0 THEN lx ELSE L!Below(v, h[j - 1])]
      <4>1. lx = x /\ L!MAX_HEIGHT = MAX_HEIGHT
        BY <1>9, Names
      <4> HIDE DEF lx
      <4> QED BY <1>7, <4>1
    <3>2. PICK g3 : /\ g3 = [j \in 0 .. L!MAX_HEIGHT |-> IF j = 0 THEN lx ELSE L!Below(v, g3[j - 1])]
                  /\ L!Reachable(v) = UNION {g3[j] : j \in 0 .. L!MAX_HEIGHT}
      BY <3>1 DEF L!Reachable
    <3> QED BY <3>2
  <2>2. lx = x /\ L!MAX_HEIGHT = MAX_HEIGHT
    BY <1>9, Names
  <2> HIDE DEF lx
  <2>3. /\ g3 = [j \in 0 .. MAX_HEIGHT |-> IF j = 0 THEN x ELSE L!Below(v, g3[j - 1])]
        /\ L!Reachable(v) = UNION {g3[j] : j \in 0 .. MAX_HEIGHT}
    BY ONLY <2>1, <2>2
  <2> QED BY ONLY <2>3
<1>11. g1 = g /\ g2 = g
  <2>1. g1 = [j \in 0 .. MAX_HEIGHT |-> g1[j]] /\ g2 = [j \in 0 .. MAX_HEIGHT |-> g2[j]] /\ g1[0] = x /\ g2[0] = x
    BY <1>0, <1>8, <1>10
  <2>2. \A j \in 0 .. MAX_HEIGHT - 1 : j + 1 \in 0 .. MAX_HEIGHT /\ j + 1 # 0 /\ (j + 1) - 1 = j
    BY <1>0
  <2>3. ASSUME NEW j \in 0 .. MAX_HEIGHT - 1
        PROVE  /\ g[j + 1] \in D /\ g[j + 1] = Under(c, g[j]) /\ g[j + 1] = L!Below(v, g[j])
               /\ g1[j + 1] = Under(c, g1[j]) /\ g2[j + 1] = L!Below(v, g2[j])
    <3>1. g[j + 1] \in D /\ g[j + 1] = Under(c, g[j]) /\ g[j + 1] = L!Below(v, g[j])
      BY <1>5, <1>6, <2>2
    <3>2. g1[j + 1] = Under(c, g1[j])
      BY <1>8, <2>2
    <3>3. g2[j + 1] = L!Below(v, g2[j])
      BY <1>10, <2>2
    <3> QED BY <3>1, <3>2, <3>3
  <2>4. /\ \A j \in 0 .. MAX_HEIGHT - 1 : g[j] \in D /\ g1[j] = g[j] => g[j + 1] \in D /\ g1[j + 1] = g[j + 1]
        /\ \A j \in 0 .. MAX_HEIGHT - 1 : g[j] \in D /\ g2[j] = g[j] => g[j + 1] \in D /\ g2[j + 1] = g[j + 1]
    BY <2>3
  <2>5. g[0] \in D /\ g1[0] = g[0] /\ g2[0] = g[0]
    BY <1>1, <1>5, <2>1
  <2>6. Likewise(D, MAX_HEIGHT, g, g1) /\ Likewise(D, MAX_HEIGHT, g, g2)
    BY <1>0, <1>5, <2>1, <2>4, <2>5 DEF Likewise
  <2>7. g1 = g /\ g2 = g
    BY ONLY <2>6, Alongside
  <2> QED BY <2>7
<1> QED BY <1>8, <1>10, <1>11, Ground, Names, L!ReachableIs

\* The leftmost leaf below a node is that of the path-compressed tree.
LEMMA MinimumSame ==
  ASSUME NEW c, NEW v, v = View(c), NEW S, NEW dep, NEW rep, L!Shape(Form, v, S, dep, rep), AllLaid(c, S), NEW m \in S
  PROVE  minimum(c, m) = L!minimum(v, m)
<1>1. ASSUME NEW n \in S PROVE Left(c, n) = L!Left(v, n) /\ L!Left(v, n) \in S
  <2>1. CASE n \notin INodes
    BY <2>1, Names DEF Left, L!Left
  <2>2. CASE n \in INodes
    <3>1. Laid(c[n])
      BY <2>2 DEF AllLaid
    <3>2. Present(c[n]) = {i \in 0 .. FAN - 1 : v[n][i] # NULL}
      BY <2>2, <3>1, PresentIs
    <3>3. n \in S \cap L!INodes
      BY <2>2, Names
    <3>4. PICK i \in 0 .. L!FAN - 1 : v[n][i] # NULL /\ L!Left(v, n) = v[n][i]
      BY <3>3, Ground, L!LeftChild
    <3>5. v[n][i] \in S
      BY <3>3, <3>4, Ground, L!ChildIs
    <3>6. i \in Present(c[n]) /\ Present(c[n]) \subseteq Nat
      BY <3>2, <3>4, Names, Caps
    <3>7. Min(Present(c[n])) \in Present(c[n])
      BY <3>6, LeastIs
    <3>8. L!Min(Present(c[n])) = Min(Present(c[n]))
      BY DEF L!Min, Min
    <3>9. L!Left(v, n) = v[n][Min(Present(c[n]))]
      BY <2>2, <3>2, <3>8, Names DEF L!Left
    <3>10. Left(c, n) = find_child(c[n], Min(Present(c[n])))
      BY <2>2 DEF Left
    <3>11. v[n][Min(Present(c[n]))] = find_child(c[n], Min(Present(c[n])))
      BY <2>2, <3>7, ViewIs DEF Present
    <3> QED BY <3>4, <3>5, <3>9, <3>10, <3>11
  <2> QED BY <2>1, <2>2
<1>2. MAX_HEIGHT \in Nat
  BY Ground, Names, L!Sizes
<1> DEFINE F == [n \in S |-> L!Left(v, n)]
<1>3. \A n \in S : F[n] = L!Left(v, n) /\ F[n] \in S
  BY <1>1
<1> HIDE DEF F
<1>5. PICK g :
      /\ g[0] = m /\ g = [j \in 0 .. MAX_HEIGHT |-> g[j]]
      /\ \A j \in 0 .. MAX_HEIGHT : g[j] \in S
      /\ \A j \in 0 .. MAX_HEIGHT : j # 0 => g[j] = F[g[j - 1]]
  <2>1. Turns(S, F, m, MAX_HEIGHT)
    BY <1>2, <1>3 DEF Turns
  <2> QED BY ONLY <2>1, LoopMade
<1>6. ASSUME NEW j \in 0 .. MAX_HEIGHT
      PROVE  /\ g[j] = IF j = 0 THEN m ELSE L!Left(v, g[j - 1])
             /\ g[j] = IF j = 0 THEN m ELSE Left(c, g[j - 1])
  <2>1. CASE j = 0
    BY <1>5, <2>1
  <2>2. CASE j # 0
    <3>1. j - 1 \in 0 .. MAX_HEIGHT
      BY <1>2, <2>2
    <3> QED BY <1>1, <1>3, <1>5, <2>2, <3>1
  <2> QED BY <2>1, <2>2
<1>7. /\ g = [j \in 0 .. MAX_HEIGHT |-> IF j = 0 THEN m ELSE L!Left(v, g[j - 1])]
      /\ g = [j \in 0 .. MAX_HEIGHT |-> IF j = 0 THEN m ELSE Left(c, g[j - 1])]
  BY <1>5, <1>6
<1>8. PICK g1 : /\ g1 = [j \in 0 .. MAX_HEIGHT |-> IF j = 0 THEN m ELSE Left(c, g1[j - 1])]
                /\ minimum(c, m) = g1[MAX_HEIGHT]
  BY <1>7 DEF minimum
<1>9. PICK g2 : /\ g2 = [j \in 0 .. MAX_HEIGHT |-> IF j = 0 THEN m ELSE L!Left(v, g2[j - 1])]
                /\ L!minimum(v, m) = g2[MAX_HEIGHT]
  BY <1>7, Names DEF L!minimum
<1>11. g1 = g /\ g2 = g
  <2>1. g1 = [j \in 0 .. MAX_HEIGHT |-> g1[j]] /\ g2 = [j \in 0 .. MAX_HEIGHT |-> g2[j]] /\ g1[0] = m /\ g2[0] = m
    BY <1>2, <1>8, <1>9
  <2>2. \A j \in 0 .. MAX_HEIGHT - 1 : j + 1 \in 0 .. MAX_HEIGHT /\ j + 1 # 0 /\ (j + 1) - 1 = j
    BY <1>2
  <2>3. ASSUME NEW j \in 0 .. MAX_HEIGHT - 1
        PROVE  /\ g[j + 1] \in S /\ g[j + 1] = Left(c, g[j]) /\ g[j + 1] = L!Left(v, g[j])
               /\ g1[j + 1] = Left(c, g1[j]) /\ g2[j + 1] = L!Left(v, g2[j])
    <3>1. g[j + 1] \in S /\ g[j + 1] = Left(c, g[j]) /\ g[j + 1] = L!Left(v, g[j])
      BY <1>5, <1>6, <2>2
    <3>2. g1[j + 1] = Left(c, g1[j])
      BY <1>8, <2>2
    <3>3. g2[j + 1] = L!Left(v, g2[j])
      BY <1>9, <2>2
    <3> QED BY <3>1, <3>2, <3>3
  <2>4. /\ \A j \in 0 .. MAX_HEIGHT - 1 : g[j] \in S /\ g1[j] = g[j] => g[j + 1] \in S /\ g1[j + 1] = g[j + 1]
        /\ \A j \in 0 .. MAX_HEIGHT - 1 : g[j] \in S /\ g2[j] = g[j] => g[j + 1] \in S /\ g2[j + 1] = g[j + 1]
    BY <2>3
  <2>5. g[0] \in S /\ g1[0] = g[0] /\ g2[0] = g[0]
    BY <1>5, <2>1
  <2>6. Likewise(S, MAX_HEIGHT, g, g1) /\ Likewise(S, MAX_HEIGHT, g, g2)
    BY <1>2, <1>5, <2>1, <2>4, <2>5 DEF Likewise
  <2>7. g1 = g /\ g2 = g
    BY ONLY <2>6, Alongside
  <2> QED BY <2>7
<1> QED BY <1>8, <1>9, <1>11

\* The places of the tree's inner nodes.
Places(S, dep) == {L!Place(dep, n) : n \in S \cap INodes}

\* Nodes found where they are lead to the same nodes in the path-compressed tree.
LEMMA ChildrenSame ==
  ASSUME NEW c, NEW v, v = View(c), NEW S, NEW dep, NEW rep, L!Shape(Form, v, S, dep, rep), AllLaid(c, S),
         NEW N, N \subseteq Places(S, dep)
  PROVE  Inner(Children(c, N)) = L!Inner(L!Children(v, N)) /\ L!Inner(L!Children(v, N)) \subseteq Places(S, dep)
<1>1. L!Inner(L!Children(v, N)) \subseteq Places(S, dep)
  <2>1. N \subseteq {L!Place(dep, n) : n \in S \cap L!INodes}
    BY Names DEF Places
  <2>2. L!Inner(L!Children(v, N)) \subseteq {L!Place(dep, n) : n \in S \cap L!INodes}
    BY <2>1, Ground, L!ChildrenIs
  <2> QED BY <2>2, Names DEF Places
<1> DEFINE Deep(s) == s.depth + Len(c[s.n][Hdr].path) + 1
           Way(s, e) == \E i \in 0 .. FAN - 1 : e = [n |-> v[s.n][i], depth |-> Deep(s)]
<1>2. ASSUME NEW s \in N
      PROVE  s.n \in INodes /\ Laid(c[s.n]) /\ v[s.n][FAN].partial_len = Len(c[s.n][Hdr].path)
  <2>1. s.n \in S \cap INodes
    BY DEF Places, L!Place
  <2> QED BY <2>1, ViewIs DEF AllLaid
<1>3. ASSUME NEW s \in N, NEW e
      PROVE  (e \in [n : Below(c[s.n]), depth : {Deep(s)}] /\ e.n \in INodes) <=> (Way(s, e) /\ e.n \in INodes)
  <2>1. \A x : x \in Below(c[s.n]) <=> x # NULL /\ \E i \in 0 .. FAN - 1 : v[s.n][i] = x
    <3>1. PICK n : n = s.n
      OBVIOUS
    <3>2. n \in INodes /\ Laid(c[n]) /\ v = View(c)
      BY <1>2, <3>1
    <3>3. \A x : x \in Below(c[n]) <=> x # NULL /\ \E i \in 0 .. FAN - 1 : v[n][i] = x
      BY ONLY <3>2, ChildrenOf
    <3> QED BY <3>1, <3>3
  <2>2. NULL \notin INodes
    BY Ground, Names, L!Objects
  <2>3. PICK B, d : B = Below(c[s.n]) /\ d = Deep(s)
    OBVIOUS
  <2>4. e \in [n : B, depth : {d}] <=> \E x \in B : e = [n |-> x, depth |-> d]
    OBVIOUS
  <2>5. Way(s, e) <=> \E i \in 0 .. FAN - 1 : e = [n |-> v[s.n][i], depth |-> d]
    BY <2>3
  <2>6. \A x : [n |-> x, depth |-> d].n = x
    OBVIOUS
  <2> HIDE DEF Way, Deep
  <2> QED BY <2>1, <2>2, <2>3, <2>4, <2>5, <2>6
<1>4. ASSUME NEW e
      PROVE  e \in L!Inner(L!Children(v, N)) <=> \E s \in N : Way(s, e) /\ e.n \in INodes
  <2>1. e \in L!Children(v, N) <=> \E s \in N : \E i \in 0 .. FAN - 1 :
              e = [n |-> v[s.n][i], depth |-> s.depth + v[s.n][FAN].partial_len + 1]
    BY Names DEF L!Children
  <2>2. e \in L!Inner(L!Children(v, N)) <=> e \in L!Children(v, N) /\ e.n \in INodes
    BY Names DEF L!Inner
  <2> QED BY <1>2, <2>1, <2>2
<1>5. ASSUME NEW e
      PROVE  e \in Inner(Children(c, N)) <=> \E s \in N : e \in [n : Below(c[s.n]), depth : {Deep(s)}] /\ e.n \in INodes
  BY DEF Inner, Children
<1> HIDE DEF Way, Deep
<1>6. \A e : e \in Inner(Children(c, N)) <=> e \in L!Inner(L!Children(v, N))
  BY <1>3, <1>4, <1>5
<1> QED BY <1>1, <1>6

\* Paths finds the same paths.
LEMMA PathsSame ==
  ASSUME NEW c, NEW v, v = View(c), NEW S, NEW dep, NEW rep, L!Shape(Form, v, S, dep, rep), AllLaid(c, S)
  PROVE  Paths(c) = L!Paths(v)
<1> DEFINE x == Inner({[n |-> c[0][Child(0)], depth |-> 0]})
           D == SUBSET Places(S, dep)
<1>0. v[0][0] = c[0][Child(0)] /\ MAX_HEIGHT \in Nat /\ NULL \notin INodes
  BY ViewIs, Ground, Names, L!Sizes, L!Objects
<1>1. x \in D
  <2>1. v[0][0] = NULL \/ (v[0][0] \in S /\ dep[v[0][0]] = 0)
    BY Ground, L!RootIs
  <2> QED BY <1>0, <2>1 DEF Inner, Places, L!Place
<1>2. ASSUME NEW N \in D
      PROVE  Inner(Children(c, N)) = L!Inner(L!Children(v, N)) /\ L!Inner(L!Children(v, N)) \in D
  <2>1. N \subseteq Places(S, dep)
    OBVIOUS
  <2> QED BY <2>1, ChildrenSame
<1> DEFINE F == [N \in D |-> L!Inner(L!Children(v, N))]
<1>3. \A N \in D : F[N] = L!Inner(L!Children(v, N)) /\ F[N] \in D
  BY <1>2
<1> HIDE DEF x, D, F
<1>5. PICK g :
      /\ g[0] = x /\ g = [j \in 0 .. MAX_HEIGHT |-> g[j]]
      /\ \A j \in 0 .. MAX_HEIGHT : g[j] \in D
      /\ \A j \in 0 .. MAX_HEIGHT : j # 0 => g[j] = F[g[j - 1]]
  <2>1. Turns(D, F, x, MAX_HEIGHT)
    BY <1>1, <1>0, <1>3 DEF Turns
  <2> QED BY ONLY <2>1, LoopMade
<1>6. ASSUME NEW j \in 0 .. MAX_HEIGHT
      PROVE  /\ g[j] = IF j = 0 THEN x ELSE L!Inner(L!Children(v, g[j - 1]))
             /\ g[j] = IF j = 0 THEN x ELSE Inner(Children(c, g[j - 1]))
  <2>1. CASE j = 0
    BY <1>5, <2>1
  <2>2. CASE j # 0
    <3>1. j - 1 \in 0 .. MAX_HEIGHT
      BY <1>0, <2>2
    <3> QED BY <1>2, <1>3, <1>5, <2>2, <3>1
  <2> QED BY <2>1, <2>2
<1>7. /\ g = [j \in 0 .. MAX_HEIGHT |-> IF j = 0 THEN x ELSE L!Inner(L!Children(v, g[j - 1]))]
      /\ g = [j \in 0 .. MAX_HEIGHT |-> IF j = 0 THEN x ELSE Inner(Children(c, g[j - 1]))]
  BY <1>5, <1>6
<1> DEFINE Path(s)  == <<s.depth, Digits(c[minimum(c, s.n)][Key(0)], 0, s.depth + Len(c[s.n][Hdr].path))>>
           LPath(s) == <<s.depth, L!Digits(v[L!minimum(v, s.n)][L!KEY], 0, s.depth + v[s.n][L!HDR].partial_len)>>
<1> DEFINE g1 == CHOOSE h : h = [j \in 0 .. MAX_HEIGHT |-> IF j = 0 THEN x ELSE Inner(Children(c, h[j - 1]))]
<1>8. /\ g1 = [j \in 0 .. MAX_HEIGHT |-> IF j = 0 THEN x ELSE Inner(Children(c, g1[j - 1]))]
      /\ Paths(c) = {Path(s) : s \in UNION {g1[j] : j \in 0 .. MAX_HEIGHT}}
  <2>1. g1 = [j \in 0 .. MAX_HEIGHT |-> IF j = 0 THEN x ELSE Inner(Children(c, g1[j - 1]))]
    BY <1>7
  <2>2. Paths(c) = {Path(s) : s \in UNION {g1[j] : j \in 0 .. MAX_HEIGHT}}
    BY DEF Paths, g1, x
  <2> QED BY <2>1, <2>2
<1> HIDE DEF g1
<1> DEFINE lx == L!Inner({[n |-> v[0][0], depth |-> 0]})
<1>9. lx = x /\ L!MAX_HEIGHT = MAX_HEIGHT
  BY <1>0, Names DEF L!Inner, Inner, x
<1>10. PICK g2 : /\ g2 = [j \in 0 .. MAX_HEIGHT |-> IF j = 0 THEN x ELSE L!Inner(L!Children(v, g2[j - 1]))]
                 /\ L!Paths(v) = {LPath(s) : s \in UNION {g2[j] : j \in 0 .. MAX_HEIGHT}}
  <2>1. \E h : h = [j \in 0 .. L!MAX_HEIGHT |-> IF j = 0 THEN lx ELSE L!Inner(L!Children(v, h[j - 1]))]
    <3> HIDE DEF lx
    <3> QED BY <1>7, <1>9
  <2> DEFINE g3 == CHOOSE h : h = [j \in 0 .. L!MAX_HEIGHT |-> IF j = 0 THEN lx ELSE L!Inner(L!Children(v, h[j - 1]))]
  <2>2. /\ g3 = [j \in 0 .. L!MAX_HEIGHT |-> IF j = 0 THEN lx ELSE L!Inner(L!Children(v, g3[j - 1]))]
        /\ L!Paths(v) = {LPath(s) : s \in UNION {g3[j] : j \in 0 .. L!MAX_HEIGHT}}
    <3>1. g3 = [j \in 0 .. L!MAX_HEIGHT |-> IF j = 0 THEN lx ELSE L!Inner(L!Children(v, g3[j - 1]))]
      <4> HIDE DEF lx
      <4> QED BY <2>1
    <3>2. L!Paths(v) = {LPath(s) : s \in UNION {g3[j] : j \in 0 .. L!MAX_HEIGHT}}
      BY DEF L!Paths, g3, lx
    <3> QED BY <3>1, <3>2
  <2> HIDE DEF lx, LPath, g3
  <2>3. /\ g3 = [j \in 0 .. MAX_HEIGHT |-> IF j = 0 THEN x ELSE L!Inner(L!Children(v, g3[j - 1]))]
        /\ L!Paths(v) = {LPath(s) : s \in UNION {g3[j] : j \in 0 .. MAX_HEIGHT}}
    BY ONLY <1>9, <2>2
  <2> QED BY ONLY <2>3
<1>11. g1 = g /\ g2 = g
  <2>1. g1 = [j \in 0 .. MAX_HEIGHT |-> g1[j]] /\ g2 = [j \in 0 .. MAX_HEIGHT |-> g2[j]] /\ g1[0] = x /\ g2[0] = x
    BY <1>0, <1>8, <1>10
  <2>2. \A j \in 0 .. MAX_HEIGHT - 1 : j + 1 \in 0 .. MAX_HEIGHT /\ j + 1 # 0 /\ (j + 1) - 1 = j
    BY <1>0
  <2>3. ASSUME NEW j \in 0 .. MAX_HEIGHT - 1
        PROVE  /\ g[j + 1] \in D /\ g[j + 1] = Inner(Children(c, g[j])) /\ g[j + 1] = L!Inner(L!Children(v, g[j]))
               /\ g1[j + 1] = Inner(Children(c, g1[j])) /\ g2[j + 1] = L!Inner(L!Children(v, g2[j]))
    <3>1. g[j + 1] \in D /\ g[j + 1] = Inner(Children(c, g[j])) /\ g[j + 1] = L!Inner(L!Children(v, g[j]))
      BY <1>5, <1>6, <2>2
    <3>2. g1[j + 1] = Inner(Children(c, g1[j]))
      BY <1>8, <2>2
    <3>3. g2[j + 1] = L!Inner(L!Children(v, g2[j]))
      BY <1>10, <2>2
    <3> QED BY <3>1, <3>2, <3>3
  <2>4. /\ \A j \in 0 .. MAX_HEIGHT - 1 : g[j] \in D /\ g1[j] = g[j] => g[j + 1] \in D /\ g1[j + 1] = g[j + 1]
        /\ \A j \in 0 .. MAX_HEIGHT - 1 : g[j] \in D /\ g2[j] = g[j] => g[j + 1] \in D /\ g2[j + 1] = g[j + 1]
    BY <2>3
  <2>5. g[0] \in D /\ g1[0] = g[0] /\ g2[0] = g[0]
    BY <1>1, <1>5, <2>1
  <2>6. Likewise(D, MAX_HEIGHT, g, g1) /\ Likewise(D, MAX_HEIGHT, g, g2)
    BY <1>0, <1>5, <2>1, <2>4, <2>5 DEF Likewise
  <2>7. g1 = g /\ g2 = g
    BY ONLY <2>6, Alongside
  <2> QED BY <2>7
<1>12. ASSUME NEW j \in 0 .. MAX_HEIGHT, NEW s \in g[j]
       PROVE  Path(s) = LPath(s)
  <2>0. g[j] \subseteq Places(S, dep)
    BY <1>5 DEF D
  <2>1. s.n \in S \cap INodes
    BY <2>0 DEF Places, L!Place
  <2>2. minimum(c, s.n) = L!minimum(v, s.n)
    <3>1. s.n \in S
      BY <2>1
    <3> QED BY <3>1, MinimumSame
  <2>3. L!minimum(v, s.n) \in Leaves
    <3>1. PICK n : n = s.n
      OBVIOUS
    <3>2. n \in S \cap L!INodes
      BY <2>1, <3>1, Names
    <3>3. L!minimum(v, n) \in L!Leaves
      BY <3>2, Ground, L!MinimumIs
    <3> QED BY <3>1, <3>3, Names
  <2>4. v[L!minimum(v, s.n)][1] = c[L!minimum(v, s.n)][Key(0)]
    BY <2>3, ViewIs
  <2>5. v[s.n][FAN].partial_len = Len(c[s.n][Hdr].path)
    BY <2>1, ViewIs
  <2>6. L!KEY = 1 /\ L!HDR = FAN /\ \A k, d, len : L!Digits(k, d, len) = Digits(k, d, len)
    BY Names
  <2> QED BY <2>2, <2>4, <2>5, <2>6
<1> HIDE DEF Path, LPath
<1>13. {Path(s) : s \in UNION {g[j] : j \in 0 .. MAX_HEIGHT}} = {LPath(s) : s \in UNION {g[j] : j \in 0 .. MAX_HEIGHT}}
  BY <1>12
<1>14. Paths(c) = {Path(s) : s \in UNION {g[j] : j \in 0 .. MAX_HEIGHT}}
  BY ONLY <1>8, <1>11
<1>15. L!Paths(v) = {LPath(s) : s \in UNION {g[j] : j \in 0 .. MAX_HEIGHT}}
  BY ONLY <1>10, <1>11
<1> QED BY ONLY <1>13, <1>14, <1>15

\* So are the forks of a set of keys.
LEMMA ForksSame ==
  ASSUME NEW K
  PROVE  Forks(K) = L!Forks(K)
<1>1. \A j, k : L!LongestCommonPrefix({L!Digits(j, 0, L!MAX_HEIGHT), L!Digits(k, 0, L!MAX_HEIGHT)})
                = LongestCommonPrefix({Digits(j, 0, MAX_HEIGHT), Digits(k, 0, MAX_HEIGHT)})
  BY Names, AgreeSame
<1>2. \A f, g : L!IsStrictPrefix(g, f) <=> IsStrictPrefix(g, f)
  BY DEF L!IsStrictPrefix, IsStrictPrefix, L!IsPrefix, IsPrefix
<1> DEFINE paths == {LongestCommonPrefix({Digits(pair[1], 0, MAX_HEIGHT), Digits(pair[2], 0, MAX_HEIGHT)}) :
                       pair \in {p \in K \X K : p[1] < p[2]}}
           lpaths == {L!LongestCommonPrefix({L!Digits(pair[1], 0, L!MAX_HEIGHT), L!Digits(pair[2], 0, L!MAX_HEIGHT)}) :
                       pair \in {p \in K \X K : p[1] < p[2]}}
           one(pair) == LongestCommonPrefix({Digits(pair[1], 0, MAX_HEIGHT), Digits(pair[2], 0, MAX_HEIGHT)})
           lone(pair) == L!LongestCommonPrefix({L!Digits(pair[1], 0, L!MAX_HEIGHT), L!Digits(pair[2], 0, L!MAX_HEIGHT)})
<1>3. lpaths = paths
  <2>1. ASSUME NEW pair PROVE lone(pair) = one(pair)
    BY <1>1
  <2>2. paths = {one(pair) : pair \in {p \in K \X K : p[1] < p[2]}} /\ lpaths = {lone(pair) : pair \in {p \in K \X K : p[1] < p[2]}}
    OBVIOUS
  <2> HIDE DEF one, lone
  <2>3. {lone(pair) : pair \in {p \in K \X K : p[1] < p[2]}} = {one(pair) : pair \in {p \in K \X K : p[1] < p[2]}}
    BY <2>1
  <2> HIDE DEF paths, lpaths
  <2> QED BY ONLY <2>2, <2>3
<1> DEFINE above(f) == {Len(g) : g \in {g \in paths : IsStrictPrefix(g, f)}}
           below(f) == IF above(f) = {} THEN 0 ELSE 1 + (CHOOSE d \in above(f) : \A e \in above(f) : e <= d)
           labove(f) == {Len(g) : g \in {g \in lpaths : L!IsStrictPrefix(g, f)}}
           lbelow(f) == IF labove(f) = {} THEN 0 ELSE 1 + (CHOOSE d \in labove(f) : \A e \in labove(f) : e <= d)
<1>4. Forks(K) = {<<below(f), f>> : f \in paths}
  BY DEF Forks
<1>5. L!Forks(K) = {<<lbelow(f), f>> : f \in lpaths}
  BY DEF L!Forks
<1> HIDE DEF paths, lpaths
<1>6. \A f : labove(f) = above(f)
  BY <1>2, <1>3
<1>7. ASSUME NEW f PROVE lbelow(f) = below(f)
  <2>1. labove(f) = above(f)
    BY <1>6
  <2> HIDE DEF labove, above
  <2>2. PICK A : A = above(f) /\ labove(f) = A
    BY <2>1
  <2> QED BY <2>2
<1> HIDE DEF lbelow, below
<1> QED BY <1>3, <1>4, <1>5, <1>7
-----------------------------------------------------------------------------
(* recursive_insert's way *)

\* An inner node of the tree, its path and where it ends.
LEMMA NodeIs ==
  ASSUME NEW c, NEW v, v = View(c), NEW S, NEW dep, NEW rep, L!Shape(Form, v, S, dep, rep), NEW n \in S \cap INodes,
         NEW path, path = c[n][Hdr].path
  PROVE  /\ Len(path) \in 0 .. MAX_DEPTH /\ path = Digits(rep[n], dep[n], Len(path))
         /\ v[n][FAN].partial_len = Len(path) /\ v[n][FAN].partial = path
         /\ L!End(v, dep, n) = dep[n] + Len(path) /\ L!End(v, dep, n) \in 0 .. MAX_DEPTH /\ dep[n] \in 0 .. MAX_DEPTH
         /\ rep[n] \in Keys /\ n # 0 /\ n # NULL /\ n \notin Leaves
         /\ \A i \in 0 .. FAN - 1 : v[n][i] = find_child(c[n], i)
         /\ \A k \in Keys : get_index(k, dep[n] + Len(path)) \in 0 .. FAN - 1
<1>1. n \in S \cap L!INodes /\ n \in INodes
  BY Names
<1>2. /\ dep[n] \in 0 .. MAX_DEPTH /\ rep[n] \in Keys /\ n # 0 /\ n # NULL /\ n \notin L!Leaves
      /\ v[n][L!HDR].partial_len \in 0 .. MAX_DEPTH
      /\ L!End(v, dep, n) \in 0 .. MAX_DEPTH
      /\ v[n][L!HDR] = L!HeaderOf(Form, L!Digits(rep[n], dep[n], v[n][L!HDR].partial_len))
      /\ L!End(v, dep, n) = dep[n] + v[n][L!HDR].partial_len
  BY <1>1, Ground, L!InnerNode
<1>3. /\ v[n][FAN].partial_len = Len(path) /\ v[n][FAN].partial = path /\ L!HDR = FAN
      /\ \A i \in 0 .. FAN - 1 : v[n][i] = find_child(c[n], i)
  BY <1>1, ViewIs, Names
<1>4. \A p : L!HeaderOf(Form, p).partial = p
  BY FormIs DEF L!HeaderOf
<1>5. path = Digits(rep[n], dep[n], Len(path))
  BY <1>2, <1>3, <1>4, Names
<1>6. \A k \in Keys : get_index(k, L!End(v, dep, n)) \in 0 .. FAN - 1
  BY <1>2, Ground, Names, L!Digit
<1> QED BY <1>2, <1>3, <1>5, <1>6, Names

\* prefix_mismatch finds the first digit at which a key leaves the path of n.
LEMMA MismatchIs ==
  ASSUME NEW c, NEW v, v = View(c), NEW S, NEW dep, NEW rep, L!Shape(Form, v, S, dep, rep), NEW n \in S \cap INodes,
         NEW k \in Keys, L!Same(k, rep[n], dep[n]), NEW len, len = Len(c[n][Hdr].path),
         NEW m, m = prefix_mismatch(c[n], k, dep[n])
  PROVE  /\ m \in 0 .. len /\ L!Same(rep[n], k, dep[n] + m)
         /\ ~(m < len) => L!Same(k, rep[n], L!End(v, dep, n))
         /\ m < len => get_index(rep[n], dep[n] + m) # get_index(k, dep[n] + m)
<1>1. PICK path : path = c[n][Hdr].path
  OBVIOUS
<1>2. /\ len \in 0 .. MAX_DEPTH /\ path = Digits(rep[n], dep[n], len) /\ rep[n] \in Keys
      /\ L!End(v, dep, n) = dep[n] + len /\ L!End(v, dep, n) \in 0 .. MAX_DEPTH /\ dep[n] \in 0 .. MAX_DEPTH
  BY <1>1, NodeIs
<1>3. MAX_DEPTH \in Nat /\ L!MAX_HEIGHT = MAX_DEPTH + 1
  BY Ground, Names, L!Sizes
<1>4. m = L!Agree(L!Digits(rep[n], dep[n], len), L!Digits(k, dep[n], len))
  BY <1>1, <1>2, Names, AgreeSame DEF prefix_mismatch
<1>5. L!Same(rep[n], k, dep[n])
  <2>1. dep[n] \in Int /\ dep[n] <= dep[n]
    BY <1>2, <1>3
  <2> QED BY <2>1, Ground, L!SameTo
<1>6. dep[n] \in Nat /\ len \in Nat /\ dep[n] + len <= L!MAX_HEIGHT
  BY <1>2, <1>3
<1>7. /\ m \in 0 .. len /\ L!Same(rep[n], k, dep[n] + m)
      /\ m < len => L!get_index(rep[n], dep[n] + m) # L!get_index(k, dep[n] + m)
  BY <1>2, <1>4, <1>5, <1>6, Ground, L!AgreeDigits
<1>8. ASSUME ~(m < len) PROVE L!Same(k, rep[n], L!End(v, dep, n))
  <2>1. dep[n] + m = L!End(v, dep, n) /\ dep[n] + m \in Int
    BY <1>2, <1>6, <1>7, <1>8
  <2> QED BY <2>1, <1>7, Ground, L!SameTo
<1> QED BY <1>7, <1>8, Names

\* The word that find_child points at, of object o.
Pointer(c, o, w) == IF o = 0 THEN Root ELSE <<o, Slot(c[o], w)>>
\* s is the call for the pointer w of o, which k goes through.
SiteAt(c, v, dep, rep, k, s, o, w) ==
  /\ s = [ref |-> Pointer(c, o, w), n |-> v[o][w], depth |-> L!Level(v, dep, o)]
  /\ L!Through(v, dep, rep, o, w, k) /\ (o # 0 => v[o][w] # NULL)
Stops(c, k, s) ==
  \/ s.n \notin INodes
  \/ prefix_mismatch(c[s.n], k, s.depth) < Len(c[s.n][Hdr].path)
  \/ find_child(c[s.n], get_index(k, s.depth + Len(c[s.n][Hdr].path))) = NULL
Coming(c, v, S, dep, rep, k, A, s) ==
  \E o \in L!Above(S) : \E w \in L!Ways(o) :
    SiteAt(c, v, dep, rep, k, s, o, w) /\ (Leaf(k) \in S => v[o][w] \in A)

\* What a call is about.
LEMMA ComingIs ==
  ASSUME NEW c, NEW v, v = View(c), NEW S, NEW dep, NEW rep, L!Shape(Form, v, S, dep, rep),
         NEW k \in Keys, NEW A, NEW s, Coming(c, v, S, dep, rep, k, A, s)
  PROVE  /\ s.depth \in 0 .. MAX_HEIGHT /\ s.n \in S \cup {NULL}
         /\ s.n # NULL => s.n \in S /\ dep[s.n] = s.depth /\ L!Same(k, rep[s.n], s.depth)
         /\ Leaf(k) \in S => s.n \in A
<1>1. PICK o \in L!Above(S) : \E w \in L!Ways(o) :
        SiteAt(c, v, dep, rep, k, s, o, w) /\ (Leaf(k) \in S => v[o][w] \in A)
  BY DEF Coming
<1>2. PICK w \in L!Ways(o) : SiteAt(c, v, dep, rep, k, s, o, w) /\ (Leaf(k) \in S => v[o][w] \in A)
  BY <1>1
<1>3. s.n = v[o][w] /\ s.depth = L!Level(v, dep, o) /\ L!Through(v, dep, rep, o, w, k)
  BY <1>2 DEF SiteAt
<1>4. L!Level(v, dep, o) \in 0 .. L!MAX_HEIGHT
  BY Ground, L!LevelIs
<1>5. v[o][w] # NULL => v[o][w] \in S /\ dep[v[o][w]] = L!Level(v, dep, o) /\ L!Same(k, rep[v[o][w]], L!Level(v, dep, o))
  BY <1>3, Ground, L!Beneath
<1> QED BY <1>2, <1>3, <1>4, <1>5, Names

\* A call leads to one on the key's way, deeper unless it is the last.
LEMMA DeeperIs ==
  ASSUME NEW c, NEW v, v = View(c), NEW S, NEW dep, NEW rep, L!Shape(Form, v, S, dep, rep),
         NEW k \in Keys, NEW A, Leaf(k) \in S => A \subseteq S /\ L!OnTheWay(v, dep, rep, k, A),
         NEW s, Coming(c, v, S, dep, rep, k, A, s)
  PROVE  /\ Coming(c, v, S, dep, rep, k, A, Deeper(c, k, s))
         /\ Stops(c, k, s) => Deeper(c, k, s) = s
         /\ ~Stops(c, k, s) => s.depth < Deeper(c, k, s).depth /\ s.depth <= MAX_DEPTH
         /\ Stops(c, k, s) /\ Leaf(k) \in S => s.n = Leaf(k)
<1>1. /\ s.depth \in 0 .. MAX_HEIGHT /\ s.n \in S \cup {NULL}
      /\ s.n # NULL => s.n \in S /\ dep[s.n] = s.depth /\ L!Same(k, rep[s.n], s.depth)
      /\ Leaf(k) \in S => s.n \in A
  BY ComingIs
<1>2. Stops(c, k, s) => Deeper(c, k, s) = s
  BY DEF Stops, Deeper
<1> DEFINE n == s.n
           path == c[n][Hdr].path
           d == s.depth + Len(path)
           i == get_index(k, d)
<1>3. ASSUME n \in S \cap INodes
      PROVE  /\ d = L!End(v, dep, n) /\ i \in 0 .. FAN - 1 /\ v[n][i] = find_child(c[n], i) /\ n # 0
             /\ s.depth <= d /\ s.depth \in 0 .. MAX_DEPTH /\ Len(path) \in Nat /\ d \in Nat
             /\ (~(prefix_mismatch(c[n], k, s.depth) < Len(path)) <=> L!Same(k, rep[n], d))
  <2>1. n # NULL /\ n # 0 /\ Len(path) \in 0 .. MAX_DEPTH /\ L!End(v, dep, n) = dep[n] + Len(path)
        /\ L!End(v, dep, n) \in 0 .. MAX_DEPTH /\ dep[n] \in 0 .. MAX_DEPTH
        /\ (\A e \in 0 .. FAN - 1 : v[n][e] = find_child(c[n], e))
        /\ get_index(k, dep[n] + Len(path)) \in 0 .. FAN - 1
    BY <1>3, NodeIs
  <2>2. dep[n] = s.depth /\ L!Same(k, rep[n], s.depth)
    BY <1>1, <2>1
  <2>m. MAX_DEPTH \in Nat
    BY Ground, L!Sizes
  <2>3. d = L!End(v, dep, n) /\ i \in 0 .. FAN - 1 /\ v[n][i] = find_child(c[n], i)
    BY <2>1, <2>2
  <2> DEFINE m == prefix_mismatch(c[n], k, dep[n])
  <2>4. /\ m \in 0 .. Len(path) /\ L!Same(rep[n], k, dep[n] + m)
        /\ ~(m < Len(path)) => L!Same(k, rep[n], L!End(v, dep, n))
        /\ m < Len(path) => get_index(rep[n], dep[n] + m) # get_index(k, dep[n] + m)
    <3> HIDE DEF n
    <3>1. PICK len, mm : len = Len(c[n][Hdr].path) /\ mm = prefix_mismatch(c[n], k, dep[n])
      OBVIOUS
    <3>2. L!Same(k, rep[n], dep[n])
      BY <2>2
    <3>3. /\ mm \in 0 .. len /\ L!Same(rep[n], k, dep[n] + mm)
          /\ ~(mm < len) => L!Same(k, rep[n], L!End(v, dep, n))
          /\ mm < len => get_index(rep[n], dep[n] + mm) # get_index(k, dep[n] + mm)
      BY <1>3, <3>1, <3>2, MismatchIs
    <3> QED BY <3>1, <3>3
  <2>5. L!Same(k, rep[n], d) => ~(m < Len(path))
    <3> SUFFICES ASSUME L!Same(k, rep[n], d), m < Len(path) PROVE FALSE
      OBVIOUS
    <3>1. dep[n] + m \in 0 .. d - 1
      <4>1. m \in 0 .. Len(path) /\ m < Len(path) /\ d = dep[n] + Len(path) /\ dep[n] \in 0 .. MAX_DEPTH /\ Len(path) \in 0 .. MAX_DEPTH
        BY <2>1, <2>2, <2>4
      <4> HIDE DEF m, d, path, n
      <4> QED BY ONLY <2>m, <4>1
    <3>2. L!get_index(k, dep[n] + m) = L!get_index(rep[n], dep[n] + m)
      BY <3>1 DEF L!Same
    <3> QED BY <2>4, <3>2, Names
  <2> QED BY <2>1, <2>2, <2>3, <2>4, <2>5, <2>m
<1>4. ASSUME ~Stops(c, k, s)
      PROVE  /\ Coming(c, v, S, dep, rep, k, A, Deeper(c, k, s))
             /\ s.depth < Deeper(c, k, s).depth /\ s.depth <= MAX_DEPTH
  <2>1. /\ n \in INodes /\ ~(prefix_mismatch(c[n], k, s.depth) < Len(path)) /\ find_child(c[n], i) # NULL
    BY <1>4 DEF Stops
  <2>2. n \in S \cap INodes
    BY <1>1, <2>1, Ground, Names, L!Objects
  <2>3. /\ d = L!End(v, dep, n) /\ i \in 0 .. FAN - 1 /\ v[n][i] = find_child(c[n], i) /\ n # 0
        /\ s.depth <= d /\ s.depth \in 0 .. MAX_DEPTH /\ d \in Nat /\ L!Same(k, rep[n], d)
    BY <1>3, <2>1, <2>2
  <2>4. Deeper(c, k, s) = [ref |-> <<n, Slot(c[n], i)>>, n |-> v[n][i], depth |-> d + 1]
    <3>1. Deeper(c, k, s) = [ref |-> <<n, Slot(c[n], i)>>, n |-> find_child(c[n], i), depth |-> d + 1]
      BY <2>1 DEF Deeper
    <3> QED BY <2>3, <3>1
  <2>5. n \in L!Above(S) /\ i \in L!Ways(n)
    BY <2>2, <2>3, Names DEF L!Above, L!Ways
  <2>6. L!Level(v, dep, n) = d + 1
    BY <2>3 DEF L!Level
  <2>7. L!Through(v, dep, rep, n, i, k)
    BY <2>3, Names DEF L!Through
  <2>8. Pointer(c, n, i) = <<n, Slot(c[n], i)>>
    BY <2>3 DEF Pointer
  <2>9. ASSUME Leaf(k) \in S PROVE v[n][i] \in A
    <3>1. n \in A /\ L!OnTheWay(v, dep, rep, k, A)
      BY <1>1, <2>9
    <3>2. n # L!Leaf(k)
      BY <2>1, Ground, Names, L!Objects
    <3>3. v[n][L!get_index(k, L!End(v, dep, n))] \in A
      BY <3>1, <3>2 DEF L!OnTheWay
    <3> QED BY <2>3, <3>3, Names
  <2>10. SiteAt(c, v, dep, rep, k, Deeper(c, k, s), n, i)
    <3> HIDE DEF n, i, d
    <3> QED BY <2>1, <2>3, <2>4, <2>6, <2>7, <2>8 DEF SiteAt
  <2>11. Coming(c, v, S, dep, rep, k, A, Deeper(c, k, s))
    <3> HIDE DEF n, i, d
    <3> QED BY <2>5, <2>9, <2>10 DEF Coming
  <2>12. Deeper(c, k, s).depth = d + 1
    BY <2>4
  <2> QED BY <2>3, <2>11, <2>12
<1>5. ASSUME Stops(c, k, s), Leaf(k) \in S PROVE s.n = Leaf(k)
  <2> SUFFICES ASSUME n # Leaf(k) PROVE FALSE
    OBVIOUS
  <2>1. n \in A /\ A \subseteq S /\ L!OnTheWay(v, dep, rep, k, A) /\ n # L!Leaf(k)
    BY <1>1, <1>5, Names
  <2>2. n \in L!INodes /\ L!Same(k, rep[n], L!End(v, dep, n)) /\ v[n][L!get_index(k, L!End(v, dep, n))] \in A
    BY <2>1 DEF L!OnTheWay
  <2>3. n \in S \cap INodes
    BY <2>1, <2>2, Names
  <2>4. /\ d = L!End(v, dep, n) /\ v[n][i] = find_child(c[n], i)
        /\ (~(prefix_mismatch(c[n], k, s.depth) < Len(path)) <=> L!Same(k, rep[n], d))
    BY <1>3, <2>3
  <2>5. find_child(c[n], i) \in S
    BY <2>1, <2>2, <2>4, Names
  <2>6. NULL \notin S
    BY Ground, L!Objects DEF L!Shape, L!Placed
  <2> QED BY <1>5, <2>2, <2>3, <2>4, <2>5, <2>6 DEF Stops
<1> QED BY <1>2, <1>4, <1>5

\* The recursion of recursive_insert ends at a pointer that the key goes through:
\* at the key's own leaf, if there is one, and else at an empty root, another
\* key's leaf, a node whose path the key leaves or one without a child for it.
LEMMA SiteIs ==
  ASSUME NEW c, NEW v, v = View(c), NEW S, NEW dep, NEW rep, L!Shape(Form, v, S, dep, rep),
         NEW k \in Keys, NEW s, s = Site(c, k)
  PROVE  /\ \E o \in L!Above(S) : \E w \in L!Ways(o) : SiteAt(c, v, dep, rep, k, s, o, w)
         /\ Stops(c, k, s) /\ s.n \in S \cup {NULL}
         /\ s.n # NULL => dep[s.n] = s.depth /\ L!Same(k, rep[s.n], s.depth)
         /\ Leaf(k) \in S => s.n = Leaf(k)
<1>1. PICK A : Leaf(k) \in S => A \subseteq S /\ L!OnTheWay(v, dep, rep, k, A)
  BY Ground, Names, L!WayExists
<1> DEFINE Call(q) == [ref |-> Pointer(c, q[1], q[2]), n |-> v[q[1]][q[2]], depth |-> L!Level(v, dep, q[1])]
           D == {t \in {Call(q) : q \in L!Above(S) \X Nat} : Coming(c, v, S, dep, rep, k, A, t)}
           x == [ref |-> Root, n |-> c[0][Child(0)], depth |-> 0]
           F == [t \in D |-> Deeper(c, k, t)]
<1>0. /\ v[0][0] = c[0][Child(0)] /\ MAX_HEIGHT \in Nat /\ MAX_DEPTH \in Nat /\ MAX_HEIGHT = MAX_DEPTH + 1
      /\ 0 \in L!Above(S) /\ 0 \in L!Ways(0)
  BY ViewIs, Ground, Names, L!Sizes DEF L!Above, L!Ways
<1>2. \A t : t \in D <=> Coming(c, v, S, dep, rep, k, A, t)
  <2>1. ASSUME NEW t, Coming(c, v, S, dep, rep, k, A, t) PROVE t \in {Call(q) : q \in L!Above(S) \X Nat}
    <3>1. PICK o \in L!Above(S) : \E w \in L!Ways(o) : t = Call(<<o, w>>)
      BY <2>1 DEF Coming, SiteAt
    <3>2. PICK w \in L!Ways(o) : t = Call(<<o, w>>)
      BY <3>1
    <3>3. w \in Nat
      BY Caps, Names DEF L!Ways
    <3> QED BY <3>2, <3>3
  <2> QED BY <2>1
<1>3. x \in D
  <2>1. Leaf(k) \in S => v[0][0] \in A
    BY <1>1 DEF L!OnTheWay
  <2>2. SiteAt(c, v, dep, rep, k, x, 0, 0)
    BY <1>0 DEF SiteAt, Pointer, L!Level, L!Through
  <2>3. Coming(c, v, S, dep, rep, k, A, x)
    BY <1>0, <2>1, <2>2 DEF Coming
  <2> QED BY <1>2, <2>3
<1>4. ASSUME NEW t \in D
      PROVE  /\ F[t] = Deeper(c, k, t) /\ F[t] \in D
             /\ Stops(c, k, t) => F[t] = t
             /\ ~Stops(c, k, t) => t.depth < F[t].depth /\ t.depth <= MAX_DEPTH
             /\ t.depth \in Nat
  <2>1. F[t] = Deeper(c, k, t) /\ Coming(c, v, S, dep, rep, k, A, t)
    BY <1>2
  <2> HIDE DEF D, F
  <2>2. /\ Coming(c, v, S, dep, rep, k, A, Deeper(c, k, t))
        /\ Stops(c, k, t) => Deeper(c, k, t) = t
        /\ ~Stops(c, k, t) => t.depth < Deeper(c, k, t).depth /\ t.depth <= MAX_DEPTH
    BY <1>1, <2>1, DeeperIs
  <2>3. t.depth \in 0 .. MAX_HEIGHT
    BY <2>1, ComingIs
  <2> QED BY <1>0, <1>2, <2>1, <2>2, <2>3
<1> HIDE DEF x, D, F
<1>5. PICK g :
      /\ g[0] = x /\ g = [j \in 0 .. MAX_HEIGHT |-> g[j]]
      /\ \A j \in 0 .. MAX_HEIGHT : g[j] \in D
      /\ \A j \in 0 .. MAX_HEIGHT : j # 0 => g[j] = F[g[j - 1]]
  <2>1. Turns(D, F, x, MAX_HEIGHT)
    BY <1>0, <1>3, <1>4 DEF Turns
  <2> QED BY ONLY <2>1, LoopMade
<1>6. ASSUME NEW j \in 0 .. MAX_HEIGHT
      PROVE  g[j] = IF j = 0 THEN x ELSE Deeper(c, k, g[j - 1])
  <2>1. CASE j = 0
    BY <1>5, <2>1
  <2>2. CASE j # 0
    <3>1. j - 1 \in 0 .. MAX_HEIGHT
      BY <1>0, <2>2
    <3> QED BY <1>4, <1>5, <2>2, <3>1
  <2> QED BY <2>1, <2>2
<1>7. g = [j \in 0 .. MAX_HEIGHT |-> IF j = 0 THEN x ELSE Deeper(c, k, g[j - 1])]
  BY <1>5, <1>6
<1>8. PICK g1 : /\ g1 = [j \in 0 .. MAX_HEIGHT |-> IF j = 0 THEN x ELSE Deeper(c, k, g1[j - 1])]
                /\ s = g1[MAX_HEIGHT]
  BY <1>7 DEF Site, x
<1>9. g1 = g
  <2>1. g1 = [j \in 0 .. MAX_HEIGHT |-> g1[j]] /\ g1[0] = x
    BY <1>0, <1>8
  <2>2. ASSUME NEW j \in 0 .. MAX_HEIGHT - 1, g1[j] = g[j] PROVE g[j + 1] \in D /\ g1[j + 1] = g[j + 1]
    <3>1. j + 1 \in 0 .. MAX_HEIGHT /\ j + 1 # 0 /\ (j + 1) - 1 = j
      BY <1>0
    <3>2. g[j + 1] \in D /\ g[j + 1] = Deeper(c, k, g[j])
      BY <1>5, <1>6, <3>1
    <3>3. g1[j + 1] = Deeper(c, k, g1[j])
      BY <1>8, <3>1
    <3> QED BY <2>2, <3>2, <3>3
  <2>3. Likewise(D, MAX_HEIGHT, g, g1)
    BY <1>0, <1>3, <1>5, <2>1, <2>2 DEF Likewise
  <2> QED BY ONLY <2>3, Alongside
<1> DEFINE T == {j \in 0 .. MAX_HEIGHT : Stops(c, k, g[j]) \/ j <= g[j].depth}
<1>10. 0 \in T
  BY <1>0, <1>4, <1>5
<1>11. ASSUME NEW j \in 0 .. MAX_HEIGHT - 1, j \in T PROVE j + 1 \in T
  <2>1. j + 1 \in 0 .. MAX_HEIGHT /\ j + 1 # 0 /\ (j + 1) - 1 = j /\ j \in 0 .. MAX_HEIGHT
    BY <1>0
  <2>2. g[j + 1] = F[g[j]] /\ g[j] \in D /\ g[j + 1] \in D
    BY <1>5, <2>1
  <2>3. CASE Stops(c, k, g[j])
    BY <1>4, <2>1, <2>2, <2>3
  <2>4. CASE ~Stops(c, k, g[j])
    <3>1. j <= g[j].depth /\ g[j].depth < g[j + 1].depth /\ g[j].depth \in Nat /\ g[j + 1].depth \in Nat
      BY <1>4, <1>11, <2>2, <2>4
    <3>2. j + 1 <= g[j + 1].depth
      BY <2>1, <3>1
    <3> QED BY <2>1, <3>2
  <2> QED BY <2>3, <2>4
<1> HIDE DEF T
<1>12. \A j \in 0 .. MAX_HEIGHT : j \in T
  BY <1>0, <1>10, <1>11, Ground, L!Ascent
<1>13. s \in D /\ s = g[MAX_HEIGHT] /\ MAX_HEIGHT \in 0 .. MAX_HEIGHT
  BY <1>0, <1>5, <1>8, <1>9
<1>14. Stops(c, k, s)
  <2>1. Stops(c, k, s) \/ MAX_HEIGHT <= s.depth
    BY <1>12, <1>13 DEF T
  <2> QED BY <1>0, <1>4, <1>13, <2>1
<1>15. Coming(c, v, S, dep, rep, k, A, s)
  BY <1>2, <1>13
<1>16. Leaf(k) \in S => s.n = Leaf(k)
  BY <1>1, <1>14, <1>15, DeeperIs
<1>17. s.n \in S \cup {NULL} /\ (s.n # NULL => dep[s.n] = s.depth /\ L!Same(k, rep[s.n], s.depth))
  BY <1>15, ComingIs
<1>18. \E o \in L!Above(S) : \E w \in L!Ways(o) : SiteAt(c, v, dep, rep, k, s, o, w)
  BY <1>15 DEF Coming
<1> QED BY <1>14, <1>16, <1>17, <1>18
-----------------------------------------------------------------------------
(* What a tree depends on *)

\* The words of the objects.
Fields(o) == IF o = 0 THEN {Child(0)} ELSE IF o \in INodes THEN NodeWords ELSE {Value, Key(0)}
Framed(c) == DOMAIN c = Objs /\ \A o \in Objs : DOMAIN c[o] = Fields(o)
\* Those that a tree which holds o is made of.
Words(c, o) == IF o = 0 THEN {Child(0)} ELSE IF o \in INodes THEN Live(c[o]) ELSE {Value, Key(0)}
\* The tree S of n is still in c, the word ref apart.
Still(c, n, S, ref) == \A o \in {0} \cup S : \A w \in Words(n, o) : <<o, w>> # ref => c[o][w] = n[o][w]

\* A node is in the smallest layout that holds its children.
Tight(nd) == nd[Hdr].type > NODE4 => Cardinality(Present(nd)) > Capacity(nd[Hdr].type - 1)
AllTight(c, S) == \A n \in S \cap INodes : Tight(c[n])
\* c's tree is made of the objects S.
Tree(c, S) == L!Tree(Form, View(c), S) /\ AllLaid(c, S) /\ AllTight(c, S)
Valued(c, S) == \A k \in Keys : Leaf(k) \in S => c[Leaf(k)][Value] # NULL
ContentOf(c) == [k \in Keys |-> art_search(c, k)]
\* The map with the value v under k.
After(map, k, v) == [map EXCEPT ![k] = v]

\* Objects of different kinds are different.
LEMMA ObjectsAre ==
  /\ NULL \notin INodes /\ NULL \notin Leaves /\ NULL # 0 /\ 0 \notin INodes /\ 0 \notin Leaves
  /\ \A n \in INodes : n \notin Leaves
  /\ \A k \in Keys : Leaf(k) \in Leaves /\ Leaf(k) \notin INodes /\ Leaf(k) # 0 /\ Leaf(k) # NULL
  /\ \A j, k \in Keys : Leaf(j) = Leaf(k) => j = k
  /\ Value # Key(0) /\ Child(0) # Value /\ Child(0) # Key(0)
<1>1. /\ NULL \notin L!INodes /\ NULL \notin L!Leaves /\ NULL # 0 /\ 0 \notin L!INodes /\ 0 \notin L!Leaves
      /\ \A n \in L!INodes : n \notin L!Leaves
      /\ \A k \in Keys : L!Leaf(k) \in L!Leaves
      /\ \A j, k \in Keys : L!Leaf(j) = L!Leaf(k) => j = k
  BY Ground, L!Objects
<1>2. Value # Key(0) /\ Child(0) # Value /\ Child(0) # Key(0)
  BY DEF Value, Key, Child
<1> QED BY <1>1, <1>2, Names

\* What Tree says.
LEMMA TreeIs ==
  ASSUME NEW c, NEW S, Tree(c, S), NEW v, v = View(c)
  PROVE  /\ \E dep, rep : L!Shape(Form, v, S, dep, rep)
         /\ L!Branching(v, S) /\ AllLaid(c, S) /\ AllTight(c, S) /\ S \subseteq INodes \cup Leaves
<1>1. L!Formed(Form, v, S) /\ L!Branching(v, S) /\ AllLaid(c, S) /\ AllTight(c, S)
  BY DEF Tree, L!Tree
<1>2. \E dep, rep : L!Shape(Form, v, S, dep, rep)
  BY <1>1 DEF L!Formed
<1>3. S \subseteq L!INodes \cup L!Leaves
  BY <1>2 DEF L!Shape, L!Placed
<1> QED BY <1>1, <1>2, <1>3, Names

\* The map of a tree has each leaf's value under its key.
LEMMA ContentIs ==
  ASSUME NEW c, NEW S, Tree(c, S)
  PROVE  ContentOf(c) = [k \in Keys |-> IF Leaf(k) \in S THEN c[Leaf(k)][Value] ELSE NULL]
<1>1. PICK v : v = View(c)
  OBVIOUS
<1>2. PICK dep, rep : L!Shape(Form, v, S, dep, rep)
  BY <1>1, TreeIs
<1>3. ASSUME NEW k \in Keys PROVE art_search(c, k) = IF Leaf(k) \in S THEN c[Leaf(k)][Value] ELSE NULL
  <2>1. art_search(c, k) = L!art_search(v, k)
    BY <1>1, <1>2, SearchIs
  <2>2. L!art_search(v, k) = IF L!Leaf(k) \in S THEN v[L!Leaf(k)][L!VALUE] ELSE NULL
    BY <1>2, Ground, FormIs, L!Found, ZenonT(30)
  <2>3. v[Leaf(k)][0] = c[Leaf(k)][Value]
    BY <1>1, ViewIs, ObjectsAre
  <2> QED BY <2>1, <2>2, <2>3, Names
<1> QED BY <1>3 DEF ContentOf

\* Nodes that read alike are as tight.
LEMMA TightSame ==
  ASSUME NEW nd, NEW nd2, Tight(nd), nd2[Hdr] = nd[Hdr], \A c \in Digit : PlaceOf(nd2, c) = PlaceOf(nd, c)
  PROVE  Tight(nd2)
<1>1. Present(nd2) = Present(nd)
  BY DEF Present, Digit
<1> QED BY <1>1 DEF Tight

\* The word of a value is none of a node's.
LEMMA ValueApart == Value \notin NodeWords /\ Child(0) # Value /\ Key(0) # Value
<1>1. /\ Value # Hdr /\ Value # Slots /\ Value # Bitmap
      /\ \A i : Value # Key(i) /\ Value # Child(i)
      /\ \A c : Value # Bits(c)
  BY DEF Value, Hdr, Slots, Bitmap, Key, Child, Bits
<1>2. \A w \in AllBits : Value # w
  BY <1>1, WordsApart
<1>3. ASSUME NEW t \in NODE4 .. NODE256 PROVE Value \notin TypeWords(t)
  <2>1. t = NODE4 \/ t = NODE16 \/ t = NODE48 \/ t = NODE256
    BY Caps
  <2>2. CASE t = NODE4
    BY <1>1, <2>2, TypeWordsAre
  <2>3. CASE t = NODE16
    BY <1>1, <2>3, TypeWordsAre
  <2>4. CASE t = NODE48
    BY <1>1, <1>2, <2>4, TypeWordsAre
  <2>5. CASE t = NODE256
    BY <1>1, <2>5, TypeWordsAre
  <2> QED BY <2>1, <2>2, <2>3, <2>4, <2>5
<1> QED BY <1>1, <1>3 DEF NodeWords

\* A tree stays one, of the same words, where only values are written.
LEMMA SameTree ==
  ASSUME NEW c, NEW S, Tree(c, S), NEW c2,
         \A o \in {0} \cup S : \A w \in Words(c, o) : w # Value => c2[o][w] = c[o][w]
  PROVE  Tree(c2, S) /\ \A o \in {0} \cup S : Words(c2, o) = Words(c, o)
<1>1. PICK v, v2 : v = View(c) /\ v2 = View(c2)
  OBVIOUS
<1>2. PICK dep, rep : L!Shape(Form, v, S, dep, rep)
  BY <1>1, TreeIs
<1>3. L!Branching(v, S) /\ AllLaid(c, S) /\ AllTight(c, S) /\ S \subseteq INodes \cup Leaves
  BY <1>1, TreeIs
<1>4. ASSUME NEW n \in S \cap INodes
      PROVE  /\ Laid(c2[n]) /\ c2[n][Hdr] = c[n][Hdr] /\ Live(c2[n]) = Live(c[n]) /\ Tight(c2[n])
             /\ \A i \in Digit : find_child(c2[n], i) = find_child(c[n], i)
  <2>1. Laid(c[n]) /\ Tight(c[n]) /\ n # 0
    BY <1>3, ObjectsAre DEF AllLaid, AllTight
  <2>2. Words(c, n) = Live(c[n])
    BY <2>1 DEF Words
  <2>3. Live(c[n]) \subseteq NodeWords
    BY <2>1, LiveWords
  <2>4. Value \notin NodeWords
    BY ValueApart
  <2>5. \A w \in Live(c[n]) : c2[n][w] = c[n][w]
    BY <2>2, <2>3, <2>4
  <2>6. /\ Laid(c2[n]) /\ c2[n][Hdr] = c[n][Hdr] /\ Live(c2[n]) = Live(c[n])
        /\ \A i \in Digit : find_child(c2[n], i) = find_child(c[n], i) /\ PlaceOf(c2[n], i) = PlaceOf(c[n], i)
    BY <2>1, <2>5, LiveSame
  <2>7. Tight(c2[n])
    BY <2>1, <2>6, TightSame
  <2> QED BY <2>6, <2>7
<1>5. L!Alike(v, v2, S)
  <2>1. v2[0][0] = v[0][0]
    <3>1. c2[0][Child(0)] = c[0][Child(0)]
      BY ObjectsAre DEF Words
    <3> QED BY <1>1, <3>1, ViewIs
  <2>2. ASSUME NEW n \in S \cap INodes PROVE v2[n][FAN] = v[n][FAN] /\ \A i \in 0 .. FAN - 1 : v2[n][i] = v[n][i]
    BY <1>1, <1>4, ViewIs DEF Digit
  <2>3. ASSUME NEW m \in S \cap Leaves PROVE v2[m][1] = v[m][1]
    <3>1. c2[m][Key(0)] = c[m][Key(0)]
      BY ObjectsAre DEF Words
    <3> QED BY <1>1, <3>1, ViewIs
  <2> QED BY <2>1, <2>2, <2>3, Names DEF L!Alike
<1>6. L!Shape(Form, v2, S, dep, rep)
  BY <1>2, <1>5, Ground, L!ShapeSame
<1>7. L!Branching(v2, S)
  BY <1>3, <1>5 DEF L!Branching, L!Alike
<1>8. Tree(c2, S)
  <2>1. L!Tree(Form, v2, S)
    BY <1>6, <1>7 DEF L!Tree, L!Formed
  <2> QED BY <1>1, <1>4, <2>1 DEF Tree, AllLaid, AllTight
<1>9. \A o \in {0} \cup S : Words(c2, o) = Words(c, o)
  BY <1>4 DEF Words
<1> QED BY <1>8, <1>9

\* The medium's tree where nothing of it was written.
LEMMA StillTree ==
  ASSUME NEW c, NEW S, Tree(c, S), NEW c2, \A o \in {0} \cup S : \A w \in Words(c, o) : c2[o][w] = c[o][w]
  PROVE  /\ Tree(c2, S) /\ ContentOf(c2) = ContentOf(c) /\ (Valued(c, S) => Valued(c2, S))
         /\ \A o \in {0} \cup S : Words(c2, o) = Words(c, o)
<1>1. Tree(c2, S) /\ \A o \in {0} \cup S : Words(c2, o) = Words(c, o)
  BY SameTree
<1>2. ASSUME NEW k \in Keys, Leaf(k) \in S PROVE c2[Leaf(k)][Value] = c[Leaf(k)][Value]
  BY <1>2, ObjectsAre DEF Words
<1>3. ContentOf(c2) = ContentOf(c)
  <2>1. ContentOf(c) = [k \in Keys |-> IF Leaf(k) \in S THEN c[Leaf(k)][Value] ELSE NULL]
    BY ContentIs
  <2>2. ContentOf(c2) = [k \in Keys |-> IF Leaf(k) \in S THEN c2[Leaf(k)][Value] ELSE NULL]
    BY <1>1, ContentIs
  <2> QED BY <1>2, <2>1, <2>2
<1>4. Valued(c, S) => Valued(c2, S)
  BY <1>2 DEF Valued
<1> QED BY <1>1, <1>3, <1>4
-----------------------------------------------------------------------------
(* Pointers replaced *)
\* The tree's objects R as they were, the pointer w of o apart, which leads to x.
LEMMA RepointedIs ==
  ASSUME NEW c, NEW v, v = View(c), NEW R, R \subseteq INodes \cup Leaves, AllLaid(c, R), AllTight(c, R),
         NEW o \in L!Above(R), NEW w \in L!Ways(o), o # 0 => v[o][w] # NULL,
         NEW ref, ref = Pointer(c, o, w),
         NEW c2, NEW v2, v2 = View(c2), NEW x, x # NULL, c2[ref[1]][ref[2]] = x, Still(c2, c, R, ref)
  PROVE  L!AlikeBut(v, v2, R, o, w) /\ v2[o][w] = x /\ AllLaid(c2, R) /\ AllTight(c2, R)
<1>1. /\ o \in {0} \cup (R \cap INodes) /\ (o = 0 => w = 0) /\ (o # 0 => w \in Digit)
      /\ \A q \in L!Above(R) : q \in {0} \cup (R \cap INodes)
      /\ \A q : q # 0 => L!Ways(q) = Digit
      /\ L!Ways(0) = {0}
  BY Names DEF L!Above, L!Ways, Digit
<1>2. /\ o = 0 => ref = <<0, Child(0)>> /\ ref[1] = 0 /\ ref[2] = Child(0)
      /\ o # 0 => ref = <<o, Slot(c[o], w)>> /\ ref[1] = o /\ ref[2] = Slot(c[o], w)
  BY DEF Pointer, Root
<1>3. ASSUME NEW n \in R \cap INodes
      PROVE  /\ Laid(c2[n]) /\ c2[n][Hdr] = c[n][Hdr] /\ Tight(c2[n])
             /\ \A i \in Digit : find_child(c2[n], i) = IF n = o /\ i = w THEN x ELSE find_child(c[n], i)
  <2>1. Laid(c[n]) /\ Tight(c[n]) /\ n # 0 /\ Words(c, n) = Live(c[n])
    BY ObjectsAre DEF AllLaid, AllTight, Words
  <2>2. CASE n # o
    <3>1. \A u \in Live(c[n]) : <<n, u>> # ref
      BY <1>2, <2>2
    <3>2. \A u \in Live(c[n]) : c2[n][u] = c[n][u]
      BY <2>1, <3>1 DEF Still
    <3>3. /\ Laid(c2[n]) /\ c2[n][Hdr] = c[n][Hdr]
          /\ \A i \in Digit : find_child(c2[n], i) = find_child(c[n], i) /\ PlaceOf(c2[n], i) = PlaceOf(c[n], i)
      BY <2>1, <3>2, LiveSame
    <3>4. Tight(c2[n])
      BY <2>1, <3>3, TightSame
    <3> QED BY <2>2, <3>3, <3>4
  <2>3. CASE n = o
    <3>1. w \in Digit /\ find_child(c[n], w) # NULL /\ ref = <<n, Slot(c[n], w)>> /\ c2[n][Slot(c[n], w)] = x
      <4>1. w \in Digit /\ v[n][w] # NULL /\ n \in INodes
        BY <1>1, <2>1, <2>3
      <4>2. v[n][w] = find_child(c[n], w)
        BY <4>1, ViewIs DEF Digit
      <4>3. ref[1] = n /\ ref[2] = Slot(c[n], w) /\ ref = <<n, Slot(c[n], w)>>
        BY <1>2, <2>1, <2>3
      <4> QED BY <4>1, <4>2, <4>3
    <3>2. \A u \in Live(c[n]) : u # Slot(c[n], w) => c2[n][u] = c[n][u]
      <4>1. ASSUME NEW u \in Live(c[n]), u # Slot(c[n], w) PROVE c2[n][u] = c[n][u]
        <5>1. u \in Words(c, n) /\ n \in {0} \cup R
          BY <2>1, <4>1
        <5>2. <<n, u>> # ref
          BY <3>1, <4>1
        <5>3. Still(c2, c, R, ref)
          OBVIOUS
        <5> QED BY ONLY <5>1, <5>2, <5>3 DEF Still
      <4> QED BY <4>1
    <3>3. /\ Laid(c2[n]) /\ c2[n][Hdr] = c[n][Hdr]
          /\ \A i \in Digit : /\ find_child(c2[n], i) = IF i = w THEN x ELSE find_child(c[n], i)
                              /\ PlaceOf(c2[n], i) = PlaceOf(c[n], i)
      BY <2>1, <3>1, <3>2, PointerSet, x # NULL
    <3>4. Tight(c2[n])
      BY <2>1, <3>3, TightSame
    <3> QED BY <2>3, <3>3, <3>4
  <2> QED BY <2>2, <2>3
<1>4. AllLaid(c2, R) /\ AllTight(c2, R)
  BY <1>3 DEF AllLaid, AllTight
<1>5. ASSUME NEW n \in R \cap INodes
      PROVE  /\ v2[n][FAN] = v[n][FAN]
             /\ \A i \in Digit : v2[n][i] = IF n = o /\ i = w THEN x ELSE v[n][i]
  BY <1>3, ViewIs DEF Digit
<1>6. v2[o][w] = x /\ (o # 0 => v2[0][0] = v[0][0])
  <2>1. CASE o = 0
    BY <1>1, <1>2, <2>1, ViewIs
  <2>2. CASE o # 0
    <3>1. c2[0][Child(0)] = c[0][Child(0)]
      BY <1>2, <2>2 DEF Still, Words
    <3> QED BY <1>1, <1>5, <2>2, <3>1, ViewIs
  <2> QED BY <2>1, <2>2
<1>7. L!AlikeBut(v, v2, R, o, w)
  <2>1. ASSUME NEW q \in L!Above(R), NEW u \in L!Ways(q), <<q, u>> # <<o, w>> PROVE v2[q][u] = v[q][u]
    <3>1. CASE q = 0
      BY <1>1, <1>6, <2>1, <3>1
    <3>2. CASE q # 0
      BY <1>1, <1>5, <2>1, <3>2, ZenonT(30)
    <3> QED BY <3>1, <3>2
  <2>2. ASSUME NEW m \in R \cap Leaves PROVE v2[m][1] = v[m][1]
    <3>1. m \notin INodes /\ m # 0
      BY ObjectsAre
    <3>2. Key(0) \in Words(c, m) /\ <<m, Key(0)>> # ref
      BY <1>1, <1>2, <3>1 DEF Words
    <3>3. c2[m][Key(0)] = c[m][Key(0)]
      BY <3>2 DEF Still
    <3> QED BY <3>3, ViewIs
  <2> QED BY <1>5, <2>1, <2>2, Names DEF L!AlikeBut
<1> QED BY <1>4, <1>6, <1>7
-----------------------------------------------------------------------------
(* Stores *)
\* Word l after the stores st, where it held y.
Put(st, l, y) == IF l \in DOMAIN st THEN st[l] ELSE y
\* c2 is c after the stores st.
Wrote(c, c2, st) == \A q \in Objs : \A u \in Fields(q) : c2[q][u] = Put(st, <<q, u>>, c[q][u])

\* Stores one by one.
LEMMA PutBoth ==
  ASSUME NEW f, NEW g, NEW l, NEW y
  PROVE  Put(Both(f, g), l, y) = Put(f, l, Put(g, l, y))
<1>1. DOMAIN Both(f, g) = DOMAIN f \cup DOMAIN g
  BY DEF Both
<1>2. CASE l \in DOMAIN f
  BY <1>1, <1>2, BothL DEF Put
<1>3. CASE l \notin DOMAIN f /\ l \in DOMAIN g
  BY <1>1, <1>3, BothR DEF Put
<1>4. CASE l \notin DOMAIN f /\ l \notin DOMAIN g
  BY <1>1, <1>4 DEF Put
<1> QED BY <1>2, <1>3, <1>4

LEMMA PutWord ==
  ASSUME NEW m, NEW x, NEW l, NEW y
  PROVE  Put(Word(m, x), l, y) = IF l = m THEN x ELSE y
BY DEF Put, Word

LEMMA PutObject ==
  ASSUME NEW o, NEW content, NEW q, NEW u, NEW y
  PROVE  Put(Object(o, content), <<q, u>>, y) = IF q = o THEN Put(content, u, y) ELSE y
<1>1. <<q, u>> \in {o} \X DOMAIN content <=> q = o /\ u \in DOMAIN content
  OBVIOUS
<1>2. <<q, u>>[2] = u
  OBVIOUS
<1>3. DOMAIN Object(o, content) = {o} \X DOMAIN content
  BY DEF Object
<1>4. CASE q = o /\ u \in DOMAIN content
  <2>1. Object(o, content)[<<q, u>>] = content[<<q, u>>[2]]
    BY <1>1, <1>4 DEF Object
  <2> QED BY <1>1, <1>2, <1>3, <1>4, <2>1 DEF Put
<1>5. CASE ~(q = o /\ u \in DOMAIN content)
  BY <1>1, <1>3, <1>5 DEF Put
<1> QED BY <1>4, <1>5

LEMMA PutLeaf ==
  ASSUME NEW k, NEW v, NEW y
  PROVE  Put(MakeLeaf(k, v), Value, y) = v /\ Put(MakeLeaf(k, v), Key(0), y) = k
BY PutBoth, PutWord, ObjectsAre DEF MakeLeaf

LEMMA PutNone ==
  ASSUME NEW l, NEW y
  PROVE  Put(<<>>, l, y) = y
BY DEF Put

\* A store to the cache is one.
LEMMA StoreWords ==
  ASSUME NEW m, NEW L0, NEW s, Sound(m, L0), Framed(m.cache), NEW f, f = Store(m, s)
  PROVE  f.nvm = m.nvm /\ Framed(f.cache) /\ Wrote(m.cache, f.cache, s) /\ Lines(f) = Lines(m)
<1>1. /\ f.nvm = m.nvm /\ DOMAIN f.cache = DOMAIN m.cache
      /\ \A o \in DOMAIN m.cache : DOMAIN f.cache[o] = DOMAIN m.cache[o]
      /\ \A o \in DOMAIN m.cache : \A w \in DOMAIN m.cache[o] :
           f.cache[o][w] = IF <<o, w>> \in DOMAIN s THEN s[<<o, w>>] ELSE m.cache[o][w]
  <2>1. /\ DOMAIN f.cache = DOMAIN m.cache
        /\ \A o \in DOMAIN m.cache : DOMAIN f.cache[o] = DOMAIN m.cache[o]
    BY StoreSound, ZenonT(30)
  <2>2. /\ Store(m, s).nvm = m.nvm
        /\ \A o \in DOMAIN m.cache : \A w \in DOMAIN m.cache[o] :
             Store(m, s).cache[o][w] = IF <<o, w>> \in DOMAIN s THEN s[<<o, w>>] ELSE m.cache[o][w]
    BY ONLY StoreCache, Sound(m, L0)
  <2> QED BY <2>1, <2>2
<1>2. DOMAIN m.cache = Objs /\ \A o \in Objs : DOMAIN m.cache[o] = Fields(o)
  BY DEF Framed
<1>3. Framed(f.cache)
  BY <1>1, <1>2 DEF Framed
<1>4. Wrote(m.cache, f.cache, s)
  BY <1>1, <1>2 DEF Wrote, Put
<1>5. Lines(f) = Lines(m)
  BY <1>1 DEF Lines
<1> QED BY <1>1, <1>3, <1>4, <1>5

-----------------------------------------------------------------------------
(* What the inserts have in common *)
\* Of the objects that are not new, the word ref alone is written; the leaf of k is new.
Stored(c, c2, ref, x, news, k, v) ==
  /\ c2[ref[1]][ref[2]] = x
  /\ c2[Leaf(k)][Value] = v /\ c2[Leaf(k)][Key(0)] = k
  /\ \A q \in Objs : q \notin news /\ q # Leaf(k) =>
       \A u \in Fields(q) : <<q, u>> # ref => c2[q][u] = c[q][u]
\* Only k's value is another.
Revalued(c, c2, k, v) == \A j \in Keys : c2[Leaf(j)][Value] = IF j = k THEN v ELSE c[Leaf(j)][Value]
\* The tree S in c becomes S2 in c2, where k has the value v.
Extended(c, c2, S, S2, k, v, ref) ==
  /\ Tree(c2, S2) /\ S2 \cap Leaves = (S \cap Leaves) \cup {Leaf(k)}
  /\ Revalued(c, c2, k, v)
  /\ Still(c2, c, S, ref)

\* A tree's words are words of the objects.
LEMMA WordsIn ==
  ASSUME NEW c, NEW S, S \subseteq INodes \cup Leaves, AllLaid(c, S), NEW o \in {0} \cup S
  PROVE  o \in Objs /\ Words(c, o) \subseteq Fields(o)
<1>1. CASE o \in INodes
  <2>1. Live(c[o]) \subseteq NodeWords
    BY <1>1, LiveWords, ObjectsAre DEF AllLaid
  <2> QED BY <1>1, <2>1, ObjectsAre DEF Words, Fields, Objs
<1>2. CASE o \notin INodes
  BY <1>2 DEF Words, Fields, Objs
<1> QED BY <1>1, <1>2

\* What was not new is still there.
LEMMA StoredStill ==
  ASSUME NEW c, NEW c2, NEW ref, NEW x, NEW news, NEW k \in Keys, NEW v, Stored(c, c2, ref, x, news, k, v),
         NEW S, S \subseteq INodes \cup Leaves, AllLaid(c, S), news \subseteq INodes \ S, Leaf(k) \notin S
  PROVE  Still(c2, c, S, ref)
<1> SUFFICES ASSUME NEW o \in {0} \cup S, NEW w \in Words(c, o), <<o, w>> # ref PROVE c2[o][w] = c[o][w]
  BY DEF Still
<1>1. o \in Objs /\ w \in Fields(o)
  BY WordsIn
<1>2. o \notin news /\ o # Leaf(k)
  BY ObjectsAre
<1> QED BY <1>1, <1>2 DEF Stored

\* The values of the leaves that were there.
LEMMA StoredValues ==
  ASSUME NEW c, NEW c2, NEW ref, NEW x, NEW news, NEW k \in Keys, NEW v, Stored(c, c2, ref, x, news, k, v),
         news \subseteq INodes, ref[1] \notin Leaves
  PROVE  Revalued(c, c2, k, v)
<1> SUFFICES ASSUME NEW j \in Keys PROVE c2[Leaf(j)][Value] = IF j = k THEN v ELSE c[Leaf(j)][Value]
  BY DEF Revalued
<1>1. CASE j = k
  BY <1>1 DEF Stored
<1>2. CASE j # k
  <2>1. Leaf(j) \in Objs /\ Leaf(j) \notin news /\ Leaf(j) # Leaf(k) /\ Value \in Fields(Leaf(j)) /\ Leaf(j) \in Leaves
    BY <1>2, ObjectsAre DEF Objs, Fields
  <2>2. <<Leaf(j), Value>> # ref
    BY <2>1
  <2> QED BY <1>2, <2>1, <2>2 DEF Stored
<1> QED BY <1>1, <1>2

\* The map then has k's value.
LEMMA ExtendedContent ==
  ASSUME NEW c, NEW c2, NEW S, NEW S2, NEW k \in Keys, NEW v, NEW ref, Tree(c, S), Extended(c, c2, S, S2, k, v, ref)
  PROVE  /\ ContentOf(c2) = After(ContentOf(c), k, v)
         /\ Valued(c, S) /\ v # NULL => Valued(c2, S2)
<1>1. \A j \in Keys : Leaf(j) \in S2 <=> Leaf(j) \in S \/ j = k
  BY ObjectsAre DEF Extended
<1>2. ContentOf(c) = [j \in Keys |-> IF Leaf(j) \in S THEN c[Leaf(j)][Value] ELSE NULL]
  BY ContentIs
<1>3. ContentOf(c2) = [j \in Keys |-> IF Leaf(j) \in S2 THEN c2[Leaf(j)][Value] ELSE NULL]
  BY ContentIs DEF Extended
<1>4. \A j \in Keys : Leaf(j) \in S2 => c2[Leaf(j)][Value] = IF j = k THEN v ELSE c[Leaf(j)][Value]
  BY DEF Extended, Revalued
<1>5. ContentOf(c2) = After(ContentOf(c), k, v)
  BY <1>1, <1>2, <1>3, <1>4 DEF After
<1>6. Valued(c, S) /\ v # NULL => Valued(c2, S2)
  BY <1>1, <1>4 DEF Valued
<1> QED BY <1>5, <1>6
-----------------------------------------------------------------------------
(* What each insert makes of the tree *)
\* The first leaf.
LEMMA RootExtended ==
  ASSUME NEW c, NEW S, Tree(c, S), c[0][Child(0)] = NULL, NEW k \in Keys, NEW v,
         NEW c2, Stored(c, c2, Root, Leaf(k), {}, k, v)
  PROVE  Extended(c, c2, S, S \cup {Leaf(k)}, k, v, Root) /\ Leaf(k) \notin S
<1>1. PICK u, u2 : u = View(c) /\ u2 = View(c2)
  OBVIOUS
<1>2. PICK dep, rep : L!Shape(Form, u, S, dep, rep)
  BY <1>1, TreeIs
<1>3. L!Branching(u, S) /\ AllLaid(c, S) /\ AllTight(c, S) /\ S \subseteq INodes \cup Leaves
  BY <1>1, TreeIs
<1>4. u[0][0] = NULL
  BY <1>1, ViewIs
<1>5. Leaf(k) \notin S
  <2> SUFFICES ASSUME Leaf(k) \in S PROVE FALSE
    OBVIOUS
  <2>1. L!Leaf(k) \in S
    BY Names
  <2>2. PICK A : A \subseteq S /\ L!OnTheWay(u, dep, rep, k, A)
    BY <1>2, <2>1, Ground, L!WayExists
  <2>3. u[0][0] \in S
    BY <2>2 DEF L!OnTheWay
  <2> QED BY <1>3, <1>4, <2>3, ObjectsAre
<1>6. Still(c2, c, S, Root) /\ Revalued(c, c2, k, v)
  <2>1. Root[1] \notin Leaves
    BY ObjectsAre DEF Root
  <2>2. {} \subseteq INodes \ S /\ {} \subseteq INodes
    OBVIOUS
  <2>3. Still(c2, c, S, Root)
    BY <1>3, <1>5, <2>2, StoredStill
  <2>4. Revalued(c, c2, k, v)
    BY <2>1, <2>2, StoredValues
  <2> QED BY <2>3, <2>4
<1>7. 0 \in L!Above(S) /\ 0 \in L!Ways(0) /\ Pointer(c, 0, 0) = Root /\ Leaf(k) # NULL
  BY ObjectsAre DEF L!Above, L!Ways, Pointer
<1>8. L!AlikeBut(u, u2, S, 0, 0) /\ u2[0][0] = Leaf(k) /\ AllLaid(c2, S) /\ AllTight(c2, S)
  <2>1. c2[Root[1]][Root[2]] = Leaf(k)
    BY DEF Stored
  <2> QED BY <1>1, <1>3, <1>6, <1>7, <2>1, RepointedIs
<1>9. u2[Leaf(k)][1] = k
  <2>1. c2[Leaf(k)][Key(0)] = k
    BY DEF Stored
  <2> QED BY <1>1, <2>1, ViewIs, ObjectsAre
<1>10. L!Formed(Form, u2, S \cup {Leaf(k)})
  <2>1. L!Through(u, dep, rep, 0, 0, k)
    BY DEF L!Through
  <2>2. L!Leaf(k) = Leaf(k) /\ L!KEY = 1
    BY Names
  <2> QED BY <1>2, <1>4, <1>5, <1>7, <1>8, <1>9, <2>1, <2>2, Ground, L!Planted, ZenonT(30)
<1>11. L!Branching(u2, S)
  <2>1. S \subseteq S /\ u2[0][0] # NULL
    BY <1>7, <1>8
  <2> QED BY <1>3, <1>8, <2>1, Ground, L!BranchingKept
<1>12. Tree(c2, S \cup {Leaf(k)})
  <2>1. (S \cup {Leaf(k)}) \cap INodes = S \cap INodes
    BY ObjectsAre
  <2>2. L!Branching(u2, S \cup {Leaf(k)})
    BY <1>11, <2>1, Names DEF L!Branching
  <2> QED BY <1>1, <1>8, <1>10, <2>1, <2>2 DEF Tree, L!Tree, AllLaid, AllTight
<1>13. (S \cup {Leaf(k)}) \cap Leaves = (S \cap Leaves) \cup {Leaf(k)}
  BY ObjectsAre
<1> QED BY <1>5, <1>6, <1>12, <1>13 DEF Extended

\* A value replaced.
LEMMA ValueExtended ==
  ASSUME NEW c, NEW S, Tree(c, S), NEW k \in Keys, Leaf(k) \in S, NEW v,
         NEW c2, c2[Leaf(k)][Value] = v,
         \A q \in Objs : \A w \in Fields(q) : <<q, w>> # <<Leaf(k), Value>> => c2[q][w] = c[q][w]
  PROVE  Extended(c, c2, S, S, k, v, <<Leaf(k), Value>>)
<1>1. AllLaid(c, S) /\ S \subseteq INodes \cup Leaves
  BY TreeIs
<1>2. Still(c2, c, S, <<Leaf(k), Value>>)
  BY <1>1, WordsIn DEF Still
<1>3. Tree(c2, S)
  <2>1. \A o \in {0} \cup S : \A w \in Words(c, o) : w # Value => c2[o][w] = c[o][w]
    BY <1>2 DEF Still
  <2> QED BY <2>1, SameTree
<1>4. Revalued(c, c2, k, v)
  <2> SUFFICES ASSUME NEW j \in Keys, j # k PROVE c2[Leaf(j)][Value] = c[Leaf(j)][Value]
    BY DEF Revalued
  <2>1. Leaf(j) \in Objs /\ Leaf(j) # Leaf(k) /\ Value \in Fields(Leaf(j))
    BY ObjectsAre DEF Objs, Fields
  <2> QED BY <2>1
<1>5. S \cap Leaves = (S \cap Leaves) \cup {Leaf(k)}
  BY ObjectsAre
<1> QED BY <1>2, <1>3, <1>4, <1>5 DEF Extended

\* What a node over m leads to: the leaf m itself, or the copy m2 of m with what
\* is left of its path r after the digits up to e.
Carried(c, c2, S, m, m2, n, len, e, r) ==
  \/ m \in Leaves /\ m2 = m /\ c2[m][Key(0)] = c[m][Key(0)]
  \/ /\ m \in INodes /\ m2 \in INodes \ S /\ m2 # n /\ len < Len(c[m][Hdr].path)
     /\ Laid(c2[m2]) /\ Tight(c2[m2])
     /\ c2[m2][Hdr].path = Digits(r, e + 1, Len(c[m][Hdr].path) - len - 1)
     /\ \A i \in Digit : find_child(c2[m2], i) = find_child(c[m], i)
\* c2 is c with the node n put over m, where ref led, and the leaf of k beside
\* it under n; r and k part after len digits from depth d on.
Fork(c, c2, S, k, ref, m, d, len, n, m2, r) ==
  /\ m # NULL /\ d + len <= MAX_DEPTH /\ L!Same(r, k, d + len) /\ get_index(r, d + len) # get_index(k, d + len)
  /\ c2[ref[1]][ref[2]] = n /\ Still(c2, c, S \ {m}, ref) /\ c2[Leaf(k)][Key(0)] = k
  /\ Laid(c2[n]) /\ c2[n][Hdr] = Header(NODE4, Digits(k, d, len))
  /\ \A i \in Digit : find_child(c2[n], i) = IF i = get_index(r, d + len) THEN m2
                                             ELSE IF i = get_index(k, d + len) THEN Leaf(k) ELSE NULL
  /\ Carried(c, c2, S, m, m2, n, len, d + len, r)

\* The header of a path.
LEMMA HeaderViewIs ==
  ASSUME NEW path
  PROVE  L!HeaderOf(Form, path) = HeaderView(path)
BY FormIs DEF L!HeaderOf, HeaderView

\* The tree is still one, with k in it.
LEMMA ForkedTree ==
  ASSUME NEW c, NEW u, u = View(c), NEW S, NEW dep, NEW rep, L!Shape(Form, u, S, dep, rep), L!Branching(u, S),
         AllLaid(c, S), AllTight(c, S), NEW k \in Keys, Leaf(k) \notin S,
         NEW o \in L!Above(S), NEW w \in L!Ways(o), L!Through(u, dep, rep, o, w, k),
         NEW m, m = u[o][w], NEW d, d = L!Level(u, dep, o), NEW len \in Nat, NEW n \in INodes \ S, NEW m2,
         NEW ref, ref = Pointer(c, o, w), NEW c2, Fork(c, c2, S, k, ref, m, d, len, n, m2, rep[m])
  PROVE  Tree(c2, ((S \ {m}) \cup {n, m2}) \cup {Leaf(k)}) /\ o # m /\ m \in S
<1> DEFINE R == S \ {m}
           T == (R \cup {n, m2}) \cup {Leaf(k)}
<1>1. PICK u2 : u2 = View(c2)
  OBVIOUS
<1>2. m # NULL /\ n # NULL /\ n # 0 /\ n \notin Leaves
  BY ObjectsAre DEF Fork
<1>3. S \subseteq INodes \cup Leaves
  <2>1. S \subseteq L!INodes \cup L!Leaves
    BY DEF L!Shape, L!Placed
  <2> QED BY <2>1, Names
<1>4. m \in S /\ dep[m] = L!Level(u, dep, o)
  BY <1>2, Ground, L!Beneath
<1>5. o # m
  <2>1. o # 0 => dep[o] < L!Level(u, dep, o) /\ L!Level(u, dep, o) \in 0 .. L!MAX_HEIGHT
    BY Ground, L!LevelIs
  <2>2. o = 0 => o # m
    BY <1>3, <1>4, ObjectsAre
  <2>3. o \in S \/ o = 0
    BY DEF L!Above
  <2>4. ASSUME o # 0, o = m PROVE FALSE
    <3>1. o \in L!INodes /\ o \in S
      BY <2>4 DEF L!Above
    <3>2. dep[o] \in 0 .. MAX_DEPTH
      BY <3>1, Ground, L!InnerNode
    <3> QED BY <1>4, <2>1, <2>4, <3>2
  <2> QED BY <2>2, <2>4
<1>6. R \subseteq S /\ R \subseteq INodes \cup Leaves /\ AllLaid(c, R) /\ AllTight(c, R) /\ o \in L!Above(R)
  BY <1>3, <1>5 DEF AllLaid, AllTight, L!Above
<1>7. o # 0 => u[o][w] # NULL
  BY <1>2
<1>8. c2[ref[1]][ref[2]] = n /\ Still(c2, c, R, ref)
  BY DEF Fork
<1>9. L!AlikeBut(u, u2, R, o, w) /\ u2[o][w] = n /\ AllLaid(c2, R) /\ AllTight(c2, R)
  <2> HIDE DEF R
  <2> QED BY <1>1, <1>2, <1>6, <1>7, <1>8, RepointedIs
<1>10. u2[n][FAN] = HeaderView(Digits(k, d, len))
       /\ \A i \in 0 .. FAN - 1 : u2[n][i] = IF i = get_index(rep[m], d + len) THEN m2
                                            ELSE IF i = get_index(k, d + len) THEN Leaf(k) ELSE NULL
  <2>1. c2[n][Hdr].path = Digits(k, d, len)
    BY HeaderIs DEF Fork
  <2>2. /\ u2[n][FAN] = HeaderView(c2[n][Hdr].path)
        /\ \A i \in 0 .. FAN - 1 : u2[n][i] = find_child(c2[n], i)
    BY <1>1, ViewIs
  <2>3. \A i \in 0 .. FAN - 1 : find_child(c2[n], i) = IF i = get_index(rep[m], d + len) THEN m2
                                            ELSE IF i = get_index(k, d + len) THEN Leaf(k) ELSE NULL
    BY DEF Fork, Digit
  <2> QED BY <2>1, <2>2, <2>3
<1>11. u2[Leaf(k)][1] = k
  <2>1. c2[Leaf(k)][Key(0)] = k
    BY DEF Fork
  <2> QED BY <1>1, <2>1, ViewIs, ObjectsAre
<1>12. L!Moved(Form, u, u2, S, n, m, m2, d, len, rep[m])
  <2>1. CASE m \in Leaves /\ m2 = m /\ c2[m][Key(0)] = c[m][Key(0)]
    <3>1. u2[m][1] = u[m][1]
      BY <1>1, <2>1, ViewIs
    <3> QED BY <2>1, <3>1, Names DEF L!Moved
  <2>2. CASE /\ m \in INodes /\ m2 \in INodes \ S /\ m2 # n /\ len < Len(c[m][Hdr].path)
             /\ Laid(c2[m2]) /\ Tight(c2[m2])
             /\ c2[m2][Hdr].path = Digits(rep[m], d + len + 1, Len(c[m][Hdr].path) - len - 1)
             /\ \A i \in Digit : find_child(c2[m2], i) = find_child(c[m], i)
    <3>1. u[m][FAN].partial_len = Len(c[m][Hdr].path)
      BY <2>2, ViewIs
    <3>2. u2[m2][FAN] = HeaderView(c2[m2][Hdr].path)
      BY <1>1, <2>2, ViewIs
    <3>3. \A i \in 0 .. FAN - 1 : u2[m2][i] = u[m][i]
      BY <1>1, <2>2, ViewIs DEF Digit
    <3>4. u2[m2][FAN] = L!HeaderOf(Form, L!Digits(rep[m], d + len + 1, u[m][FAN].partial_len - len - 1))
      <4>1. L!Digits(rep[m], d + len + 1, u[m][FAN].partial_len - len - 1) = c2[m2][Hdr].path
        BY <2>2, <3>1, Names
      <4> QED BY <3>2, <4>1, HeaderViewIs
    <3> QED BY <2>2, <3>1, <3>3, <3>4, Names DEF L!Moved
  <2>3. Carried(c, c2, S, m, m2, n, len, d + len, rep[m])
    BY DEF Fork
  <2> QED BY <2>1, <2>2, <2>3 DEF Carried
<1>13. L!Forking(Form, u, u2, S, dep, rep, k, o, w, m, d, len, n, m2)
  <2>1. /\ d + len <= MAX_DEPTH /\ L!Same(rep[m], k, d + len)
        /\ L!get_index(rep[m], d + len) # L!get_index(k, d + len)
    BY Names DEF Fork
  <2>2. u2[n][L!HDR] = L!HeaderOf(Form, L!Digits(k, d, len))
    BY <1>10, HeaderViewIs, Names
  <2>3. \A i \in 0 .. L!FAN - 1 : u2[n][i] = IF i = L!get_index(rep[m], d + len) THEN m2
                                             ELSE IF i = L!get_index(k, d + len) THEN L!Leaf(k) ELSE NULL
    BY <1>10, Names
  <2>4. u2[L!Leaf(k)][L!KEY] = k
    BY <1>11, Names
  <2> QED BY <1>2, <1>9, <1>12, <2>1, <2>2, <2>3, <2>4 DEF L!Forking
<1>14. L!Tree(Form, u2, T)
  <2>1. L!Leaf(k) \notin S /\ n \in L!INodes \ S
    BY Names
  <2>2. L!Tree(Form, u2, ((S \ {m}) \cup {n, m2}) \cup {L!Leaf(k)})
    BY <1>13, <2>1, Ground, L!ForkedOff
  <2> QED BY <2>2, Names
<1>15. AllLaid(c2, T) /\ AllTight(c2, T)
  <2> SUFFICES ASSUME NEW q \in T \cap INodes PROVE Laid(c2[q]) /\ Tight(c2[q])
    BY DEF AllLaid, AllTight
  <2>1. CASE q \in R
    BY <1>9, <2>1 DEF AllLaid, AllTight
  <2>2. CASE q = n
    <3>1. c2[n][Hdr].type = NODE4
      BY HeaderIs DEF Fork
    <3> QED BY <2>2, <3>1, Caps DEF Fork, Tight
  <2>3. CASE q = m2
    <3>1. m \notin Leaves \/ m2 # m
      BY <2>3, ObjectsAre
    <3> QED BY <2>3, <3>1 DEF Fork, Carried
  <2>4. q # Leaf(k)
    BY ObjectsAre
  <2> QED BY <2>1, <2>2, <2>3, <2>4
<1> HIDE DEF T
<1>16. Tree(c2, T)
  BY <1>1, <1>14, <1>15 DEF Tree
<1> QED BY <1>4, <1>5, <1>16 DEF T

\* The object a pointer is a word of.
LEMMA PointerIs ==
  ASSUME NEW c, NEW S, S \subseteq INodes \cup Leaves, AllLaid(c, S), NEW o \in L!Above(S), NEW w \in L!Ways(o),
         NEW v, v = View(c), o # 0 => v[o][w] # NULL, NEW ref, ref = Pointer(c, o, w)
  PROVE  /\ ref = <<ref[1], ref[2]>> /\ ref[1] = o /\ o \in Objs /\ o \in {0} \cup S /\ ref[2] \in Fields(o) /\ o \notin Leaves
         /\ ref[2] \in Words(c, o) /\ o \notin Leaves /\ (o # 0 => o \in S \cap INodes)
<1>1. CASE o = 0
  BY <1>1, ObjectsAre DEF Pointer, Root, Objs, Fields, Words
<1>2. CASE o # 0
  <2>1. o \in S \cap INodes /\ w \in Digit /\ ref = <<o, Slot(c[o], w)>> /\ Laid(c[o])
    BY <1>2, Names DEF L!Above, L!Ways, Digit, Pointer, AllLaid
  <2>2. find_child(c[o], w) # NULL
    BY <1>2, <2>1, ViewIs DEF Digit
  <2>3. PICK i \in PlaceOf(c[o], w) : TRUE
    BY <2>1, <2>2, ChildNull
  <2>4. Slot(c[o], w) \in Live(c[o])
    BY <2>1, <2>3, PlaceIs
  <2>5. Live(c[o]) \subseteq NodeWords
    BY <2>1, LiveWords
  <2> QED BY <1>2, <2>1, <2>4, <2>5, ObjectsAre DEF Objs, Fields, Words
<1> QED BY <1>1, <1>2

\* A node that was stored.
Shows(nd, node) == \A w \in NodeWords : w \in DOMAIN node => nd[w] = node[w]

\* A node of the tree, built from what was stored.
LEMMA Built ==
  ASSUME NEW node, NEW path, NEW i, NEW x, NEW j, NEW y, PairOf(node, path, i, x, j, y),
         NEW nd, Shows(nd, node)
  PROVE  /\ Laid(nd) /\ nd[Hdr] = Header(NODE4, path) /\ DOMAIN node \subseteq TypeWords(NODE4)
         /\ \A e \in Digit : find_child(nd, e) = IF e = i THEN x ELSE IF e = j THEN y ELSE NULL
<1>1. /\ Laid(node) /\ node[Hdr] = Header(NODE4, path) /\ Live(node) \subseteq DOMAIN node
      /\ DOMAIN node \subseteq TypeWords(NODE4)
      /\ \A e \in Digit : find_child(node, e) = IF e = i THEN x ELSE IF e = j THEN y ELSE NULL
  BY PairIs
<1>2. /\ Laid(nd) /\ nd[Hdr] = node[Hdr] /\ \A e \in Digit : find_child(nd, e) = find_child(node, e)
  <2>1. \A w \in Live(node) : nd[w] = node[w]
    BY <1>1, LiveWords, Zenon DEF Shows
  <2> QED BY <1>1, <2>1, LiveSame
<1> QED BY <1>1, <1>2

\* A leaf of another key, where the site is.
BesideAt(c, S, k, s, l, len, n, node) ==
  /\ Tree(c, S) /\ s = Site(c, k) /\ s.n \in Leaves /\ l = c[s.n][Key(0)] /\ l # k
  /\ len = longest_common_prefix(l, k, s.depth) /\ n \in INodes \ S
  /\ node = Pair(Digits(k, s.depth, len), <<get_index(l, s.depth + len), s.n>>,
                 <<get_index(k, s.depth + len), Leaf(k)>>)
LEMMA BesideExtended ==
  ASSUME NEW c, NEW S, NEW k \in Keys, NEW v, NEW s, NEW l, NEW len, NEW n, NEW node,
         BesideAt(c, S, k, s, l, len, n, node),
         NEW c2, Stored(c, c2, s.ref, n, {n}, k, v), Shows(c2[n], node)
  PROVE  /\ Extended(c, c2, S, S \cup {n, Leaf(k)}, k, v, s.ref) /\ Leaf(k) \notin S
         /\ DOMAIN node \subseteq TypeWords(NODE4)
<1> USE DEF BesideAt
<1>1. PICK u : u = View(c)
  OBVIOUS
<1>2. PICK dep, rep : L!Shape(Form, u, S, dep, rep)
  BY <1>1, TreeIs
<1>3. L!Branching(u, S) /\ AllLaid(c, S) /\ AllTight(c, S) /\ S \subseteq INodes \cup Leaves
  BY <1>1, TreeIs
<1>4. PICK m, d, ref : m = s.n /\ d = s.depth /\ ref = s.ref
  OBVIOUS
<1>5. /\ \E o \in L!Above(S) : \E w \in L!Ways(o) : SiteAt(c, u, dep, rep, k, s, o, w)
      /\ m \in S \cup {NULL} /\ (m # NULL => dep[m] = d /\ L!Same(k, rep[m], d))
      /\ Leaf(k) \in S => m = Leaf(k)
  BY <1>1, <1>2, <1>4, SiteIs
<1>6a. PICK o \in L!Above(S) : \E w \in L!Ways(o) : SiteAt(c, u, dep, rep, k, s, o, w)
  BY <1>5
<1>6. PICK w \in L!Ways(o) : SiteAt(c, u, dep, rep, k, s, o, w)
  BY <1>6a
<1>7. ref = Pointer(c, o, w) /\ m = u[o][w] /\ d = L!Level(u, dep, o) /\ L!Through(u, dep, rep, o, w, k)
  BY <1>4, <1>6 DEF SiteAt
<1>8. m \in S /\ m \in Leaves /\ m \notin INodes /\ m # NULL
  BY <1>4, <1>5, ObjectsAre
<1>9. rep[m] = l /\ l \in Keys
  <2>1. m \notin L!INodes
    BY <1>8, Names
  <2>2. u[m][L!KEY] = rep[m] /\ rep[m] \in Keys
    BY <1>2, <1>8, <2>1, Ground, L!LeafIs
  <2>3. u[m][1] = c[m][Key(0)]
    BY <1>1, <1>8, ViewIs
  <2> QED BY <1>4, <2>2, <2>3, Names
<1>10. Leaf(k) \notin S
  <2> SUFFICES ASSUME Leaf(k) \in S PROVE FALSE
    OBVIOUS
  <2>1. m = Leaf(k)
    BY <1>5
  <2>2. m \notin L!INodes /\ m = L!Leaf(k)
    BY <1>8, <2>1, Names
  <2>3. rep[m] = k
    BY <1>2, <1>8, <2>2, Ground, L!LeafIs
  <2> QED BY <1>9, <2>3
<1>11. d \in Nat /\ d <= MAX_HEIGHT
  <2>1. L!Level(u, dep, o) \in 0 .. L!MAX_HEIGHT
    BY <1>2, Ground, L!LevelIs
  <2>2. MAX_HEIGHT \in Nat
    BY Ground, L!Sizes, Names
  <2> QED BY <1>7, <2>1, <2>2, Names
<1>12. /\ len \in Nat /\ d + len <= MAX_DEPTH /\ L!Same(l, k, d + len)
       /\ get_index(l, d + len) # get_index(k, d + len)
  <2>1. L!Same(l, k, d)
    <3>1. L!Same(k, l, d) /\ d \in Int /\ d <= d
      BY <1>5, <1>8, <1>9, <1>11
    <3> QED BY <3>1, Ground, L!SameTo
  <2>2. len = L!longest_common_prefix(l, k, d)
    BY <1>4, CommonSame
  <2>3. d <= L!MAX_HEIGHT
    BY <1>11, Names
  <2>4. /\ len \in Nat /\ d + len <= MAX_DEPTH /\ L!Same(l, k, d + len)
        /\ L!get_index(l, d + len) # L!get_index(k, d + len)
    BY <1>9, <1>11, <2>1, <2>2, <2>3, Ground, L!CommonPath
  <2> QED BY <2>4, Names
<1>13. d + len \in 0 .. MAX_DEPTH
  <2>1. MAX_DEPTH \in Nat
    BY Ground, L!Sizes
  <2> QED BY <1>11, <1>12, <2>1
<1>14. get_index(l, d + len) \in Digit /\ get_index(k, d + len) \in Digit
  <2>1. L!get_index(l, d + len) \in 0 .. L!FAN - 1 /\ L!get_index(k, d + len) \in 0 .. L!FAN - 1
    BY <1>9, <1>13, Ground, L!Digit
  <2> QED BY <2>1, Names DEF Digit
<1>15. node = Pair(Digits(k, d, len), <<get_index(l, d + len), m>>, <<get_index(k, d + len), Leaf(k)>>)
  BY <1>4, Zenon
<1>16. /\ Laid(c2[n]) /\ c2[n][Hdr] = Header(NODE4, Digits(k, d, len)) /\ DOMAIN node \subseteq TypeWords(NODE4)
       /\ \A i \in Digit : find_child(c2[n], i) = IF i = get_index(l, d + len) THEN m
                                                  ELSE IF i = get_index(k, d + len) THEN Leaf(k) ELSE NULL
  <2>1. PairOf(node, Digits(k, d, len), get_index(l, d + len), m, get_index(k, d + len), Leaf(k))
    BY <1>8, <1>12, <1>14, <1>15, ObjectsAre DEF PairOf
  <2> QED BY <2>1, Built
<1>17. o \notin Leaves /\ ref[1] = o
  BY <1>1, <1>3, <1>7, <1>8, PointerIs
<1>18. Stored(c, c2, ref, n, {n}, k, v)
  BY <1>4
<1>19. Still(c2, c, S, ref) /\ Revalued(c, c2, k, v)
  <2>1. {n} \subseteq INodes \ S /\ {n} \subseteq INodes /\ ref[1] \notin Leaves
    BY <1>17
  <2>2. Still(c2, c, S, ref)
    BY <1>3, <1>10, <1>18, <2>1, StoredStill
  <2>3. Revalued(c, c2, k, v)
    BY <1>18, <2>1, StoredValues, Zenon
  <2> QED BY <2>2, <2>3
<1>20. Fork(c, c2, S, k, ref, m, d, len, n, m, rep[m])
  <2>1. Still(c2, c, S \ {m}, ref)
    <3>1. Still(c2, c, S, ref)
      BY <1>19
    <3> QED BY ONLY <3>1 DEF Still
  <2>2. c2[m][Key(0)] = c[m][Key(0)]
    <3>1. Key(0) \in Words(c, m) /\ <<m, Key(0)>> # ref
      BY <1>8, <1>17, ObjectsAre DEF Words
    <3>2. Still(c2, c, S, ref)
      BY <1>19
    <3> QED BY ONLY <1>8, <3>1, <3>2 DEF Still
  <2>3. Carried(c, c2, S, m, m, n, len, d + len, rep[m])
    BY <1>8, <2>2 DEF Carried
  <2>4. c2[ref[1]][ref[2]] = n /\ c2[Leaf(k)][Key(0)] = k
    BY <1>18 DEF Stored
  <2> QED BY <1>8, <1>9, <1>12, <1>16, <2>1, <2>3, <2>4, Zenon DEF Fork
<1>21. Tree(c2, ((S \ {m}) \cup {n, m}) \cup {Leaf(k)})
  BY ONLY <1>1, <1>2, <1>3, <1>7, <1>10, <1>12, <1>20, ForkedTree, k \in Keys, n \in INodes \ S,
     o \in L!Above(S), w \in L!Ways(o), ZenonT(30)
<1>22. ((S \ {m}) \cup {n, m}) \cup {Leaf(k)} = S \cup {n, Leaf(k)}
  BY <1>8
<1>23. (S \cup {n, Leaf(k)}) \cap Leaves = (S \cap Leaves) \cup {Leaf(k)}
  BY ObjectsAre
<1> QED BY <1>4, <1>10, <1>16, <1>19, <1>21, <1>22, <1>23 DEF Extended

\* The key k leaves the path of a node, which starts at depth d and is r's, after
\* diff digits.
Parting(r, k, d, path, diff) ==
  /\ diff \in Nat /\ diff < Len(path) /\ d + diff \in 0 .. MAX_DEPTH
  /\ L!Same(r, k, d + diff) /\ get_index(r, d + diff) # get_index(k, d + diff)
  /\ get_index(r, d + diff) \in Digit /\ get_index(k, d + diff) \in Digit
  /\ SubSeq(path, 1, diff) = Digits(k, d, diff) /\ path[diff + 1] = get_index(r, d + diff)
  /\ Rest(path, diff) = Digits(r, d + diff + 1, Len(path) - diff - 1)

\* prefix_mismatch finds where.
LEMMA Parts ==
  ASSUME NEW c, NEW v, v = View(c), NEW S, NEW dep, NEW rep, L!Shape(Form, v, S, dep, rep), NEW n \in S \cap INodes,
         NEW k \in Keys, L!Same(k, rep[n], dep[n]), NEW path, path = c[n][Hdr].path,
         NEW diff, diff = prefix_mismatch(c[n], k, dep[n]), diff < Len(path)
  PROVE  Parting(rep[n], k, dep[n], path, diff)
<1>1. PICK r, d, len : r = rep[n] /\ d = dep[n] /\ len = Len(path)
  OBVIOUS
<1>2. /\ len \in 0 .. MAX_DEPTH /\ path = Digits(r, d, len) /\ d \in 0 .. MAX_DEPTH /\ r \in Keys
      /\ d + len \in 0 .. MAX_DEPTH
  <2>1. /\ Len(path) \in 0 .. MAX_DEPTH /\ path = Digits(rep[n], dep[n], Len(path))
        /\ L!End(v, dep, n) = dep[n] + Len(path) /\ L!End(v, dep, n) \in 0 .. MAX_DEPTH /\ dep[n] \in 0 .. MAX_DEPTH
        /\ rep[n] \in Keys
    BY NodeIs
  <2> QED BY <1>1, <2>1
<1>3. diff \in 0 .. len /\ L!Same(r, k, d + diff) /\ get_index(r, d + diff) # get_index(k, d + diff)
  BY <1>1, MismatchIs
<1>4. MAX_DEPTH \in Nat /\ MAX_HEIGHT = MAX_DEPTH + 1
  <2>1. MAX_DEPTH \in Nat /\ L!MAX_HEIGHT = MAX_DEPTH + 1
    BY Ground, L!Sizes
  <2> QED BY <2>1, Names
<1>5. d \in Nat /\ len \in Nat /\ diff \in Nat /\ diff < len /\ d + len <= MAX_HEIGHT /\ d + diff \in 0 .. MAX_DEPTH
  BY <1>1, <1>2, <1>3, <1>4
<1>6. /\ SubSeq(Digits(r, d, len), 1, diff) = Digits(r, d, diff)
      /\ Digits(r, d, len)[diff + 1] = get_index(r, d + diff)
      /\ Rest(Digits(r, d, len), diff) = Digits(r, d + diff + 1, len - diff - 1)
  <2>1. d + len <= L!MAX_HEIGHT
    BY <1>5, Names
  <2>2. Digits(r, d, len)[diff + 1] = get_index(r, d + diff)
    <3>1. diff + 1 \in 1 .. len /\ d + (diff + 1) - 1 = d + diff
      BY <1>5
    <3> QED BY <3>1 DEF Digits
  <2>3. L!Digits(r, d, len) \in Seq(Nat) /\ Len(L!Digits(r, d, len)) = len
    BY <1>2, <1>5, <2>1, Ground, L!DigitsAre
  <2>4. PICK f : f = Digits(r, d, len)
    OBVIOUS
  <2>5. f \in Seq(Nat) /\ Len(f) = len /\ \A i \in 1 .. len : f[i] = get_index(r, d + i - 1)
    <3>1. \A i \in 1 .. len : f[i] = get_index(r, d + i - 1)
      BY <2>4 DEF Digits
    <3> QED BY <2>3, <2>4, <3>1, Names
  <2>6. SubSeq(f, 1, diff) = Digits(r, d, diff)
    <3>1. SubSeq(f, 1, diff) = [i \in 1 .. diff |-> f[i]]
      BY <1>5, <2>5
    <3>2. [i \in 1 .. diff |-> f[i]] = [i \in 1 .. diff |-> get_index(r, d + i - 1)]
      BY <1>5, <2>5
    <3> QED BY <3>1, <3>2 DEF Digits
  <2>7. Rest(f, diff) = Digits(r, d + diff + 1, len - diff - 1)
    <3>1. L!Rest(L!Digits(r, d, len), diff) = L!Digits(r, d + diff + 1, len - diff - 1)
      <4>1. r \in Keys
        BY <1>2
      <4>2. d \in Nat /\ len \in Nat /\ diff \in Nat /\ diff < len
        BY <1>5
      <4> QED BY ONLY <2>1, <4>1, <4>2, Ground, L!DigitsFirst
    <3>2. L!Rest(f, diff) = Rest(f, diff)
      BY DEF L!Rest, Rest
    <3> QED BY <2>4, <3>1, <3>2, Names
  <2> QED BY <2>2, <2>4, <2>6, <2>7
<1>7. Digits(r, d, diff) = Digits(k, d, diff)
  <2>1. L!Digits(r, d, diff) = L!Digits(k, d, diff)
    BY <1>2, <1>3, <1>5, Ground, L!DigitsSame
  <2> QED BY <2>1, Names
<1>8. get_index(r, d + diff) \in Digit /\ get_index(k, d + diff) \in Digit
  <2>1. L!get_index(r, d + diff) \in 0 .. L!FAN - 1 /\ L!get_index(k, d + diff) \in 0 .. L!FAN - 1
    BY <1>2, <1>5, Ground, L!Digit
  <2> QED BY <2>1, Names DEF Digit
<1>9. Parting(r, k, d, path, diff)
  BY <1>1, <1>2, <1>3, <1>5, <1>6, <1>7, <1>8 DEF Parting
<1> QED BY <1>1, <1>9

\* The copy with the rest of the path.
CopyOf(nd, path) ==
  [w \in TypeWords(nd[Hdr].type) |-> IF w = Hdr THEN Header(nd[Hdr].type, path) ELSE nd[w]]
LEMMA CopyIs ==
  ASSUME NEW nd, NEW nd2, NEW path, Laid(nd), Tight(nd), Shows(nd2, CopyOf(nd, path))
  PROVE  /\ Laid(nd2) /\ Tight(nd2) /\ nd2[Hdr] = Header(nd[Hdr].type, path)
         /\ \A i \in Digit : find_child(nd2, i) = find_child(nd, i)
<1>1. /\ Live(nd) \subseteq TypeWords(nd[Hdr].type) /\ Hdr \in Live(nd)
      /\ \A w \in TypeWords(nd[Hdr].type) : nd2[w] = IF w = Hdr THEN Header(nd[Hdr].type, path) ELSE nd[w]
  <2>1. /\ Live(nd) \subseteq TypeWords(nd[Hdr].type) /\ Hdr \in Live(nd)
        /\ TypeWords(nd[Hdr].type) \subseteq NodeWords
    BY LiveWords
  <2> QED BY <2>1 DEF Shows, CopyOf
<1>2. nd2[Hdr] = Header(nd[Hdr].type, path)
  BY <1>1
<1>3. nd2[Hdr].type = nd[Hdr].type
  BY <1>2, HeaderIs
<1>4. \A w \in Live(nd) : w # Hdr => nd2[w] = nd[w]
  BY <1>1
<1>5. /\ Laid(nd2)
      /\ \A i \in Digit : find_child(nd2, i) = find_child(nd, i) /\ PlaceOf(nd2, i) = PlaceOf(nd, i)
  BY <1>3, <1>4, Retitled
<1>6. Present(nd2) = Present(nd)
  BY <1>5 DEF Present, Digit
<1>7. Tight(nd2)
  BY <1>3, <1>6, Zenon DEF Tight
<1> QED BY <1>2, <1>5, <1>7

\* A node whose path the key leaves.
SplitAt(c, S, k, s, path, diff, n, y, node) ==
  /\ Tree(c, S) /\ s = Site(c, k) /\ s.n \in INodes /\ path = c[s.n][Hdr].path
  /\ diff = prefix_mismatch(c[s.n], k, s.depth) /\ diff < Len(path)
  /\ n \in INodes \ S /\ y \in INodes \ S /\ y # n
  /\ node = Pair(SubSeq(path, 1, diff), <<path[diff + 1], y>>, <<get_index(k, s.depth + diff), Leaf(k)>>)
LEMMA SplitExtended ==
  ASSUME NEW c, NEW S, NEW k \in Keys, NEW v, NEW s, NEW path, NEW diff, NEW n, NEW y, NEW node,
         SplitAt(c, S, k, s, path, diff, n, y, node),
         NEW c2, Stored(c, c2, s.ref, n, {n, y}, k, v), Shows(c2[n], node),
         Shows(c2[y], CopyOf(c[s.n], Rest(path, diff)))
  PROVE  /\ Extended(c, c2, S, ((S \ {s.n}) \cup {n, y}) \cup {Leaf(k)}, k, v, s.ref)
         /\ Leaf(k) \notin S /\ s.n \in S /\ DOMAIN node \subseteq TypeWords(NODE4)
<1> USE DEF SplitAt
<1>1. PICK u : u = View(c)
  BY Zenon
<1>2. PICK dep, rep : L!Shape(Form, u, S, dep, rep)
  BY <1>1, TreeIs, Zenon
<1>3. L!Branching(u, S) /\ AllLaid(c, S) /\ AllTight(c, S) /\ S \subseteq INodes \cup Leaves
  BY <1>1, TreeIs, Zenon
<1>4. PICK m, d, ref : m = s.n /\ d = s.depth /\ ref = s.ref
  BY Zenon
<1>5. /\ \E o \in L!Above(S) : \E w \in L!Ways(o) : SiteAt(c, u, dep, rep, k, s, o, w)
      /\ m \in S \cup {NULL} /\ (m # NULL => dep[m] = d /\ L!Same(k, rep[m], d))
      /\ Leaf(k) \in S => m = Leaf(k)
  BY <1>1, <1>2, <1>4, SiteIs
<1>6a. PICK o \in L!Above(S) : \E w \in L!Ways(o) : SiteAt(c, u, dep, rep, k, s, o, w)
  BY <1>5
<1>6. PICK w \in L!Ways(o) : SiteAt(c, u, dep, rep, k, s, o, w)
  BY <1>6a, Zenon
<1>7. ref = Pointer(c, o, w) /\ m = u[o][w] /\ d = L!Level(u, dep, o) /\ L!Through(u, dep, rep, o, w, k)
  <2>1. s = [ref |-> Pointer(c, o, w), n |-> u[o][w], depth |-> L!Level(u, dep, o)] /\ L!Through(u, dep, rep, o, w, k)
    BY ONLY <1>6 DEF SiteAt
  <2>2. m = s.n /\ d = s.depth /\ ref = s.ref
    BY ONLY <1>4
  <2> QED BY ONLY <2>1, <2>2
<1>8. m \in S \cap INodes /\ m \notin Leaves /\ m # NULL /\ Laid(c[m]) /\ Tight(c[m]) /\ Leaf(k) \notin S
      /\ dep[m] = d /\ L!Same(k, rep[m], d)
  BY <1>3, <1>4, <1>5, ObjectsAre DEF AllLaid, AllTight
<1>9. Parting(rep[m], k, d, path, diff)
  <2>1. path = c[m][Hdr].path /\ diff = prefix_mismatch(c[m], k, dep[m]) /\ diff < Len(path) /\ L!Same(k, rep[m], dep[m])
    BY <1>4, <1>8
  <2>2. Parting(rep[m], k, dep[m], path, diff)
    BY <1>1, <1>2, <1>8, <2>1, Parts, Zenon
  <2> QED BY <1>8, <2>2, Zenon
<1>10. PICK r : r = rep[m]
  BY ZenonT(30)
<1>16. /\ Laid(c2[n]) /\ c2[n][Hdr] = Header(NODE4, Digits(k, d, diff)) /\ DOMAIN node \subseteq TypeWords(NODE4)
       /\ \A i \in Digit : find_child(c2[n], i) = IF i = get_index(r, d + diff) THEN y
                                                  ELSE IF i = get_index(k, d + diff) THEN Leaf(k) ELSE NULL
  <2>1. y # NULL /\ Leaf(k) # NULL
    BY ObjectsAre, Zenon
  <2>2. /\ get_index(r, d + diff) \in Digit /\ get_index(k, d + diff) \in Digit
        /\ get_index(r, d + diff) # get_index(k, d + diff)
        /\ SubSeq(path, 1, diff) = Digits(k, d, diff) /\ path[diff + 1] = get_index(r, d + diff)
    BY <1>9, <1>10, Zenon DEF Parting
  <2>3. node = Pair(Digits(k, d, diff), <<get_index(r, d + diff), y>>, <<get_index(k, d + diff), Leaf(k)>>)
    BY <1>4, <2>2
  <2>4. PairOf(node, Digits(k, d, diff), get_index(r, d + diff), y, get_index(k, d + diff), Leaf(k))
    BY <2>1, <2>2, <2>3 DEF PairOf
  <2>5. Shows(c2[n], node)
    OBVIOUS
  <2> QED BY ONLY <2>4, <2>5, Built
<1>17. o \notin Leaves /\ ref[1] = o
  BY <1>1, <1>3, <1>7, <1>8, PointerIs
<1>18. Stored(c, c2, ref, n, {n, y}, k, v)
  BY <1>4, Zenon
<1>19. Still(c2, c, S, ref) /\ Revalued(c, c2, k, v)
  <2>1. {n, y} \subseteq INodes \ S /\ {n, y} \subseteq INodes /\ ref[1] \notin Leaves
    BY <1>17, Zenon
  <2>2. Still(c2, c, S, ref)
    BY <1>3, <1>8, <1>18, <2>1, StoredStill
  <2>3. Revalued(c, c2, k, v)
    BY <1>18, <2>1, StoredValues, Zenon
  <2> QED BY <2>2, <2>3, Zenon
<1>20. /\ Laid(c2[y]) /\ Tight(c2[y]) /\ c2[y][Hdr] = Header(c[m][Hdr].type, Rest(path, diff))
       /\ \A i \in Digit : find_child(c2[y], i) = find_child(c[m], i)
  <2>1. Shows(c2[y], CopyOf(c[m], Rest(path, diff)))
    BY <1>4, Zenon
  <2> QED BY <1>8, <2>1, CopyIs, Zenon
<1>21. Carried(c, c2, S, m, y, n, diff, d + diff, r)
  <2>1. c2[y][Hdr].path = Rest(path, diff)
    BY <1>20, HeaderIs
  <2>2. path = c[m][Hdr].path
    BY <1>4, Zenon
  <2>3. Rest(path, diff) = Digits(r, d + diff + 1, Len(path) - diff - 1) /\ diff < Len(path)
    BY <1>9, <1>10, ZenonT(30) DEF Parting
  <2> QED BY <1>8, <1>20, <2>1, <2>2, <2>3, Zenon DEF Carried
<1>22. Fork(c, c2, S, k, ref, m, d, diff, n, y, r)
  <2>1. Still(c2, c, S \ {m}, ref)
    <3>1. Still(c2, c, S, ref)
      BY <1>19, Zenon
    <3> QED BY ONLY <3>1 DEF Still
  <2>2. d + diff <= MAX_DEPTH
    <3>1. MAX_DEPTH \in Nat
      BY Ground, L!Sizes, Zenon
    <3> QED BY <1>9, <3>1 DEF Parting
  <2>3. L!Same(r, k, d + diff) /\ get_index(r, d + diff) # get_index(k, d + diff)
    BY <1>9, <1>10, Zenon DEF Parting
  <2>4. c2[ref[1]][ref[2]] = n /\ c2[Leaf(k)][Key(0)] = k
    BY <1>18 DEF Stored
  <2> QED BY <1>8, <1>16, <1>21, <2>1, <2>2, <2>3, <2>4, Zenon DEF Fork
<1>23. Tree(c2, ((S \ {m}) \cup {n, y}) \cup {Leaf(k)})
  <2>1. Fork(c, c2, S, k, ref, m, d, diff, n, y, rep[m])
    BY <1>10, <1>22, Zenon
  <2>2. diff \in Nat
    BY <1>9, Zenon DEF Parting
  <2>3. Leaf(k) \notin S
    BY <1>8, Zenon
  <2>4. n \in INodes \ S
    BY Zenon
  <2> HIDE DEF Tree, Fork
  <2> QED BY ONLY <1>1, <1>2, <1>3, <1>7, <2>1, <2>2, <2>3, <2>4, ForkedTree, k \in Keys,
        o \in L!Above(S), w \in L!Ways(o), ZenonT(30)
<1>24. (((S \ {m}) \cup {n, y}) \cup {Leaf(k)}) \cap Leaves = (S \cap Leaves) \cup {Leaf(k)}
  BY <1>8, ObjectsAre
<1> QED BY <1>4, <1>8, <1>16, <1>19, <1>23, <1>24, Zenon DEF Extended

\* The key k has no child at the node n it comes to, for its digit j there.
Joins(u, S, dep, rep, k, n, j) ==
  /\ n \in S \cap INodes /\ j \in Digit /\ L!Through(u, dep, rep, n, j, k) /\ u[n][j] = NULL
LEMMA JoinsIs ==
  ASSUME NEW c, NEW u, u = View(c), NEW S, NEW dep, NEW rep, L!Shape(Form, u, S, dep, rep),
         NEW k \in Keys, NEW s, s = Site(c, k), s.n \in INodes, NEW len, len = Len(c[s.n][Hdr].path),
         prefix_mismatch(c[s.n], k, s.depth) = len, NEW j, j = get_index(k, s.depth + len)
  PROVE  Joins(u, S, dep, rep, k, s.n, j) /\ find_child(c[s.n], j) = NULL /\ Leaf(k) \notin S
<1>1. /\ Stops(c, k, s) /\ s.n \in S \cup {NULL} /\ (Leaf(k) \in S => s.n = Leaf(k))
      /\ s.n # NULL => dep[s.n] = s.depth /\ L!Same(k, rep[s.n], s.depth)
  BY SiteIs
<1>2. PICK n, d : n = s.n /\ d = s.depth
  OBVIOUS
<1>3. n \in S \cap INodes /\ n # 0 /\ dep[n] = d /\ L!Same(k, rep[n], d) /\ Leaf(k) \notin S
  BY <1>1, <1>2, ObjectsAre
<1>4. /\ len \in 0 .. MAX_DEPTH /\ L!End(u, dep, n) = d + len
      /\ \A i \in 0 .. FAN - 1 : u[n][i] = find_child(c[n], i)
      /\ get_index(k, d + len) \in 0 .. FAN - 1
  BY <1>2, <1>3, NodeIs
<1>5. L!Same(k, rep[n], L!End(u, dep, n))
  <2>1. ~(prefix_mismatch(c[n], k, dep[n]) < len)
    BY <1>2, <1>3, <1>4
  <2> QED BY <1>2, <1>3, <2>1, MismatchIs
<1>6. find_child(c[n], j) = NULL
  <2>1. ~(prefix_mismatch(c[n], k, d) < len)
    BY <1>2, <1>4
  <2> QED BY <1>1, <1>2, <1>3, <2>1 DEF Stops
<1>7. L!Through(u, dep, rep, n, j, k)
  <2>1. L!get_index(k, L!End(u, dep, n)) = j
    BY <1>2, <1>4, Names
  <2> QED BY <1>5, <2>1 DEF L!Through
<1>8. Joins(u, S, dep, rep, k, n, j)
  BY <1>2, <1>3, <1>4, <1>6, <1>7 DEF Joins, Digit
<1> QED BY <1>2, <1>3, <1>6, <1>8

\* The leaf of k planted at n.
LEMMA JoinedTree ==
  ASSUME NEW u, NEW S, NEW dep, NEW rep, L!Shape(Form, u, S, dep, rep), L!Branching(u, S),
         NEW k \in Keys, Leaf(k) \notin S, NEW n, NEW j, Joins(u, S, dep, rep, k, n, j),
         NEW u2, L!AlikeBut(u, u2, S, n, j), u2[n][j] = Leaf(k), u2[Leaf(k)][1] = k
  PROVE  L!Tree(Form, u2, S \cup {Leaf(k)})
<1>1. n \in L!Above(S) /\ j \in L!Ways(n) /\ L!Through(u, dep, rep, n, j, k) /\ u[n][j] = NULL /\ Leaf(k) # NULL
  BY ObjectsAre, Names DEF Joins, L!Above, L!Ways, Digit
<1>2. L!Formed(Form, u2, S \cup {Leaf(k)})
  <2>1. PICK l : l = Leaf(k) /\ l = L!Leaf(k)
    BY Names
  <2>2. /\ L!Shape(Form, u, S, dep, rep) /\ k \in Keys /\ L!Leaf(k) \notin S /\ L!AlikeBut(u, u2, S, n, j)
        /\ u2[n][j] = L!Leaf(k) /\ u2[L!Leaf(k)][L!KEY] = k
    BY <2>1, Names
  <2>3. n \in L!Above(S) /\ j \in L!Ways(n) /\ L!Through(u, dep, rep, n, j, k) /\ u[n][j] = NULL
    BY <1>1, Names
  <2>4. L!Formed(Form, u2, S \cup {L!Leaf(k)})
    BY ONLY <2>2, <2>3, Ground, L!Planted
  <2> QED BY <2>1, <2>4
<1>3. L!Branching(u2, S)
  <2>1. S \subseteq S /\ u2[n][j] # NULL
    BY <1>1
  <2> QED BY <1>1, <2>1, Ground, L!BranchingKept
<1>4. (S \cup {Leaf(k)}) \cap INodes = S \cap INodes
  BY ObjectsAre
<1>5. L!Branching(u2, S \cup {Leaf(k)})
  BY <1>3, <1>4, Names DEF L!Branching
<1> QED BY <1>2, <1>5 DEF L!Tree

\* A node with one more child is as tight.
LEMMA TightMore ==
  ASSUME NEW nd, Laid(nd), Tight(nd), NEW nd2, Laid(nd2), nd2[Hdr].type = nd[Hdr].type,
         \A i \in Digit : find_child(nd, i) # NULL => find_child(nd2, i) # NULL
  PROVE  Tight(nd2)
<1>1. Present(nd) \subseteq Present(nd2)
  BY ChildNull DEF Present, Digit
<1>2. IsFiniteSet(Present(nd2)) /\ Present(nd2) \subseteq Digit
  <2>1. IsFiniteSet(Digit)
    BY Caps, FS_Interval DEF Digit
  <2>2. Present(nd2) \subseteq Digit
    BY DEF Present, Digit
  <2> QED BY <2>1, <2>2, FS_Subset
<1>3. /\ Cardinality(Present(nd)) \in Nat /\ Cardinality(Present(nd2)) \in Nat
      /\ Cardinality(Present(nd)) <= Cardinality(Present(nd2))
  BY <1>1, <1>2, FS_Subset, FS_CardinalityType
<1>4. nd[Hdr].type > NODE4 => Capacity(nd[Hdr].type - 1) \in Nat
  BY Caps DEF Laid, Fits, Capacity
<1> QED BY <1>3, <1>4 DEF Tight

\* c2 is c after the stores a to n; k's leaf was built before.
Adds(c, c2, n, a, k, v) ==
  /\ Shows(c2[n], a)
  /\ \A q \in Objs : \A w \in Fields(q) : q # n \/ w \notin DOMAIN a => c2[q][w] = c[q][w]
  /\ c[Leaf(k)][Value] = v /\ c[Leaf(k)][Key(0)] = k

\* A child more in a node with room.
AddAt(c, S, k, s, len, j, a) ==
  /\ Tree(c, S) /\ s = Site(c, k) /\ s.n \in INodes /\ len = Len(c[s.n][Hdr].path)
  /\ prefix_mismatch(c[s.n], k, s.depth) = len /\ j = get_index(k, s.depth + len)
  /\ HasRoom(c[s.n]) /\ DOMAIN c[s.n] = NodeWords /\ a = Added(c[s.n], j, Leaf(k))
LEMMA AddedExtended ==
  ASSUME NEW c, NEW S, NEW k \in Keys, NEW v, NEW s, NEW len, NEW j, NEW a, AddAt(c, S, k, s, len, j, a),
         NEW c2, Adds(c, c2, s.n, a, k, v)
  PROVE  /\ Extended(c, c2, S, S \cup {Leaf(k)}, k, v, <<s.n, CommitWord(c[s.n], j)>>)
         /\ Leaf(k) \notin S /\ s.n \in S
         /\ CommitWord(c[s.n], j) \in DOMAIN a /\ DOMAIN a \subseteq NodeWords
<1> USE DEF AddAt
<1>1. PICK u, u2 : u = View(c) /\ u2 = View(c2)
  OBVIOUS
<1>2. PICK dep, rep : L!Shape(Form, u, S, dep, rep)
  BY <1>1, TreeIs
<1>3. L!Branching(u, S) /\ AllLaid(c, S) /\ AllTight(c, S) /\ S \subseteq INodes \cup Leaves
  BY <1>1, TreeIs
<1>4. PICK n, nd : n = s.n /\ nd = c[n]
  OBVIOUS
<1>5. Joins(u, S, dep, rep, k, n, j) /\ find_child(nd, j) = NULL /\ Leaf(k) \notin S
  BY <1>1, <1>2, <1>4, JoinsIs
<1>6. /\ n \in S \cap INodes /\ j \in Digit /\ Laid(nd) /\ Tight(nd) /\ n \notin Leaves /\ n # 0 /\ n \in Objs
      /\ Fields(n) = NodeWords /\ Leaf(k) # NULL /\ Leaf(k) \in Leaves /\ Leaf(k) \in Objs /\ Leaf(k) # n
  BY <1>3, <1>4, <1>5, ObjectsAre DEF Joins, AllLaid, AllTight, Objs, Fields
<1>7. PICK big : big = Both(a, nd)
  OBVIOUS
<1>8. Live(nd) \subseteq NodeWords /\ DOMAIN nd = NodeWords /\ TypeWords(nd[Hdr].type) \subseteq NodeWords
  BY <1>4, <1>6, LiveWords, Zenon
<1>9. /\ Adding(nd, j, Leaf(k), a) /\ Laid(big) /\ big[Hdr] = nd[Hdr] /\ Live(big) \subseteq Live(nd) \cup DOMAIN a
      /\ \A d \in Digit : find_child(big, d) = IF d = j THEN Leaf(k) ELSE find_child(nd, d)
  <2>1. /\ Laid(nd) /\ j \in Digit /\ find_child(nd, j) = NULL /\ Leaf(k) # NULL /\ HasRoom(nd)
        /\ Live(nd) \subseteq DOMAIN nd
    BY <1>4, <1>5, <1>6, <1>8
  <2>2. a = Added(nd, j, Leaf(k)) /\ big = Both(a, nd)
    BY <1>4, <1>7
  <2> QED BY ONLY <2>1, <2>2, AddedIs
<1>10. CommitWord(nd, j) \in DOMAIN a /\ DOMAIN a \subseteq NodeWords /\ \A w \in DOMAIN a : w \in Live(nd) => w = CommitWord(nd, j)
  BY <1>8, <1>9 DEF Adding
<1>11. \A w \in NodeWords : c2[n][w] = big[w]
  <2> SUFFICES ASSUME NEW w \in NodeWords PROVE c2[n][w] = big[w]
    OBVIOUS
  <2>1. CASE w \in DOMAIN a
    <3>1. big[w] = a[w]
      BY <1>7, <2>1, BothL
    <3> QED BY <1>4, <2>1, <3>1 DEF Adds, Shows
  <2>2. CASE w \notin DOMAIN a
    <3>1. big[w] = nd[w]
      BY <1>7, <1>8, <2>2, BothR
    <3> QED BY <1>4, <1>6, <2>2, <3>1, Zenon DEF Adds, Shows
  <2> QED BY <2>1, <2>2
<1>12. /\ Laid(c2[n]) /\ c2[n][Hdr] = nd[Hdr]
       /\ \A d \in Digit : find_child(c2[n], d) = IF d = j THEN Leaf(k) ELSE find_child(nd, d)
  <2>1. \A w \in Live(big) : c2[n][w] = big[w]
    BY <1>8, <1>9, <1>10, <1>11
  <2>2. /\ Laid(c2[n]) /\ c2[n][Hdr] = big[Hdr]
        /\ \A d \in Digit : find_child(c2[n], d) = find_child(big, d)
    BY <1>9, <2>1, LiveSame
  <2> QED BY <1>9, <2>2, Zenon
<1>13. Tight(c2[n])
  BY <1>6, <1>12, TightMore
<1>14. Still(c2, c, S, <<n, CommitWord(nd, j)>>)
  <2> SUFFICES ASSUME NEW o \in {0} \cup S, NEW w \in Words(c, o), <<o, w>> # <<n, CommitWord(nd, j)>>
               PROVE  c2[o][w] = c[o][w]
    BY DEF Still
  <2>1. o \in Objs /\ w \in Fields(o)
    BY <1>3, WordsIn
  <2>2. CASE o # n
    BY <1>4, <2>1, <2>2 DEF Adds, Shows
  <2>3. CASE o = n
    <3>1. w \in Live(nd) /\ w # CommitWord(nd, j)
      BY <1>4, <1>6, <2>3, Zenon DEF Words
    <3>2. w \notin DOMAIN a
      BY <1>10, <3>1
    <3> QED BY <2>1, <3>2 DEF Adds, Shows
  <2> QED BY <2>2, <2>3
<1>15. ASSUME NEW q \in S \cap INodes, q # n
       PROVE  /\ Laid(c2[q]) /\ Tight(c2[q]) /\ c2[q][Hdr] = c[q][Hdr]
              /\ \A d \in Digit : find_child(c2[q], d) = find_child(c[q], d)
  <2>1. Laid(c[q]) /\ Tight(c[q]) /\ q # 0 /\ Words(c, q) = Live(c[q])
    BY <1>3, <1>15, ObjectsAre DEF AllLaid, AllTight, Words
  <2>2. \A w \in Live(c[q]) : c2[q][w] = c[q][w]
    BY <1>14, <1>15, <2>1 DEF Still
  <2>3. /\ Laid(c2[q]) /\ c2[q][Hdr] = c[q][Hdr]
        /\ \A d \in Digit : find_child(c2[q], d) = find_child(c[q], d) /\ PlaceOf(c2[q], d) = PlaceOf(c[q], d)
    BY <2>1, <2>2, LiveSame
  <2>4. Tight(c2[q])
    BY <2>1, <2>3, TightSame
  <2> QED BY <2>3, <2>4
<1>16. AllLaid(c2, S) /\ AllTight(c2, S)
  BY <1>12, <1>13, <1>15 DEF AllLaid, AllTight
<1>17. \A q \in S \cap INodes : \A d \in Digit : <<q, d>> # <<n, j>> => u2[q][d] = u[q][d]
  <2> SUFFICES ASSUME NEW q \in S \cap INodes, NEW d \in Digit, <<q, d>> # <<n, j>> PROVE u2[q][d] = u[q][d]
    OBVIOUS
  <2>1. u2[q][d] = find_child(c2[q], d) /\ u[q][d] = find_child(c[q], d)
    BY <1>1, ViewIs DEF Digit
  <2> QED BY <1>4, <1>12, <1>15, <2>1
<1>18. L!AlikeBut(u, u2, S, n, j)
  <2>1. c2[0][Child(0)] = c[0][Child(0)]
    BY <1>6, ObjectsAre DEF Adds, Objs, Fields
  <2>2. u2[0][0] = u[0][0]
    BY <1>1, <2>1, ViewIs
  <2>3. \A q \in L!Above(S) : \A d \in L!Ways(q) : <<q, d>> # <<n, j>> => u2[q][d] = u[q][d]
    BY <1>17, <2>2, Names DEF L!Above, L!Ways, Digit
  <2>4. \A q \in S \cap INodes : u2[q][FAN] = u[q][FAN]
    <3> SUFFICES ASSUME NEW q \in S \cap INodes PROVE u2[q][FAN] = u[q][FAN]
      OBVIOUS
    <3>1. c2[q][Hdr] = c[q][Hdr]
      BY <1>4, <1>12, <1>15
    <3>2. u2[q][FAN] = HeaderView(c2[q][Hdr].path) /\ u[q][FAN] = HeaderView(c[q][Hdr].path)
      BY <1>1, ViewIs
    <3> QED BY <3>1, <3>2
  <2>5. \A m \in S \cap Leaves : u2[m][1] = u[m][1]
    <3> SUFFICES ASSUME NEW m \in S \cap Leaves PROVE u2[m][1] = u[m][1]
      OBVIOUS
    <3>1. m \in Objs /\ m # n /\ Key(0) \in Fields(m)
      BY <1>6, ObjectsAre DEF Objs, Fields
    <3>2. c2[m][Key(0)] = c[m][Key(0)]
      BY <1>4, <3>1 DEF Adds, Shows
    <3> QED BY <1>1, <3>2, ViewIs
  <2> QED BY <2>3, <2>4, <2>5, Names DEF L!AlikeBut
<1>19. u2[n][j] = Leaf(k) /\ u2[Leaf(k)][1] = k
  <2>1. u2[n][j] = find_child(c2[n], j) /\ u2[Leaf(k)][1] = c2[Leaf(k)][Key(0)]
    BY <1>1, <1>6, ViewIs DEF Digit
  <2>2. c2[Leaf(k)][Key(0)] = k
    BY <1>4, <1>6, ObjectsAre DEF Adds, Fields
  <2> QED BY <1>6, <1>12, <2>1, <2>2, Zenon
<1>20. Tree(c2, S \cup {Leaf(k)})
  <2>1. L!Tree(Form, u2, S \cup {Leaf(k)})
    BY <1>2, <1>3, <1>5, <1>18, <1>19, JoinedTree
  <2>2. (S \cup {Leaf(k)}) \cap INodes = S \cap INodes
    BY ObjectsAre
  <2> QED BY <1>1, <1>16, <2>1, <2>2, Zenon DEF Tree, AllLaid, AllTight
<1>21. Revalued(c, c2, k, v)
  <2> SUFFICES ASSUME NEW i \in Keys PROVE c2[Leaf(i)][Value] = IF i = k THEN v ELSE c[Leaf(i)][Value]
    BY DEF Revalued
  <2>1. Leaf(i) \in Objs /\ Leaf(i) # n /\ Value \in Fields(Leaf(i)) /\ Leaf(i) \in Leaves
    BY <1>6, ObjectsAre DEF Objs, Fields
  <2>2. c2[Leaf(i)][Value] = c[Leaf(i)][Value]
    BY <1>4, <2>1 DEF Adds, Shows
  <2> QED BY <2>2 DEF Adds, Shows
<1>22. (S \cup {Leaf(k)}) \cap Leaves = (S \cap Leaves) \cup {Leaf(k)}
  BY ObjectsAre
<1>23. Extended(c, c2, S, S \cup {Leaf(k)}, k, v, <<n, CommitWord(nd, j)>>)
  BY <1>14, <1>20, <1>21, <1>22 DEF Extended
<1> QED BY <1>4, <1>5, <1>6, <1>10, <1>23, Zenon

\* A pointer leads away from its object.
LEMMA Onward ==
  ASSUME NEW u, NEW S, NEW dep, NEW rep, L!Shape(Form, u, S, dep, rep), NEW o \in L!Above(S), NEW w \in L!Ways(o),
         NEW m, m = u[o][w], m \in S \cap INodes, dep[m] = L!Level(u, dep, o)
  PROVE  o # m
<1>1. o # 0 => dep[o] < L!Level(u, dep, o) /\ L!Level(u, dep, o) \in 0 .. L!MAX_HEIGHT
  BY Ground, L!LevelIs
<1>2. CASE o = 0
  BY <1>2, ObjectsAre
<1>3. CASE o # 0
  <2>1. o \in L!INodes /\ o \in S
    BY <1>3 DEF L!Above
  <2>2. dep[o] \in 0 .. MAX_DEPTH
    BY <2>1, Ground, L!InnerNode
  <2> QED BY <1>1, <1>3, <2>2
<1> QED BY <1>2, <1>3

\* A full node with a child more in the next layout.
LEMMA BiggerTight ==
  ASSUME NEW nd, Laid(nd), ~HasRoom(nd), NEW j \in Digit, find_child(nd, j) = NULL, NEW x, x # NULL,
         NEW nd2, Laid(nd2), nd2[Hdr].type = nd[Hdr].type + 1,
         \A d \in Digit : find_child(nd2, d) = IF d = j THEN x ELSE find_child(nd, d)
  PROVE  Tight(nd2)
<1>1. nd[Hdr].type \in {NODE4, NODE16, NODE48} /\ Cardinality(Present(nd)) = Capacity(nd[Hdr].type)
  BY Full
<1>2. Present(nd2) = Present(nd) \cup {j} /\ j \notin Present(nd)
  BY ChildNull DEF Present, Digit
<1>3. IsFiniteSet(Present(nd))
  BY <1>1, AsMany, Caps
<1>4. Cardinality(Present(nd2)) = Cardinality(Present(nd)) + 1
  BY <1>2, <1>3, FS_AddElement
<1>5. nd2[Hdr].type - 1 = nd[Hdr].type /\ Capacity(nd[Hdr].type) \in Nat
  BY <1>1, Caps DEF Capacity
<1> QED BY <1>1, <1>4, <1>5 DEF Tight

\* A node outgrown: n2 hangs where n did.
GrowAt(c, S, k, s, len, j, n2, big) ==
  /\ Tree(c, S) /\ s = Site(c, k) /\ s.n \in INodes /\ len = Len(c[s.n][Hdr].path)
  /\ prefix_mismatch(c[s.n], k, s.depth) = len /\ j = get_index(k, s.depth + len)
  /\ ~HasRoom(c[s.n]) /\ n2 \in INodes \ S /\ big = Bigger(c[s.n], j, Leaf(k))
LEMMA GrewExtended ==
  ASSUME NEW c, NEW S, NEW k \in Keys, NEW v, NEW s, NEW len, NEW j, NEW n2, NEW big,
         GrowAt(c, S, k, s, len, j, n2, big),
         NEW c2, Stored(c, c2, s.ref, n2, {n2}, k, v), Shows(c2[n2], big)
  PROVE  /\ Extended(c, c2, S, ((S \ {s.n}) \cup {n2}) \cup {Leaf(k)}, k, v, s.ref)
         /\ Leaf(k) \notin S /\ s.n \in S /\ DOMAIN big \subseteq TypeWords(big[Hdr].type)
<1> USE DEF GrowAt
<1>1. PICK u, u2 : u = View(c) /\ u2 = View(c2)
  OBVIOUS
<1>2. PICK dep, rep : L!Shape(Form, u, S, dep, rep)
  BY <1>1, TreeIs
<1>3. L!Branching(u, S) /\ AllLaid(c, S) /\ AllTight(c, S) /\ S \subseteq INodes \cup Leaves
  BY <1>1, TreeIs
<1>4. PICK n, nd, ref : n = s.n /\ nd = c[n] /\ ref = s.ref
  OBVIOUS
<1>5. Joins(u, S, dep, rep, k, n, j) /\ find_child(nd, j) = NULL /\ Leaf(k) \notin S
  BY <1>1, <1>2, <1>4, JoinsIs
<1>6. /\ n \in S \cap INodes /\ j \in Digit /\ Laid(nd) /\ n \notin Leaves /\ n # 0 /\ n # NULL
      /\ Leaf(k) # NULL /\ Leaf(k) \in Leaves /\ n2 # n /\ n2 # NULL /\ n2 # 0 /\ n2 \in INodes /\ n2 \notin S /\ Leaf(k) # n2
      /\ L!Through(u, dep, rep, n, j, k) /\ u[n][j] = NULL
  BY <1>3, <1>4, <1>5, ObjectsAre, ZenonT(30) DEF Joins, AllLaid
<1>7. /\ Laid(big) /\ big[Hdr] = Header(nd[Hdr].type + 1, nd[Hdr].path) /\ Live(big) \subseteq DOMAIN big
      /\ DOMAIN big \subseteq TypeWords(big[Hdr].type) /\ Live(big) \subseteq NodeWords
      /\ \A d \in Digit : find_child(big, d) = IF d = j THEN Leaf(k) ELSE find_child(nd, d)
  <2>1. /\ Laid(big) /\ big[Hdr] = Header(nd[Hdr].type + 1, nd[Hdr].path)
        /\ Live(big) \subseteq DOMAIN big /\ DOMAIN big \subseteq TypeWords(nd[Hdr].type + 1)
        /\ \A d \in Digit : find_child(big, d) = IF d = j THEN Leaf(k) ELSE find_child(nd, d)
    <3>1. Laid(nd) /\ ~HasRoom(nd) /\ j \in Digit /\ find_child(nd, j) = NULL /\ Leaf(k) # NULL
      BY <1>4, <1>5, <1>6
    <3>2. big = Bigger(nd, j, Leaf(k))
      BY <1>4
    <3> QED BY ONLY <3>1, <3>2, BiggerIs
  <2>2. big[Hdr].type = nd[Hdr].type + 1
    BY <2>1, HeaderIs
  <2>3. Live(big) \subseteq NodeWords
    BY <2>1, LiveWords, Zenon
  <2> QED BY <2>1, <2>2, <2>3, Zenon
<1>8. /\ Laid(c2[n2]) /\ c2[n2][Hdr] = Header(nd[Hdr].type + 1, nd[Hdr].path)
      /\ \A d \in Digit : find_child(c2[n2], d) = IF d = j THEN Leaf(k) ELSE find_child(nd, d)
  <2>1. \A w \in Live(big) : c2[n2][w] = big[w]
    BY <1>7, ZenonT(30) DEF Shows
  <2>2. /\ Laid(c2[n2]) /\ c2[n2][Hdr] = big[Hdr]
        /\ \A d \in Digit : find_child(c2[n2], d) = find_child(big, d)
    <3>1. Laid(big)
      BY <1>7
    <3> QED BY ONLY <2>1, <3>1, LiveSame
  <2> QED BY <1>7, <2>2, Zenon
<1>9. c2[n2][Hdr].type = nd[Hdr].type + 1 /\ c2[n2][Hdr].path = nd[Hdr].path
  BY <1>8, HeaderIs
<1>10. Tight(c2[n2])
  <2>1. ~HasRoom(nd)
    BY <1>4
  <2>2. Laid(c2[n2]) /\ c2[n2][Hdr].type = nd[Hdr].type + 1
    BY <1>8, <1>9
  <2>3. \A d \in Digit : find_child(c2[n2], d) = IF d = j THEN Leaf(k) ELSE find_child(nd, d)
    BY <1>8
  <2>4. Laid(nd) /\ j \in Digit /\ find_child(nd, j) = NULL /\ Leaf(k) # NULL
    BY <1>5, <1>6
  <2> QED BY ONLY <2>1, <2>2, <2>3, <2>4, BiggerTight
<1>11. /\ \E o \in L!Above(S) : \E w \in L!Ways(o) : SiteAt(c, u, dep, rep, k, s, o, w)
       /\ dep[n] = s.depth
  BY <1>1, <1>2, <1>4, <1>6, SiteIs
<1>12a. PICK o \in L!Above(S) : \E w \in L!Ways(o) : SiteAt(c, u, dep, rep, k, s, o, w)
  BY <1>11
<1>12. PICK w \in L!Ways(o) : SiteAt(c, u, dep, rep, k, s, o, w)
  BY <1>12a
<1>13. ref = Pointer(c, o, w) /\ n = u[o][w] /\ s.depth = L!Level(u, dep, o) /\ (o # 0 => u[o][w] # NULL)
  BY <1>4, <1>12 DEF SiteAt
<1>14. o # n
  BY <1>2, <1>6, <1>11, <1>13, Onward
<1>15. PICK R : R = S \ {n}
  OBVIOUS
<1>16. /\ R \subseteq S /\ R \subseteq INodes \cup Leaves /\ AllLaid(c, R) /\ AllTight(c, R) /\ o \in L!Above(R)
       /\ n2 \notin R /\ o # n2
  BY <1>3, <1>6, <1>14, <1>15 DEF AllLaid, AllTight, L!Above
<1>17. ref[1] = o /\ o \notin Leaves
  BY <1>1, <1>3, <1>13, PointerIs
<1>18. Still(c2, c, S, ref) /\ Revalued(c, c2, k, v) /\ c2[ref[1]][ref[2]] = n2 /\ c2[Leaf(k)][Key(0)] = k
  <2>1. {n2} \subseteq INodes \ S /\ {n2} \subseteq INodes /\ ref[1] \notin Leaves
    BY <1>17
  <2>0. Stored(c, c2, ref, n2, {n2}, k, v)
    BY <1>4
  <2>2. Still(c2, c, S, ref)
    BY <1>3, <1>5, <2>0, <2>1, StoredStill
  <2>3. Revalued(c, c2, k, v)
    BY <2>0, <2>1, StoredValues
  <2> QED BY <2>0, <2>2, <2>3 DEF Stored
<1>19. Still(c2, c, R, ref)
  BY <1>16, <1>18, Zenon DEF Still
<1>20. L!AlikeBut(u, u2, R, o, w) /\ u2[o][w] = n2 /\ AllLaid(c2, R) /\ AllTight(c2, R)
  BY <1>1, <1>6, <1>13, <1>16, <1>18, <1>19, RepointedIs
<1>21. PICK u1 : u1 = [q \in Objs |-> IF q = n2 THEN u[n] ELSE u2[q]]
  OBVIOUS
<1>22. u1[n2] = u[n] /\ \A q \in Objs : q # n2 => u1[q] = u2[q]
  BY <1>6, <1>21 DEF Objs
<1>23. /\ \A q \in L!Above(R) : q \in Objs /\ q # n2
       /\ \A m \in R : m \in Objs /\ m # n2
       /\ \A q \in L!Above(R) : q = 0 \/ q \in R
  BY <1>6, <1>16, Names DEF Objs, L!Above
<1>24. L!AlikeBut(u, u1, R, o, w) /\ u1[o][w] = n2
  BY <1>16, <1>20, <1>22, <1>23 DEF L!AlikeBut
<1>25. L!Replaced(u, u1, S, o, w, n, n2)
  BY <1>6, <1>13, <1>15, <1>22, <1>24, Names, Zenon DEF L!Replaced
<1>26. PICK T : T = (S \ {n}) \cup {n2}
  OBVIOUS
<1>27. PICK dep2, rep2 : /\ dep2 = [x \in T |-> IF x = n2 THEN dep[n] ELSE dep[x]]
                         /\ rep2 = [x \in T |-> IF x = n2 THEN rep[n] ELSE rep[x]]
  OBVIOUS
<1>28. L!Shape(Form, u1, T, dep2, rep2)
  BY <1>2, <1>25, <1>26, <1>27, Ground, L!Renamed
<1>29. L!Branching(u1, T)
  <2> SUFFICES ASSUME NEW q \in T \cap INodes
               PROVE  \E i, d \in Digit : i # d /\ u1[q][i] # NULL /\ u1[q][d] # NULL
    BY Names DEF L!Branching, Digit
  <2>1. CASE q = n2
    <3>1. \E i, d \in Digit : i # d /\ u[n][i] # NULL /\ u[n][d] # NULL
      BY <1>3, <1>6, Names DEF L!Branching, Digit
    <3> QED BY <1>22, <2>1, <3>1, Zenon
  <2>2. CASE q # n2
    <3>1. q \in R \cap INodes
      BY <1>15, <1>26, <2>2
    <3>2. L!Branching(u1, R)
      BY <1>3, <1>6, <1>16, <1>24, Ground, L!BranchingKept
    <3> QED BY <3>1, <3>2, Names DEF L!Branching, Digit
  <2> QED BY <2>1, <2>2
<1>30. Joins(u1, T, dep2, rep2, k, n2, j)
  <2>1. n2 \in T \cap INodes /\ dep2[n2] = dep[n] /\ rep2[n2] = rep[n]
    BY <1>6, <1>26, <1>27
  <2>2. L!End(u1, dep2, n2) = L!End(u, dep, n)
    BY <1>22, <2>1 DEF L!End
  <2>3. L!Through(u1, dep2, rep2, n2, j, k)
    BY <1>6, <2>1, <2>2, Zenon DEF L!Through
  <2> QED BY <1>6, <1>22, <2>1, <2>3 DEF Joins
<1>31. /\ u2[n2][FAN] = u[n][FAN] /\ \A d \in Digit : d # j => u2[n2][d] = u[n][d]
       /\ u2[n2][j] = Leaf(k) /\ u2[Leaf(k)][1] = k
  <2>1. /\ u2[n2][FAN] = HeaderView(c2[n2][Hdr].path) /\ \A d \in Digit : u2[n2][d] = find_child(c2[n2], d)
        /\ u[n][FAN] = HeaderView(nd[Hdr].path) /\ \A d \in Digit : u[n][d] = find_child(nd, d)
        /\ u2[Leaf(k)][1] = c2[Leaf(k)][Key(0)]
    BY <1>1, <1>4, <1>6, ViewIs DEF Digit
  <2> QED BY <1>6, <1>8, <1>9, <1>18, <2>1
<1>32. L!AlikeBut(u1, u2, T, n2, j)
  <2>1. \A q \in L!Above(T) : q = n2 \/ q \in L!Above(R)
    BY <1>15, <1>26 DEF L!Above
  <2>2. \A q \in L!Above(T) : \A d \in L!Ways(q) : <<q, d>> # <<n2, j>> => u2[q][d] = u1[q][d]
    <3> SUFFICES ASSUME NEW q \in L!Above(T), NEW d \in L!Ways(q), <<q, d>> # <<n2, j>> PROVE u2[q][d] = u1[q][d]
      OBVIOUS
    <3>1. CASE q = n2
      <4>1. d \in Digit /\ d # j
        BY <1>6, <3>1, Names DEF L!Ways, Digit
      <4> QED BY <1>22, <1>31, <3>1, <4>1, Zenon
    <3>2. CASE q # n2
      BY <1>22, <1>23, <2>1, <3>2
    <3> QED BY <3>1, <3>2
  <2>3. \A q \in T \cap INodes : u2[q][FAN] = u1[q][FAN]
    <3> SUFFICES ASSUME NEW q \in T \cap INodes PROVE u2[q][FAN] = u1[q][FAN]
      OBVIOUS
    <3>1. q = n2 \/ (q \in Objs /\ q # n2)
      BY <1>15, <1>23, <1>26
    <3> QED BY <1>22, <1>31, <3>1
  <2>4. \A m \in T \cap Leaves : u2[m][1] = u1[m][1]
    <3> SUFFICES ASSUME NEW m \in T \cap Leaves PROVE u2[m][1] = u1[m][1]
      OBVIOUS
    <3>1. m # n2 /\ m \in Objs
      BY <1>6, ObjectsAre DEF Objs
    <3> QED BY <1>22, <3>1
  <2> QED BY <2>2, <2>3, <2>4, Names DEF L!AlikeBut
<1>33. Leaf(k) \notin T
  BY <1>5, <1>6, <1>26, Zenon
<1>34. L!Tree(Form, u2, T \cup {Leaf(k)})
  BY <1>28, <1>29, <1>30, <1>31, <1>32, <1>33, JoinedTree
<1>35. AllLaid(c2, T \cup {Leaf(k)}) /\ AllTight(c2, T \cup {Leaf(k)})
  <2> SUFFICES ASSUME NEW q \in (T \cup {Leaf(k)}) \cap INodes PROVE Laid(c2[q]) /\ Tight(c2[q])
    BY DEF AllLaid, AllTight
  <2>1. q = n2 \/ q \in R \cap INodes
    BY <1>15, <1>26, ObjectsAre
  <2> QED BY <1>8, <1>10, <1>20, <2>1 DEF AllLaid, AllTight
<1>36. Tree(c2, T \cup {Leaf(k)})
  BY <1>1, <1>34, <1>35 DEF Tree
<1>37. (T \cup {Leaf(k)}) \cap Leaves = (S \cap Leaves) \cup {Leaf(k)}
  BY <1>6, <1>26, ObjectsAre
<1>38. Extended(c, c2, S, T \cup {Leaf(k)}, k, v, ref)
  BY <1>18, <1>36, <1>37 DEF Extended
<1> QED BY <1>4, <1>5, <1>6, <1>7, <1>26, <1>38, Zenon
-----------------------------------------------------------------------------
(* Write-backs *)

\* A write-back of the lines K, begun or done.
Written(m, f, K) ==
  /\ f.cache = m.cache
  /\ \A o \in DOMAIN m.cache : \A w \in DOMAIN m.cache[o] :
       /\ f.nvm[o][w] \in {m.nvm[o][w], m.cache[o][w]}
       /\ <<o, w>> \notin K => f.nvm[o][w] = m.nvm[o][w]

\* A write-back is one.
LEMMA WriteBackWords ==
  ASSUME NEW m, NEW L0, NEW K, Sound(m, L0)
  PROVE  Written(m, WriteBack(m, K), K)
BY DEF Written, Sound, Shaped, WriteBack

\* So is flush_buffer without fences.
LEMMA FlushWords ==
  ASSUME NEW m, NEW L0, NEW K, Sound(m, L0)
  PROVE  Written(m, flush_buffer(m, K, FALSE), K)
<1>1. flush_buffer(m, K, FALSE) = Clflush(m, K)
  BY DEF flush_buffer
<1>2. /\ [m EXCEPT !.pend = @ \cup K].nvm = m.nvm
      /\ [m EXCEPT !.pend = @ \cup K].cache = m.cache
  BY DEF Sound, Shaped
<1>3. Written(m, [m EXCEPT !.pend = @ \cup K], K)
  BY <1>2 DEF Written
<1> QED BY <1>1, <1>3, WriteBackWords DEF Clflush

\* What a write-back of lines outside the tree leaves of it.
LEMMA WrittenTree ==
  ASSUME NEW m, NEW f, NEW K, Written(m, f, K), Framed(m.cache),
         NEW S, NEW ref, Tree(m.nvm, S), Still(m.cache, m.nvm, S, ref), ref \notin K
  PROVE  /\ Tree(f.nvm, S) /\ (Valued(m.nvm, S) => Valued(f.nvm, S)) /\ ContentOf(f.nvm) = ContentOf(m.nvm)
         /\ Still(f.cache, f.nvm, S, ref) /\ f.cache = m.cache /\ Lines(f) = Lines(m)
         /\ \A o \in {0} \cup S : \A w \in Words(f.nvm, o) : f.nvm[o][w] = m.nvm[o][w]
         /\ \A o \in {0} \cup S : Words(f.nvm, o) = Words(m.nvm, o)
<1>1. PICK c, n, n2 : c = m.cache /\ n = m.nvm /\ n2 = f.nvm
  OBVIOUS
<1>2. Tree(n, S) /\ Still(c, n, S, ref)
  BY <1>1
<1>3. S \subseteq INodes \cup Leaves /\ AllLaid(n, S)
  BY <1>2, TreeIs
<1>4. ASSUME NEW q \in Objs, NEW u \in Fields(q)
      PROVE n2[q][u] \in {n[q][u], c[q][u]} /\ (<<q, u>> \notin K => n2[q][u] = n[q][u])
  BY <1>1 DEF Framed, Written
<1>5. \A o \in {0} \cup S : \A w \in Words(n, o) : n2[o][w] = n[o][w]
  <2> SUFFICES ASSUME NEW o \in {0} \cup S, NEW w \in Words(n, o) PROVE n2[o][w] = n[o][w]
    OBVIOUS
  <2>1. o \in Objs /\ w \in Fields(o)
    BY <1>3, WordsIn
  <2>2. CASE <<o, w>> = ref
    BY <1>4, <2>1, <2>2
  <2>3. CASE <<o, w>> # ref
    <3>1. c[o][w] = n[o][w]
      BY <1>2, <2>3 DEF Still
    <3> QED BY <1>4, <2>1, <3>1
  <2> QED BY <2>2, <2>3
<1>6. Tree(n2, S) /\ ContentOf(n2) = ContentOf(n) /\ (Valued(n, S) => Valued(n2, S))
      /\ \A o \in {0} \cup S : Words(n2, o) = Words(n, o)
  BY <1>2, <1>5, StillTree
<1>7. Still(c, n2, S, ref)
  BY <1>2, <1>5, <1>6 DEF Still
<1>8. f.cache = m.cache /\ Lines(f) = Lines(m)
  BY DEF Lines, Written
<1> QED BY <1>1, <1>5, <1>6, <1>7, <1>8

-----------------------------------------------------------------------------
(* The site, again *)

\* recursive_insert goes the same way where no node was written.
LEMMA SiteSame ==
  ASSUME NEW c, NEW k \in Keys, NEW c2,
         c2[0][Child(0)] = c[0][Child(0)], \A n \in INodes : c2[n] = c[n]
  PROVE  Site(c2, k) = Site(c, k)
<1> DEFINE x == [ref |-> Root, n |-> c[0][Child(0)], depth |-> 0]
<1>1. ASSUME NEW t PROVE Deeper(c2, k, t) = Deeper(c, k, t)
  BY DEF Deeper
<1>2. x = [ref |-> Root, n |-> c2[0][Child(0)], depth |-> 0]
  OBVIOUS
<1> DEFINE P(h) == h = [j \in 0 .. MAX_HEIGHT |-> IF j = 0 THEN x ELSE Deeper(c, k, h[j - 1])]
           Q(h) == h = [j \in 0 .. MAX_HEIGHT |-> IF j = 0 THEN x ELSE Deeper(c2, k, h[j - 1])]
<1>3. Site(c, k) = (CHOOSE h : P(h))[MAX_HEIGHT]
  BY DEF Site
<1>4. Site(c2, k) = (CHOOSE h : Q(h))[MAX_HEIGHT]
  BY <1>2 DEF Site
<1>5. ASSUME NEW h PROVE P(h) <=> Q(h)
  <2>1. ASSUME NEW j \in 0 .. MAX_HEIGHT
        PROVE  (IF j = 0 THEN x ELSE Deeper(c, k, h[j - 1])) = (IF j = 0 THEN x ELSE Deeper(c2, k, h[j - 1]))
    BY <1>1
  <2> QED BY <2>1
<1> HIDE DEF P, Q
<1>6. (CHOOSE h : P(h)) = (CHOOSE h : Q(h))
  BY <1>5
<1> QED BY <1>3, <1>4, <1>6
-----------------------------------------------------------------------------
(* The invariant *)

\* Lines whose flush the operation in progress still owes.
Owed == IF pc \in {"flush", "entry"} THEN at.new \cup {at.ref}
        ELSE IF pc = "publish" THEN {at.ref} ELSE {}

\* c holds the words of n's tree S.
Kept(c, n, S) == \A o \in {0} \cup S : \A w \in Words(n, o) : c[o][w] = n[o][w]

\* S is the tree on the medium, S2 the one in the cache.
Trees(S, S2) ==
  /\ Framed(mem.cache) /\ Tree(mem.nvm, S) /\ Tree(mem.cache, S2)
  /\ Valued(mem.nvm, S) /\ Valued(mem.cache, S2)

\* What is known of at where a node was not given back early.
Sheltered == at.early = {} /\ at = [new |-> at.new, ref |-> at.ref, freed |-> at.freed, early |-> at.early]

\* Between Build and Publish: one word of the medium's tree is to be written.
Begun(S, S2) ==
  /\ Sheltered /\ op \in Durable!Ops /\ at.ref \in Lines(mem) /\ at.ref \notin at.new
  /\ at.freed \subseteq used /\ used \subseteq INodes /\ used \ at.freed = S2 \cap INodes
  /\ Still(mem.cache, mem.nvm, S, at.ref)
  /\ ContentOf(mem.cache) = [ContentOf(mem.nvm) EXCEPT ![op.key] = op.value]

\* The key's leaf is built and the node known that it will be a child of.
LeafWaits(c, k, v) ==
  /\ c[Leaf(k)][Value] = v /\ c[Leaf(k)][Key(0)] = k
  /\ Site(c, k).n \in INodes
  /\ prefix_mismatch(c[Site(c, k).n], k, Site(c, k).depth) = Len(c[Site(c, k).n][Hdr].path)
Add(S, S2) ==
  /\ op \in Durable!Ops /\ op.value # NULL /\ S2 = S /\ at = NoLocals /\ used = S \cap INodes
  /\ Kept(mem.cache, mem.nvm, S) /\ LeafWaits(mem.cache, op.key, op.value)

Idle(S, S2) == op = NoOp /\ at = NoLocals /\ used = S \cap INodes

Done(S, S2) ==
  /\ Sheltered /\ op \in Durable!Ops /\ ContentOf(mem.nvm)[op.key] = op.value
  /\ at.ref \in Lines(mem) /\ at.freed \subseteq used /\ used \subseteq INodes /\ used \ at.freed = S \cap INodes

Lost(S, S2) == op = Down /\ at = NoLocals /\ used \subseteq INodes

\* How they differ in each phase.
Phase(S, S2) ==
  \/ pc \in {"flush", "entry", "publish"} /\ Begun(S, S2)
  \/ pc = "add" /\ Add(S, S2)
  \/ pc = "idle" /\ Idle(S, S2)
  \/ pc = "return" /\ Done(S, S2)
  \/ pc = "down" /\ Lost(S, S2)

\* From SplitPrefix to Publish, where the node given back was overwritten: what the
\* medium leads to is not known, the tree in the cache is S2.
Risked(S2) ==
  /\ pc \in {"flush", "publish"} /\ Exposed /\ op \in Durable!Ops
  /\ at = [new |-> at.new, ref |-> at.ref, freed |-> {}, early |-> at.early]
  /\ Framed(mem.cache) /\ Tree(mem.cache, S2) /\ Valued(mem.cache, S2)
  /\ ContentOf(mem.cache)[op.key] = op.value
  /\ at.ref \in Lines(mem) /\ used = S2 \cap INodes
Ruined ==
  /\ pc = "down" /\ Exposed /\ op = Down
  /\ used \subseteq INodes /\ at.freed = {} /\ at.ref \in Lines(mem)

\* The inductive invariant: what is owed, and a tree on the medium and one in the
\* cache that differ as the operation in progress has it; only the one in the cache
\* where the medium's may be overwritten, and none once power is lost there.
RInv ==
  /\ Sound(mem, Owed)
  /\ pc \in {"idle", "return", "down"} => mem.nvm = mem.cache
  /\ \/ \E S, S2 : Trees(S, S2) /\ Phase(S, S2)
     \/ \E S2 : Risked(S2)
     \/ Ruined

\* The trees of a state in which no node was given back early.
LEMMA TreesAre ==
  ASSUME RInv, ~Exposed \/ pc \in {"idle", "add", "entry", "return"}
  PROVE  at.early = {} /\ \E S, S2 : Trees(S, S2) /\ Phase(S, S2)
<1>1. PICK S, S2 : Trees(S, S2) /\ Phase(S, S2)
  BY DEF RInv, Risked, Ruined
<1>2. at.early = {}
  BY <1>1 DEF Phase, Begun, Done, Add, Idle, Lost, Sheltered, NoLocals
<1> QED BY <1>1, <1>2
LEMMA TreesElse ==
  ASSUME RInv, Exposed
  PROVE  Ruined \/ \E S2 : Risked(S2)
<1>1. ASSUME NEW S, NEW S2, Phase(S, S2) PROVE FALSE
  BY <1>1 DEF Exposed, Phase, Begun, Done, Add, Idle, Lost, Sheltered, NoLocals
<1> QED BY <1>1 DEF RInv

\* A step of the durable map, or none, but for a loss of power where the medium's
\* tree may be overwritten.
MapStep == [Durable!Next \/ LostWhileExposed]_<<MediumContent, op>>

\* DurableMap's variables, now and in the next state.
LEMMA MapIs ==
  /\ at.early = {} \/ pc = "down" => MediumContent = ContentOf(mem.nvm)
  /\ Exposed /\ pc # "down" => MediumContent = [ContentOf(mem.cache) EXCEPT ![op.key] = NULL]
  /\ Durable!vars = <<MediumContent, op>>
BY DEF MediumContent, ContentOf, Exposed, Durable!vars
LEMMA MapWillBe ==
  /\ at'.early = {} \/ pc' = "down" => MediumContent' = ContentOf(mem'.nvm)
  /\ Exposed' /\ pc' # "down" => MediumContent' = [ContentOf(mem'.cache) EXCEPT ![op'.key] = NULL]
BY DEF MediumContent, ContentOf, Exposed

\* No call's value is NULL.
LEMMA CallsAre ==
  /\ \A a \in Inserts \cup Updates : a[1] \in Keys /\ a[2] \in Values
  /\ NULL \notin Values
BY PARTAssumption

\* The tree in the cache, in the middle of an insert, of the medium's words.
LEMMA KeptTree ==
  ASSUME NEW c, NEW n, NEW S, Tree(n, S), Kept(c, n, S)
  PROVE  /\ Tree(c, S) /\ ContentOf(c) = ContentOf(n)
         /\ \A o \in {0} \cup S : Words(c, o) = Words(n, o)
BY StillTree DEF Kept

\* What the tree that an insert makes holds.
LEMMA ExtendedValued ==
  ASSUME NEW c, NEW c2, NEW S, NEW S2, NEW k \in Keys, NEW v \in Values, NEW ref,
         Tree(c, S), Valued(c, S), Extended(c, c2, S, S2, k, v, ref)
  PROVE  ContentOf(c2) = After(ContentOf(c), k, v) /\ Valued(c2, S2) /\ Tree(c2, S2)
<1>1. v # NULL
  BY CallsAre
<1>2. Tree(c2, S2)
  BY DEF Extended
<1> QED BY <1>1, <1>2, ExtendedContent

\* Stores that make S2 of S: the operation is on its way.
LEMMA BuildStep ==
  ASSUME Sound(mem, {}), NEW S, Trees(S, S), Kept(mem.cache, mem.nvm, S),
         NEW k \in Keys, NEW v \in Values,
         NEW st, NEW first, NEW ref, NEW freed, NEW next, Build(st, first, ref, freed, {}, next),
         next \in {"flush", "entry", "publish"}, next = "publish" => first = {},
         ref \notin first, DOMAIN st \subseteq first \cup {ref}, ref \in Lines(mem),
         NEW S2, NEW c, c = mem.cache, NEW c2, c2 = Store(mem, st).cache, Extended(c, c2, S, S2, k, v, ref),
         op'.key = k, op'.value = v, op' \in Durable!Ops,
         freed \subseteq used', used' \subseteq INodes, used' \ freed = S2 \cap INodes
  PROVE  RInv' /\ at'.early = {} /\ ContentOf(mem'.nvm) = ContentOf(mem.nvm)
<1>1. PICK n, m, f : n = mem.nvm /\ m = mem /\ f = Store(m, st)
  OBVIOUS
<1>2. /\ mem' = f /\ at' = [new |-> first, ref |-> ref, freed |-> freed, early |-> {}] /\ pc' = next
  BY <1>1 DEF Build
<1>3. Sound(m, {}) /\ m.cache = c /\ m.nvm = n
  BY <1>1
<1>4. Framed(c) /\ Tree(n, S) /\ Tree(c, S) /\ Valued(n, S) /\ Valued(c, S) /\ Kept(c, n, S)
  BY <1>1 DEF Trees
<1>5. f.nvm = n /\ Framed(f.cache) /\ Lines(f) = Lines(m) /\ f.cache = c2
  <2>1. f.nvm = m.nvm /\ Framed(f.cache) /\ Lines(f) = Lines(m)
    BY <1>1, <1>3, <1>4, StoreWords
  <2> QED BY <1>1, <1>3, <2>1
<1>6. ContentOf(c2) = After(ContentOf(c), k, v) /\ Valued(c2, S2) /\ Tree(c2, S2)
  <2>1. Tree(c, S) /\ Valued(c, S) /\ k \in Keys /\ v \in Values /\ Extended(c, c2, S, S2, k, v, ref)
    BY <1>4
  <2> QED BY ONLY <2>1, ExtendedValued
<1>7. ContentOf(c) = ContentOf(n) /\ \A o \in {0} \cup S : Words(c, o) = Words(n, o)
  BY <1>4, KeptTree
<1>8. Still(c2, n, S, ref)
  <2>1. Still(c2, c, S, ref)
    BY DEF Extended
  <2>2. ASSUME NEW o \in {0} \cup S, NEW w \in Words(n, o), <<o, w>> # ref PROVE c2[o][w] = n[o][w]
    <3>1. Words(c, o) = Words(n, o) /\ c[o][w] = n[o][w]
      BY <1>4, <1>7 DEF Kept
    <3> QED BY ONLY <2>1, <2>2, <3>1 DEF Still
  <2> QED BY ONLY <2>2 DEF Still
<1>9. at'.new = first /\ at'.ref = ref /\ at'.freed = freed /\ at'.early = {}
  BY <1>2
<1>10. mem'.cache = c2 /\ mem'.nvm = n /\ Lines(mem') = Lines(mem)
  BY <1>1, <1>2, <1>5
<1>11. Sound(f, first \cup {ref})
  <2>1. Sound(Store(m, st), {} \cup DOMAIN st)
    BY <1>3, StoreSound
  <2>2. {} \cup DOMAIN st \subseteq first \cup {ref}
    OBVIOUS
  <2> QED BY <1>1, <2>1, <2>2, SoundMore
<1>12. Owed' = first \cup {ref}
  <2>1. CASE next = "publish"
    BY <1>2, <1>9, <2>1 DEF Owed
  <2>2. CASE next # "publish"
    BY <1>2, <1>9, <2>2 DEF Owed
  <2> QED BY <2>1, <2>2
<1>13. Sound(mem', Owed')
  BY <1>2, <1>11, <1>12
<1>14. Trees(S, S2)'
  BY <1>4, <1>5, <1>6, <1>10 DEF Trees
<1>15. Begun(S, S2)'
  <2>1. at'.ref \in Lines(mem') /\ at'.ref \notin at'.new
    BY <1>9, <1>10
  <2>2. Still(mem'.cache, mem'.nvm, S, at'.ref)
    BY <1>8, <1>9, <1>10
  <2>3. ContentOf(mem'.cache) = [ContentOf(mem'.nvm) EXCEPT ![op'.key] = op'.value]
    BY <1>6, <1>7, <1>10 DEF After
  <2>4. at'.freed \subseteq used' /\ used' \subseteq INodes /\ used' \ at'.freed = S2 \cap INodes
    BY <1>9
  <2>5. Sheltered'
    BY <1>2, <1>9 DEF Sheltered
  <2> QED BY <2>1, <2>2, <2>3, <2>4, <2>5 DEF Begun
<1>16. pc' \notin {"idle", "return", "down"} /\ pc' \in {"flush", "entry", "publish"}
  BY <1>2
<1>17. RInv'
  BY <1>13, <1>14, <1>15, <1>16 DEF RInv, Phase
<1> QED BY <1>1, <1>9, <1>10, <1>17
-----------------------------------------------------------------------------
(* What the inserts store *)

\* The pointer a key comes to is a word of the tree.
PointsAt(c, S, ref) ==
  /\ ref = <<ref[1], ref[2]>> /\ ref[1] \in Objs /\ ref[1] \in {0} \cup S /\ ref[1] \notin Leaves
  /\ ref[2] \in Fields(ref[1])
LEMMA SiteRef ==
  ASSUME NEW c, NEW S, Tree(c, S), NEW k \in Keys, NEW s, s = Site(c, k)
  PROVE  PointsAt(c, S, s.ref) /\ s.n \in S \cup {NULL} /\ (s.n = NULL => s.ref = Root)
<1>1. PICK v : v = View(c)
  OBVIOUS
<1>2. PICK dep, rep : L!Shape(Form, v, S, dep, rep)
  BY <1>1, TreeIs
<1>3. /\ \E o \in L!Above(S) : \E w \in L!Ways(o) : SiteAt(c, v, dep, rep, k, s, o, w)
      /\ s.n \in S \cup {NULL}
  BY <1>1, <1>2, SiteIs
<1>4. PICK o \in L!Above(S) : \E w \in L!Ways(o) : SiteAt(c, v, dep, rep, k, s, o, w)
  BY <1>3
<1>5. PICK w \in L!Ways(o) : SiteAt(c, v, dep, rep, k, s, o, w)
  BY <1>4
<1>6. PICK ref : ref = s.ref
  OBVIOUS
<1>7. ref = Pointer(c, o, w) /\ (o # 0 => v[o][w] # NULL) /\ s.n = v[o][w]
  BY <1>5, <1>6 DEF SiteAt
<1>8. S \subseteq INodes \cup Leaves /\ AllLaid(c, S)
  BY <1>1, TreeIs
<1>9. PointsAt(c, S, ref)
  BY <1>1, <1>7, <1>8, PointerIs DEF PointsAt
<1>10. s.n = NULL => ref = Root
  BY <1>7 DEF Pointer
<1> QED BY <1>3, <1>6, <1>9, <1>10

\* The lines of what is stored.
LEMMA InBoth ==
  ASSUME NEW f, NEW g, NEW e, e \in DOMAIN Both(f, g)
  PROVE  e \in DOMAIN f \/ e \in DOMAIN g
BY DEF Both
LEMMA InWord ==
  ASSUME NEW l, NEW x, NEW e, e \in DOMAIN Word(l, x)
  PROVE  e = l
BY DEF Word
LEMMA InObject ==
  ASSUME NEW o, NEW x, NEW e, e \in DOMAIN Object(o, x)
  PROVE  e \in {o} \X DOMAIN x
BY DEF Object
LEMMA InLeaf ==
  ASSUME NEW k, NEW v, NEW e, e \in DOMAIN Object(Leaf(k), MakeLeaf(k, v))
  PROVE  e \in LeafLines(k)
BY DEF Object, MakeLeaf, Both, Word, LeafLines
LEMMA LeafWords ==
  ASSUME NEW k, NEW v
  PROVE  DOMAIN MakeLeaf(k, v) = {Value, Key(0)}
BY DEF MakeLeaf, Both, Word

\* The objects' lines.
LEMMA LinesAre ==
  ASSUME NEW m, Framed(m.cache), NEW c, NEW S, NEW ref, PointsAt(c, S, ref) \/ \E o \in Objs : \E w \in Fields(o) : ref = <<o, w>>
  PROVE  ref \in Lines(m)
<1>1. PICK o \in Objs : \E w \in Fields(o) : ref = <<o, w>>
  BY DEF PointsAt
<1>2. o \in DOMAIN m.cache /\ ref \in {o} \X DOMAIN m.cache[o]
  BY <1>1 DEF Framed
<1> QED BY <1>2 DEF Lines

\* Of the objects that are not new, the stores R are to the leaf of k.
ToLeaf(c, R, news, k, v) ==
  \A q \in Objs : q \notin news => \A u \in Fields(q) :
    Put(R, <<q, u>>, c[q][u]) = IF q = Leaf(k) THEN MakeLeaf(k, v)[u] ELSE c[q][u]

\* A pointer and a leaf.
LEMMA LeafStored ==
  ASSUME NEW c, NEW S, NEW ref, PointsAt(c, S, ref), NEW k \in Keys, NEW v, NEW x, NEW R,
         NEW c2, Wrote(c, c2, Both(Word(ref, x), R)), NEW news, ToLeaf(c, R, news, k, v),
         news \subseteq INodes
  PROVE  /\ Stored(c, c2, ref, x, news, k, v)
         /\ \A q \in Objs : \A u \in Fields(q) : <<q, u>> # ref => c2[q][u] = Put(R, <<q, u>>, c[q][u])
<1>1. ASSUME NEW q \in Objs, NEW u \in Fields(q)
      PROVE  c2[q][u] = IF <<q, u>> = ref THEN x ELSE Put(R, <<q, u>>, c[q][u])
  <2>1. c2[q][u] = Put(Both(Word(ref, x), R), <<q, u>>, c[q][u])
    BY DEF Wrote
  <2>2. c2[q][u] = Put(Word(ref, x), <<q, u>>, Put(R, <<q, u>>, c[q][u]))
    BY <2>1, PutBoth
  <2> QED BY <2>2, PutWord
<1>2. c2[ref[1]][ref[2]] = x
  BY <1>1 DEF PointsAt
<1>3. \A q \in Objs : \A u \in Fields(q) : <<q, u>> # ref => c2[q][u] = Put(R, <<q, u>>, c[q][u])
  BY <1>1
<1>4. Leaf(k) \in Objs /\ Leaf(k) \notin news /\ Value \in Fields(Leaf(k)) /\ Key(0) \in Fields(Leaf(k))
      /\ \A u : <<Leaf(k), u>> # ref
  BY ObjectsAre DEF Objs, Fields, PointsAt
<1>5. MakeLeaf(k, v)[Value] = v /\ MakeLeaf(k, v)[Key(0)] = k
  BY PutLeaf, LeafWords DEF Put
<1>6. c2[Leaf(k)][Value] = v /\ c2[Leaf(k)][Key(0)] = k
  BY <1>3, <1>4, <1>5 DEF ToLeaf
<1>7. ASSUME NEW q \in Objs, q \notin news, q # Leaf(k), NEW u \in Fields(q), <<q, u>> # ref PROVE c2[q][u] = c[q][u]
  BY <1>3, <1>7 DEF ToLeaf
<1> QED BY <1>2, <1>3, <1>6, <1>7 DEF Stored

\* What it holds of a leaf.
LEMMA LeafPut ==
  ASSUME NEW k \in Keys, NEW v, NEW q \in Objs, NEW u \in Fields(q), NEW y
  PROVE  Put(Object(Leaf(k), MakeLeaf(k, v)), <<q, u>>, y) = IF q = Leaf(k) THEN MakeLeaf(k, v)[u] ELSE y
<1>1. CASE q = Leaf(k)
  <2>1. u \in DOMAIN MakeLeaf(k, v)
    BY <1>1, LeafWords, ObjectsAre DEF Fields
  <2> QED BY <1>1, <2>1, PutObject DEF Put
<1>2. CASE q # Leaf(k)
  BY <1>2, PutObject
<1> QED BY <1>1, <1>2
-----------------------------------------------------------------------------
(* The steps *)

\* Between operations the medium's tree is the cache's.
LEMMA AtRest ==
  ASSUME RInv, pc = "idle"
  PROVE  /\ Sound(mem, {}) /\ op = NoOp /\ at = NoLocals /\ at.early = {}
         /\ \E S : Trees(S, S) /\ used = S \cap INodes /\ Kept(mem.cache, mem.nvm, S)
<1>1. at.early = {} /\ \E S, S2 : Trees(S, S2) /\ Phase(S, S2)
  BY TreesAre
<1>0. PICK S, S2 : Trees(S, S2) /\ Phase(S, S2)
  BY <1>1
<1>2. mem.nvm = mem.cache /\ Sound(mem, {})
  BY DEF RInv, Owed
<1>3. Idle(S, S2)
  BY <1>0 DEF Phase
<1>4. Trees(S, S) /\ Kept(mem.cache, mem.nvm, S)
  BY <1>0, <1>2 DEF Trees, Kept
<1> QED BY <1>1, <1>2, <1>3, <1>4 DEF Idle

\* An operation begins.
LEMMA Begins ==
  ASSUME op = NoOp, op' \in Durable!Ops, MediumContent' = MediumContent
  PROVE  MapStep
<1>1. op = Durable!NoOp
  BY DEF NoOp, Durable!NoOp
<1>2. Durable!Begin
  BY <1>1 DEF Durable!Begin
<1> QED BY <1>2 DEF MapStep, Durable!Next
LEMMA BeginMap ==
  ASSUME op = NoOp, op' \in Durable!Ops, at.early = {}, at'.early = {}, ContentOf(mem'.nvm) = ContentOf(mem.nvm)
  PROVE  MapStep
<1>1. MediumContent' = MediumContent
  BY MapIs, MapWillBe
<1> QED BY <1>1, Begins

\* The operation of a call.
LEMMA CallIs ==
  ASSUME NEW k \in Keys, NEW v \in Values, NEW kind \in {"Insert", "Update"}, Begin(kind, k, v)
  PROVE  op' \in Durable!Ops /\ op'.key = k /\ op'.value = v
BY DEF Begin, Durable!Ops

\* The cache after a store.
LEMMA Storing ==
  ASSUME Sound(mem, {}), NEW S, Trees(S, S), NEW c, c = mem.cache, NEW st, NEW c2, c2 = Store(mem, st).cache
  PROVE  Wrote(c, c2, st) /\ Framed(c) /\ Tree(c, S) /\ S \subseteq INodes \cup Leaves
<1>1. PICK m, f : m = mem /\ f = Store(m, st)
  OBVIOUS
<1>2. Sound(m, {}) /\ Framed(m.cache) /\ m.cache = c /\ f.cache = c2
  BY <1>1 DEF Trees
<1>3. Wrote(m.cache, f.cache, st)
  BY <1>1, <1>2, StoreWords
<1>4. Tree(c, S)
  BY DEF Trees
<1>5. S \subseteq INodes \cup Leaves
  BY <1>4, TreeIs
<1> QED BY <1>2, <1>3, <1>4, <1>5

\* InsertRoot (PART.c, recursive_insert at a null pointer).
LEMMA StepInsertRoot ==
  ASSUME RInv, NEW k \in Keys, NEW v \in Values, InsertRoot(k, v)
  PROVE  RInv' /\ MapStep
<1>1. pc = "idle" /\ used' = used /\ Begin("Insert", k, v) /\ mem.cache[0][Child(0)] = NULL
  BY DEF InsertRoot
<1>2. Sound(mem, {}) /\ op = NoOp /\ at.early = {}
  BY <1>1, AtRest
<1>3. PICK S : Trees(S, S) /\ used = S \cap INodes /\ Kept(mem.cache, mem.nvm, S)
  BY <1>1, AtRest
<1>4. PICK c, R, st, c2 :
        /\ c = mem.cache /\ R = Object(Leaf(k), MakeLeaf(k, v)) /\ st = Both(Word(Root, Leaf(k)), R)
        /\ c2 = Store(mem, st).cache
  OBVIOUS
<1>5. Build(st, LeafLines(k), Root, {}, {}, "flush")
  BY <1>4 DEF InsertRoot
<1>6. Wrote(c, c2, st) /\ Framed(c) /\ Tree(c, S) /\ S \subseteq INodes \cup Leaves
  BY <1>2, <1>3, <1>4, Storing
<1>7. PointsAt(c, S, Root)
  BY ObjectsAre DEF PointsAt, Root, Objs, Fields
<1>8. Stored(c, c2, Root, Leaf(k), {}, k, v)
  <2>4. PICK none : none = {}
    OBVIOUS
  <2>1. ToLeaf(c, R, none, k, v)
    BY <1>4, LeafPut DEF ToLeaf
  <2>2. Wrote(c, c2, Both(Word(Root, Leaf(k)), R))
    BY <1>4, <1>6
  <2>3. none \subseteq INodes /\ k \in Keys
    BY <2>4
  <2>5. Stored(c, c2, Root, Leaf(k), none, k, v)
    BY ONLY <1>7, <2>1, <2>2, <2>3, LeafStored
  <2> QED BY <2>4, <2>5
<1>9. Extended(c, c2, S, S \cup {Leaf(k)}, k, v, Root)
  <2>1. c[0][Child(0)] = NULL
    BY <1>1, <1>4
  <2> QED BY <1>6, <1>8, <2>1, RootExtended
<1>10. Root \notin LeafLines(k) /\ DOMAIN st \subseteq LeafLines(k) \cup {Root}
  <2>1. ASSUME NEW e \in DOMAIN st PROVE e \in LeafLines(k) \cup {Root}
    <3>1. e \in DOMAIN Word(Root, Leaf(k)) \/ e \in DOMAIN Object(Leaf(k), MakeLeaf(k, v))
      BY <1>4, InBoth
    <3> QED BY <3>1, InWord, InLeaf
  <2> QED BY <2>1, ObjectsAre DEF LeafLines, Root
<1>11. Root \in Lines(mem)
  <2>1. Framed(mem.cache)
    BY <1>4, <1>6
  <2> QED BY <1>7, <2>1, LinesAre
<1>12. {} \subseteq used' /\ used' \subseteq INodes /\ used' \ {} = (S \cup {Leaf(k)}) \cap INodes
  BY <1>1, <1>3, ObjectsAre
<1>13. op' \in Durable!Ops /\ op'.key = k /\ op'.value = v
  BY <1>1, CallIs
<1>14. RInv' /\ at'.early = {} /\ ContentOf(mem'.nvm) = ContentOf(mem.nvm)
  BY <1>2, <1>3, <1>4, <1>5, <1>9, <1>10, <1>11, <1>12, <1>13, BuildStep
<1> QED BY <1>2, <1>13, <1>14, BeginMap

\* Update (PART.c, recursive_insert at the key's own leaf).
LEMMA StepUpdate ==
  ASSUME RInv, NEW k \in Keys, NEW v \in Values, Update(k, v)
  PROVE  RInv' /\ MapStep
<1>1. pc = "idle" /\ used' = used /\ Begin("Update", k, v) /\ Site(mem.cache, k).n = Leaf(k)
  BY DEF Update
<1>2. Sound(mem, {}) /\ op = NoOp /\ at.early = {}
  BY <1>1, AtRest
<1>3. PICK S : Trees(S, S) /\ used = S \cap INodes /\ Kept(mem.cache, mem.nvm, S)
  BY <1>1, AtRest
<1>4. PICK c, ref, st, c2 :
        /\ c = mem.cache /\ ref = <<Leaf(k), Value>> /\ st = Word(ref, v) /\ c2 = Store(mem, st).cache
  OBVIOUS
<1>5. Build(st, {}, ref, {}, {}, "publish")
  BY <1>1, <1>4 DEF Update
<1>6. Wrote(c, c2, st) /\ Framed(c) /\ Tree(c, S) /\ S \subseteq INodes \cup Leaves
  BY <1>2, <1>3, <1>4, Storing
<1>7. Leaf(k) \in S /\ Leaf(k) \in Objs /\ Value \in Fields(Leaf(k))
  <2>1. PICK s : s = Site(c, k)
    OBVIOUS
  <2>2. s.n \in S \cup {NULL}
    BY <1>6, <2>1, SiteRef
  <2>3. s.n = Leaf(k)
    BY <1>1, <1>4, <2>1
  <2> QED BY <2>2, <2>3, ObjectsAre DEF Objs, Fields
<1>8. Extended(c, c2, S, S, k, v, <<Leaf(k), Value>>)
  <2>1. \A q \in Objs : \A u \in Fields(q) : c2[q][u] = IF <<q, u>> = <<Leaf(k), Value>> THEN v ELSE c[q][u]
    <3>1. \A q \in Objs : \A u \in Fields(q) : c2[q][u] = Put(Word(ref, v), <<q, u>>, c[q][u])
      BY <1>4, <1>6 DEF Wrote
    <3>2. ASSUME NEW q, NEW u PROVE Put(Word(ref, v), <<q, u>>, c[q][u]) = IF <<q, u>> = ref THEN v ELSE c[q][u]
      BY PutWord
    <3> QED BY <1>4, <3>1, <3>2
  <2>2. c2[Leaf(k)][Value] = v
    BY <1>7, <2>1
  <2>3. \A q \in Objs : \A w \in Fields(q) : <<q, w>> # <<Leaf(k), Value>> => c2[q][w] = c[q][w]
    BY <2>1
  <2> QED BY <1>6, <1>7, <2>2, <2>3, ValueExtended
<1>9. DOMAIN st \subseteq {} \cup {ref}
  BY <1>4, InWord
<1>10. ref \in Lines(mem)
  <2>1. Framed(mem.cache) /\ \E o \in Objs : \E w \in Fields(o) : ref = <<o, w>>
    BY <1>4, <1>6, <1>7
  <2> QED BY <2>1, LinesAre
<1>11. {} \subseteq used' /\ used' \subseteq INodes /\ used' \ {} = S \cap INodes
  BY <1>1, <1>3
<1>12. op' \in Durable!Ops /\ op'.key = k /\ op'.value = v
  BY <1>1, CallIs
<1>13. RInv' /\ at'.early = {} /\ ContentOf(mem'.nvm) = ContentOf(mem.nvm)
  <2>1. Extended(c, c2, S, S, k, v, ref) /\ ref \notin {}
    BY <1>4, <1>8
  <2> QED BY <1>2, <1>3, <1>4, <1>5, <1>9, <1>10, <1>11, <1>12, <2>1, BuildStep
<1> QED BY <1>2, <1>12, <1>13, BeginMap

\* A node stored besides.
LEMMA NodePut ==
  ASSUME NEW n, NEW node, NEW R
  PROVE  /\ \A q, u, y : q # n => Put(Both(Object(n, node), R), <<q, u>>, y) = Put(R, <<q, u>>, y)
         /\ \A u, y : u \in DOMAIN node => Put(Both(Object(n, node), R), <<n, u>>, y) = node[u]
<1>1. ASSUME NEW q, NEW u, NEW y
      PROVE  Put(Both(Object(n, node), R), <<q, u>>, y)
               = IF q = n THEN Put(node, u, Put(R, <<q, u>>, y)) ELSE Put(R, <<q, u>>, y)
  <2>1. Put(Both(Object(n, node), R), <<q, u>>, y) = Put(Object(n, node), <<q, u>>, Put(R, <<q, u>>, y))
    BY PutBoth
  <2> QED BY <2>1, PutObject
<1>2. ASSUME NEW u \in DOMAIN node, NEW y PROVE Put(node, u, y) = node[u]
  BY DEF Put
<1> QED BY <1>1, <1>2
LEMMA NodeToLeaf ==
  ASSUME NEW c, NEW R, NEW news, NEW k, NEW v, ToLeaf(c, R, news, k, v), NEW n, NEW node
  PROVE  ToLeaf(c, Both(Object(n, node), R), news \cup {n}, k, v)
BY NodePut DEF ToLeaf
LEMMA OnlyLeaf ==
  ASSUME NEW k \in Keys, NEW v, NEW c, NEW none, none = {}
  PROVE  /\ ToLeaf(c, Object(Leaf(k), MakeLeaf(k, v)), none, k, v)
         /\ ToLeaf(c, Both(Object(Leaf(k), MakeLeaf(k, v)), <<>>), none, k, v)
<1>1. ToLeaf(c, Object(Leaf(k), MakeLeaf(k, v)), none, k, v)
  BY LeafPut DEF ToLeaf
<1>2. ASSUME NEW q, NEW u, NEW y
      PROVE  Put(Both(Object(Leaf(k), MakeLeaf(k, v)), <<>>), <<q, u>>, y)
               = Put(Object(Leaf(k), MakeLeaf(k, v)), <<q, u>>, y)
  <2>1. Put(Both(Object(Leaf(k), MakeLeaf(k, v)), <<>>), <<q, u>>, y)
          = Put(Object(Leaf(k), MakeLeaf(k, v)), <<q, u>>, Put(<<>>, <<q, u>>, y))
    BY PutBoth
  <2> QED BY <2>1, PutNone
<1> QED BY <1>1, <1>2 DEF ToLeaf

\* Apart from n and ref, c2 is c after the stores R.
Elsewhere(c, c2, R, n, ref) ==
  \A q \in Objs : \A u \in Fields(q) : q # n /\ <<q, u>> # ref => c2[q][u] = Put(R, <<q, u>>, c[q][u])

\* A node over two leaves, or over a leaf and a node.
LEMMA NodeStored ==
  ASSUME NEW c, NEW S, NEW ref, PointsAt(c, S, ref), NEW k \in Keys, NEW v, NEW n \in INodes \ S, NEW node, NEW R,
         NEW news, news \subseteq INodes, ToLeaf(c, R, news, k, v),
         NEW c2, Wrote(c, c2, Both(Word(ref, n), Both(Object(n, node), R)))
  PROVE  /\ Stored(c, c2, ref, n, news \cup {n}, k, v)
         /\ Shows(c2[n], node) /\ Elsewhere(c, c2, R, n, ref)
<1>1. PICK T, more : T = Both(Object(n, node), R) /\ more = news \cup {n}
  OBVIOUS
<1>2. ToLeaf(c, T, more, k, v) /\ more \subseteq INodes /\ Wrote(c, c2, Both(Word(ref, n), T))
  BY <1>1, NodeToLeaf
<1>3. /\ Stored(c, c2, ref, n, more, k, v)
      /\ \A q \in Objs : \A u \in Fields(q) : <<q, u>> # ref => c2[q][u] = Put(T, <<q, u>>, c[q][u])
  BY <1>2, LeafStored
<1>4. n \in Objs /\ Fields(n) = NodeWords /\ \A w : <<n, w>> # ref
  BY ObjectsAre DEF Objs, Fields, PointsAt
<1>5. ASSUME NEW w \in NodeWords, w \in DOMAIN node PROVE c2[n][w] = node[w]
  <2>1. c2[n][w] = Put(T, <<n, w>>, c[n][w])
    BY <1>3, <1>4
  <2> QED BY <1>1, <1>5, <2>1, NodePut
<1>6. ASSUME NEW q \in Objs, NEW u \in Fields(q), q # n, <<q, u>> # ref PROVE c2[q][u] = Put(R, <<q, u>>, c[q][u])
  <2>1. c2[q][u] = Put(T, <<q, u>>, c[q][u])
    BY <1>3, <1>6
  <2> QED BY <1>1, <1>6, <2>1, NodePut
<1> QED BY <1>1, <1>3, <1>5, <1>6 DEF Shows, Elsewhere

\* InsertBeside (PART.c, recursive_insert at another key's leaf).
LEMMA StepInsertBeside ==
  ASSUME RInv, NEW k \in Keys, NEW v \in Values, InsertBeside(k, v)
  PROVE  RInv' /\ MapStep
<1>1. pc = "idle" /\ Begin("Insert", k, v) /\ used # INodes
  BY DEF InsertBeside
<1>2. Sound(mem, {}) /\ op = NoOp /\ at.early = {}
  BY <1>1, AtRest
<1>3. PICK S : Trees(S, S) /\ used = S \cap INodes /\ Kept(mem.cache, mem.nvm, S)
  BY <1>1, AtRest
<1>4. PICK c, s, ref, l, len, n, node, R, st, c2 :
        /\ c = mem.cache /\ s = Site(c, k) /\ ref = s.ref /\ l = c[s.n][Key(0)]
        /\ len = longest_common_prefix(l, k, s.depth) /\ n = Fresh(used)
        /\ node = Pair(Digits(k, s.depth, len), <<get_index(l, s.depth + len), s.n>>,
                       <<get_index(k, s.depth + len), Leaf(k)>>)
        /\ R = Object(Leaf(k), MakeLeaf(k, v))
        /\ st = Both(Word(ref, n), Both(Object(n, node), R))
        /\ c2 = Store(mem, st).cache
  OBVIOUS
<1> DEFINE first == Lines1(n, NODE4) \cup LeafLines(k)
<1>5. /\ s.n \in Leaves /\ l # k /\ used' = used \cup {n} /\ Build(st, first, ref, {}, {}, "flush")
  BY <1>4, ZenonT(30) DEF InsertBeside
<1>6. Wrote(c, c2, st) /\ Framed(c) /\ Tree(c, S) /\ S \subseteq INodes \cup Leaves
  <2>1. c = mem.cache /\ c2 = Store(mem, st).cache
    BY <1>4, Zenon
  <2>2. Trees(S, S)
    BY <1>3
  <2> QED BY ONLY <1>2, <2>1, <2>2, Storing
<1>7. PointsAt(c, S, ref)
  BY <1>4, <1>6, SiteRef, Zenon
<1>8. n \in INodes \ S
  <2>1. \E i \in INodes : i \notin used
    BY <1>1, <1>3
  <2> QED BY <1>3, <1>4, <2>1 DEF Fresh
<1>9. Stored(c, c2, ref, n, {n}, k, v) /\ Shows(c2[n], node)
  <2>1. PICK none : none = {}
    OBVIOUS
  <2>2. ToLeaf(c, R, none, k, v) /\ none \subseteq INodes /\ none \cup {n} = {n}
    BY <1>4, <2>1, OnlyLeaf, Zenon
  <2>3. Wrote(c, c2, Both(Word(ref, n), Both(Object(n, node), R))) /\ k \in Keys /\ n \in INodes \ S
    BY <1>4, <1>6, <1>8, Zenon
  <2>4. Stored(c, c2, ref, n, none \cup {n}, k, v) /\ Shows(c2[n], node)
    BY ONLY <1>7, <2>2, <2>3, NodeStored
  <2> QED BY <2>2, <2>4, Zenon
<1>10. Extended(c, c2, S, S \cup {n, Leaf(k)}, k, v, ref) /\ DOMAIN node \subseteq TypeWords(NODE4)
  <2>1. BesideAt(c, S, k, s, l, len, n, node)
    BY <1>4, <1>5, <1>6, <1>8, Zenon DEF BesideAt
  <2>3. Stored(c, c2, s.ref, n, {n}, k, v) /\ Shows(c2[n], node) /\ ref = s.ref
    BY <1>4, <1>9, Zenon
  <2>4. Extended(c, c2, S, S \cup {n, Leaf(k)}, k, v, s.ref) /\ DOMAIN node \subseteq TypeWords(NODE4)
    BY <2>1, <2>3, BesideExtended
  <2> QED BY <2>3, <2>4, Zenon
<1>11. ref \notin first /\ DOMAIN st \subseteq first \cup {ref}
  <2>1. ASSUME NEW e \in DOMAIN st PROVE e \in first \cup {ref}
    <3>1. e \in DOMAIN Word(ref, n) \/ e \in DOMAIN Object(n, node) \/ e \in DOMAIN Object(Leaf(k), MakeLeaf(k, v))
      <4>1. PICK T : T = Both(Object(n, node), Object(Leaf(k), MakeLeaf(k, v)))
        OBVIOUS
      <4>2. st = Both(Word(ref, n), T)
        BY <1>4, <4>1, Zenon
      <4>3. e \in DOMAIN Word(ref, n) \/ e \in DOMAIN T
        BY ONLY <2>1, <4>2, InBoth
      <4>4. e \in DOMAIN T => e \in DOMAIN Object(n, node) \/ e \in DOMAIN Object(Leaf(k), MakeLeaf(k, v))
        BY ONLY <4>1, InBoth
      <4> QED BY ONLY <4>3, <4>4
    <3>2. CASE e \in DOMAIN Word(ref, n)
      BY <3>2, InWord
    <3>3. CASE e \in DOMAIN Object(n, node)
      <4>1. e \in {n} \X DOMAIN node
        BY <3>3, InObject
      <4> QED BY <1>10, <4>1 DEF Lines1
    <3>4. CASE e \in DOMAIN Object(Leaf(k), MakeLeaf(k, v))
      BY <3>4, InLeaf
    <3> QED BY <3>1, <3>2, <3>3, <3>4, Zenon
  <2>2. ref[1] # n /\ ref[1] # Leaf(k)
    BY <1>7, <1>8, ObjectsAre DEF PointsAt
  <2> QED BY <2>1, <2>2 DEF Lines1, LeafLines
<1>12. ref \in Lines(mem)
  <2>1. Framed(mem.cache)
    BY <1>4, <1>6, Zenon
  <2> QED BY <1>7, <2>1, LinesAre, ZenonT(30)
<1>13. {} \subseteq used' /\ used' \subseteq INodes /\ used' \ {} = (S \cup {n, Leaf(k)}) \cap INodes
  BY <1>3, <1>5, <1>8, ObjectsAre
<1>14. op' \in Durable!Ops /\ op'.key = k /\ op'.value = v
  BY <1>1, CallIs
<1> HIDE DEF first
<1> DEFINE S2 == S \cup {n, Leaf(k)}
<1>15. Extended(c, c2, S, S2, k, v, ref) /\ used' \ {} = S2 \cap INodes
  BY <1>10, <1>13, Zenon
<1>16. c = mem.cache /\ c2 = Store(mem, st).cache
  BY <1>4
<1> HIDE DEF S2
<1>17. RInv' /\ at'.early = {} /\ ContentOf(mem'.nvm) = ContentOf(mem.nvm)
  BY <1>2, <1>3, <1>5, <1>11, <1>12, <1>13, <1>14, <1>15, <1>16, BuildStep
<1> QED BY <1>2, <1>14, <1>17, BeginMap

\* Two free nodes.
LEMMA TwoFree ==
  ASSUME NEW taken, taken \subseteq INodes, Cardinality(INodes \ taken) >= 2,
         NEW n, n = Fresh(taken), NEW y, y = Fresh(taken \cup {n})
  PROVE  n \in INodes \ taken /\ y \in INodes \ taken /\ y # n
<1> DEFINE F == INodes \ taken
<1>1. IsFiniteSet(INodes)
  BY PARTAssumption, FS_Interval DEF INodes
<1>2. IsFiniteSet(F)
  BY <1>1, FS_Subset
<1>3. F # {}
  BY FS_EmptySet
<1>4. n \in F
  BY <1>3 DEF Fresh
<1>5. Cardinality(F \ {n}) = Cardinality(F) - 1
  BY <1>2, <1>4, FS_RemoveElement
<1>6. Cardinality(F) \in Nat
  BY <1>2, FS_CardinalityType
<1>7. F \ {n} # {}
  BY <1>5, <1>6, FS_EmptySet
<1>8. F \ {n} = INodes \ (taken \cup {n})
  OBVIOUS
<1>9. y \in INodes \ (taken \cup {n})
  BY <1>7, <1>8 DEF Fresh
<1> QED BY <1>4, <1>9

\* A node over a node that is new, too, and a leaf.
LEMMA TwoStored ==
  ASSUME NEW c, NEW S, NEW ref, PointsAt(c, S, ref), NEW k \in Keys, NEW v,
         NEW n \in INodes \ S, NEW y \in INodes \ S, y # n, NEW node, NEW copy, NEW none, none = {}, NEW c2,
         Wrote(c, c2, Both(Word(ref, n), Both(Object(n, node),
                        Both(Object(y, copy), Both(Object(Leaf(k), MakeLeaf(k, v)), <<>>)))))
  PROVE  Stored(c, c2, ref, n, {n, y}, k, v) /\ Shows(c2[n], node) /\ Shows(c2[y], copy)
<1>1. PICK R0, R, news : R0 = Both(Object(Leaf(k), MakeLeaf(k, v)), <<>>) /\ R = Both(Object(y, copy), R0)
                         /\ news = none \cup {y}
  OBVIOUS
<1>2. ToLeaf(c, R0, none, k, v)
  BY <1>1, OnlyLeaf
<1>3. ToLeaf(c, R, news, k, v)
  BY <1>1, <1>2, NodeToLeaf
<1>4. news \subseteq INodes /\ Wrote(c, c2, Both(Word(ref, n), Both(Object(n, node), R))) /\ k \in Keys /\ n \in INodes \ S
  BY <1>1
<1>5. Stored(c, c2, ref, n, news \cup {n}, k, v) /\ Shows(c2[n], node) /\ Elsewhere(c, c2, R, n, ref)
  BY ONLY <1>3, <1>4, PointsAt(c, S, ref), NodeStored
<1>6. y \in Objs /\ Fields(y) = NodeWords /\ \A w : <<y, w>> # ref
  BY ObjectsAre DEF Objs, Fields, PointsAt
<1>7. ASSUME NEW w \in NodeWords, w \in DOMAIN copy PROVE c2[y][w] = copy[w]
  <2>1. c2[y][w] = Put(R, <<y, w>>, c[y][w])
    BY <1>5, <1>6 DEF Elsewhere
  <2> QED BY <1>1, <1>7, <2>1, NodePut
<1>8. news \cup {n} = {n, y}
  BY <1>1
<1> QED BY <1>5, <1>7, <1>8 DEF Shows

\* No stores.
LEMMA NoStores ==
  ASSUME NEW x, NEW E, E = {}
  PROVE  [l \in E |-> x] = <<>>
<1>1. <<>> = [l \in DOMAIN <<>> |-> <<>>[l]] /\ DOMAIN <<>> = {}
  OBVIOUS
<1>2. [l \in {} |-> x] = [l \in {} |-> <<>>[l]]
  OBVIOUS
<1> QED BY <1>1, <1>2, Zenon

\* Where the last of the stores differ nothing else does.
LEMMA OtherTail ==
  ASSUME NEW c, NEW e, NEW f, NEW g, NEW h, NEW t1, NEW t2, NEW q \in Objs, NEW u \in Fields(q),
         <<q, u>> \notin DOMAIN t1, <<q, u>> \notin DOMAIN t2,
         NEW c1, Wrote(c, c1, Both(e, Both(f, Both(g, Both(h, t1))))),
         NEW c2, Wrote(c, c2, Both(e, Both(f, Both(g, Both(h, t2)))))
  PROVE  c2[q][u] = c1[q][u]
<1>1. PICK l, y : l = <<q, u>> /\ y = c[q][u]
  OBVIOUS
<1>2. ASSUME NEW t, l \notin DOMAIN t
      PROVE  Put(Both(e, Both(f, Both(g, Both(h, t)))), l, y) = Put(e, l, Put(f, l, Put(g, l, Put(h, l, y))))
  <2>1. Put(t, l, y) = y
    BY <1>2 DEF Put
  <2> QED BY <2>1, PutBoth
<1>3. c1[q][u] = Put(Both(e, Both(f, Both(g, Both(h, t1)))), l, y)
  BY <1>1 DEF Wrote
<1>4. c2[q][u] = Put(Both(e, Both(f, Both(g, Both(h, t2)))), l, y)
  BY <1>1 DEF Wrote
<1>5. l \notin DOMAIN t1 /\ l \notin DOMAIN t2
  BY <1>1
<1> QED BY <1>2, <1>3, <1>4, <1>5

\* Stores that make S2 of S and that overwrite x, which the medium may lead to: the
\* operation is on its way, and S2 does not hold x.
LEMMA RiskyStep ==
  ASSUME Sound(mem, {}), op = NoOp, at.early = {}, NEW S, Trees(S, S), Kept(mem.cache, mem.nvm, S),
         NEW k \in Keys, NEW v \in Values, Leaf(k) \notin S, NEW x \in INodes,
         NEW st, NEW first, NEW ref, Build(st, first, ref, {}, {x}, "flush"),
         DOMAIN st \subseteq first \cup {ref}, ref \in Lines(mem),
         NEW S2, x \notin S2, NEW c, c = mem.cache, NEW c1, Extended(c, c1, S, S2, k, v, ref),
         NEW c2, c2 = Store(mem, st).cache,
         \A q \in Objs : q # x => \A u \in Fields(q) : c2[q][u] = c1[q][u],
         op'.key = k, op'.value = v, op' \in Durable!Ops, used' = S2 \cap INodes
  PROVE  RInv' /\ MapStep
<1>1. PICK n, m, f : n = mem.nvm /\ m = mem /\ f = Store(m, st)
  OBVIOUS
<1>2. /\ mem' = f /\ at' = [new |-> first, ref |-> ref, freed |-> {}, early |-> {x}] /\ pc' = "flush"
  BY <1>1 DEF Build
<1>3. Sound(m, {}) /\ m.cache = c /\ m.nvm = n
  BY <1>1
<1>4. Framed(c) /\ Tree(n, S) /\ Tree(c, S) /\ Valued(c, S) /\ Kept(c, n, S)
  BY <1>1 DEF Trees
<1>5. Framed(f.cache) /\ Lines(f) = Lines(m) /\ f.cache = c2
  <2>1. Framed(f.cache) /\ Lines(f) = Lines(m)
    BY <1>1, <1>3, <1>4, StoreWords
  <2> QED BY <1>1, <1>3, <2>1
<1>6. ContentOf(c1) = After(ContentOf(c), k, v) /\ Valued(c1, S2) /\ Tree(c1, S2)
  <2>1. Tree(c, S) /\ Valued(c, S) /\ k \in Keys /\ v \in Values /\ Extended(c, c1, S, S2, k, v, ref)
    BY <1>4
  <2> QED BY ONLY <2>1, ExtendedValued
<1>7. Tree(c2, S2) /\ ContentOf(c2) = ContentOf(c1) /\ Valued(c2, S2)
  <2>1. S2 \subseteq INodes \cup Leaves /\ AllLaid(c1, S2)
    <3>1. PICK u : u = View(c1)
      OBVIOUS
    <3> QED BY <1>6, <3>1, TreeIs
  <2>2. ASSUME NEW o \in {0} \cup S2, NEW w \in Words(c1, o) PROVE c2[o][w] = c1[o][w]
    <3>1. o \in Objs /\ o # x
      BY <2>1, ObjectsAre DEF Objs
    <3>2. w \in Fields(o)
      BY <2>1, WordsIn
    <3> QED BY <3>1, <3>2
  <2>3. \A o \in {0} \cup S2 : \A w \in Words(c1, o) : c2[o][w] = c1[o][w]
    BY <2>2
  <2>4. Tree(c1, S2)
    BY <1>6
  <2> QED BY <1>6, <2>3, <2>4, StillTree
<1>8. ContentOf(c) = ContentOf(n) /\ ContentOf(n)[k] = NULL
  <2>1. ContentOf(c) = ContentOf(n)
    BY <1>4, KeptTree
  <2>2. ContentOf(n) = [j \in Keys |-> IF Leaf(j) \in S THEN n[Leaf(j)][Value] ELSE NULL]
    BY <1>4, ContentIs
  <2> QED BY <2>1, <2>2
<1>9. Sound(mem', Owed')
  <2>1. Sound(Store(m, st), {} \cup DOMAIN st)
    BY <1>3, StoreSound
  <2>2. {} \cup DOMAIN st \subseteq first \cup {ref}
    OBVIOUS
  <2>3. Owed' = first \cup {ref}
    BY <1>2 DEF Owed
  <2> QED BY <1>1, <1>2, <2>1, <2>2, <2>3, SoundMore
<1>10. mem'.cache = c2 /\ Lines(mem') = Lines(mem) /\ Framed(c2)
  BY <1>1, <1>2, <1>5
<1>11. at'.early = {x} /\ at'.ref = ref /\ at'.new = first
  BY <1>2
<1>12. ContentOf(c2)[k] = v
  BY <1>6, <1>7 DEF ContentOf, After
<1>13. Risked(S2)'
  <2>1. Exposed'
    BY <1>11 DEF Exposed
  <2>2. at' = [new |-> at'.new, ref |-> at'.ref, freed |-> {}, early |-> at'.early]
    BY <1>2, <1>11
  <2>3. Framed(mem'.cache) /\ Tree(mem'.cache, S2) /\ Valued(mem'.cache, S2) /\ ContentOf(mem'.cache)[op'.key] = op'.value
    BY <1>7, <1>10, <1>12
  <2>4. pc' \in {"flush", "publish"} /\ at'.ref \in Lines(mem')
    BY <1>2, <1>10, <1>11
  <2> QED BY <2>1, <2>2, <2>3, <2>4 DEF Risked
<1>14. pc' \notin {"idle", "return", "down"}
  BY <1>2
<1>15. RInv'
  BY <1>9, <1>13, <1>14 DEF RInv
<1>16. MediumContent' = MediumContent
  <2>1. MediumContent' = [ContentOf(c2) EXCEPT ![k] = NULL]
    BY <1>2, <1>10, <1>11, MapWillBe DEF Exposed
  <2>2. MediumContent = ContentOf(n)
    BY <1>1, MapIs
  <2>3. ContentOf(n) = [j \in Keys |-> art_search(n, j)]
    BY DEF ContentOf
  <2>4. ContentOf(c2) = After(ContentOf(n), k, v)
    BY <1>6, <1>7, <1>8
  <2>5. [After(ContentOf(n), k, v) EXCEPT ![k] = NULL] = ContentOf(n)
    BY ONLY <1>8, <2>3 DEF After
  <2> QED BY ONLY <2>1, <2>2, <2>4, <2>5
<1> QED BY <1>15, <1>16, Begins

\* SplitPrefix (PART.c, recursive_insert at a path the key leaves).
LEMMA StepSplitPrefix ==
  ASSUME RInv, NEW k \in Keys, NEW v \in Values, SplitPrefix(k, v)
  PROVE  RInv' /\ MapStep
<1>1. pc = "idle" /\ Begin("Insert", k, v) /\ Cardinality(INodes \ used) >= 2
  BY DEF SplitPrefix
<1>2. Sound(mem, {}) /\ op = NoOp /\ at.early = {}
  BY <1>1, AtRest
<1>3. PICK S : Trees(S, S) /\ used = S \cap INodes /\ Kept(mem.cache, mem.nvm, S)
  BY <1>1, AtRest
<1>4. PICK c, s, ref, old, path, diff, n, y, node, copy, st, c2 :
        /\ c = mem.cache /\ s = Site(c, k) /\ ref = s.ref /\ old = c[s.n] /\ path = old[Hdr].path
        /\ diff = prefix_mismatch(old, k, s.depth) /\ n = Fresh(used) /\ y = Fresh(used \cup {n})
        /\ node = Pair(SubSeq(path, 1, diff), <<path[diff + 1], y>>, <<get_index(k, s.depth + diff), Leaf(k)>>)
        /\ copy = CopyOf(old, Rest(path, diff))
        /\ st = Both(Word(ref, n), Both(Object(n, node),
                  Both(Object(y, copy), Both(Object(Leaf(k), MakeLeaf(k, v)), <<>>))))
        /\ c2 = Store(mem, st).cache
  BY Zenon
<1> DEFINE type  == old[Hdr].type
           first == Lines1(n, NODE4) \cup Lines1(y, type) \cup LeafLines(k)
<1>5. s.n \in INodes /\ diff < Len(path) /\ used' = (used \ {s.n}) \cup {n, y}
  BY <1>4, ZenonT(30) DEF SplitPrefix
<1> DEFINE tail(e) == [l \in Heads(e) |-> Header(NODE4, <<>>)]
           all(e)  == Both(Word(ref, n), Both(Object(n, node),
                        Both(Object(y, copy), Both(Object(Leaf(k), MakeLeaf(k, v)), tail(e)))))
<1>5a. PICK early \in {{}, {s.n}} : Build(all(early), first \cup Heads(early), ref, {}, early, "flush")
  BY <1>4, ZenonT(30) DEF SplitPrefix, CopyOf
<1>6. Wrote(c, c2, st) /\ Framed(c) /\ Tree(c, S) /\ S \subseteq INodes \cup Leaves
  <2>1. c = mem.cache /\ c2 = Store(mem, st).cache
    BY <1>4, Zenon
  <2>2. Trees(S, S)
    BY <1>3, Zenon
  <2> QED BY ONLY <1>2, <2>1, <2>2, Storing
<1>7. PointsAt(c, S, ref)
  BY <1>4, <1>6, SiteRef, Zenon
<1>8. n \in INodes \ S /\ y \in INodes \ S /\ y # n
  <2>1. used \subseteq INodes
    BY <1>3, Zenon
  <2>0. n = Fresh(used) /\ y = Fresh(used \cup {n})
    BY <1>4, Zenon
  <2>2. n \in INodes \ used /\ y \in INodes \ used /\ y # n
    BY ONLY <1>1, <2>0, <2>1, TwoFree
  <2> QED BY <1>3, <2>2
<1>9. Stored(c, c2, ref, n, {n, y}, k, v) /\ Shows(c2[n], node) /\ Shows(c2[y], copy)
  <2>1. PICK none : none = {}
    BY Zenon
  <2>2. Wrote(c, c2, Both(Word(ref, n), Both(Object(n, node),
                        Both(Object(y, copy), Both(Object(Leaf(k), MakeLeaf(k, v)), <<>>)))))
    BY <1>4, <1>6, Zenon
  <2>3. k \in Keys
    OBVIOUS
  <2> QED BY ONLY <1>7, <1>8, <2>1, <2>2, <2>3, TwoStored
<1>10. /\ Extended(c, c2, S, ((S \ {s.n}) \cup {n, y}) \cup {Leaf(k)}, k, v, ref)
       /\ s.n \in S /\ Leaf(k) \notin S /\ DOMAIN node \subseteq TypeWords(NODE4)
  <2>1. SplitAt(c, S, k, s, path, diff, n, y, node)
    BY <1>4, <1>5, <1>6, <1>8, Zenon DEF SplitAt
  <2>3. /\ Stored(c, c2, s.ref, n, {n, y}, k, v) /\ Shows(c2[n], node) /\ ref = s.ref
        /\ Shows(c2[y], CopyOf(c[s.n], Rest(path, diff)))
    BY <1>4, <1>9, Zenon
  <2>4. /\ Extended(c, c2, S, ((S \ {s.n}) \cup {n, y}) \cup {Leaf(k)}, k, v, s.ref)
        /\ s.n \in S /\ Leaf(k) \notin S /\ DOMAIN node \subseteq TypeWords(NODE4)
    BY <2>1, <2>3, SplitExtended
  <2> QED BY <2>3, <2>4
<1>11. ref \notin first /\ \A t : DOMAIN Both(Word(ref, n), Both(Object(n, node), Both(Object(y, copy),
                                  Both(Object(Leaf(k), MakeLeaf(k, v)), t)))) \subseteq first \cup {ref} \cup DOMAIN t
  <2>1. ASSUME NEW t, NEW u, u = Both(Word(ref, n), Both(Object(n, node), Both(Object(y, copy),
                                   Both(Object(Leaf(k), MakeLeaf(k, v)), t)))),
               NEW e \in DOMAIN u
        PROVE  e \in first \cup {ref} \cup DOMAIN t
    <3>1. \/ e \in DOMAIN Word(ref, n) \/ e \in DOMAIN Object(n, node) \/ e \in DOMAIN Object(y, copy)
          \/ e \in DOMAIN Object(Leaf(k), MakeLeaf(k, v)) \/ e \in DOMAIN t
      <4>1. PICK R0, R, T : R0 = Both(Object(Leaf(k), MakeLeaf(k, v)), t) /\ R = Both(Object(y, copy), R0)
                            /\ T = Both(Object(n, node), R)
        BY Zenon
      <4>2. u = Both(Word(ref, n), T)
        BY <2>1, <4>1, Zenon
      <4>3. e \in DOMAIN Word(ref, n) \/ e \in DOMAIN T
        BY ONLY <2>1, <4>2, InBoth
      <4>4. e \in DOMAIN T => e \in DOMAIN Object(n, node) \/ e \in DOMAIN R
        BY <4>1, InBoth
      <4>5. e \in DOMAIN R => e \in DOMAIN Object(y, copy) \/ e \in DOMAIN R0
        BY <4>1, InBoth
      <4>6. e \in DOMAIN R0 => e \in DOMAIN Object(Leaf(k), MakeLeaf(k, v)) \/ e \in DOMAIN t
        BY <4>1, InBoth
      <4> QED BY ONLY <4>3, <4>4, <4>5, <4>6
    <3>2. CASE e \in DOMAIN Word(ref, n)
      BY <3>2, InWord
    <3>3. CASE e \in DOMAIN Object(n, node)
      <4>1. e \in {n} \X DOMAIN node
        BY <3>3, InObject
      <4> QED BY <1>10, <4>1 DEF Lines1
    <3>4. CASE e \in DOMAIN Object(y, copy)
      <4>1. e \in {y} \X DOMAIN copy
        BY <3>4, InObject
      <4>2. DOMAIN copy = TypeWords(type)
        BY <1>4, Zenon DEF CopyOf
      <4> QED BY <4>1, <4>2, Zenon DEF Lines1
    <3>5. CASE e \in DOMAIN Object(Leaf(k), MakeLeaf(k, v))
      BY <3>5, InLeaf
    <3> QED BY <3>1, <3>2, <3>3, <3>4, <3>5
  <2>2. ref[1] # n /\ ref[1] # y /\ ref[1] # Leaf(k)
    BY <1>7, <1>8, ObjectsAre DEF PointsAt
  <2> QED BY <2>1, <2>2 DEF Lines1, LeafLines
<1>12. ref \in Lines(mem)
  <2>1. Framed(mem.cache)
    BY <1>4, <1>6, Zenon
  <2> QED BY <1>7, <2>1, LinesAre, Zenon
<1> DEFINE S2 == ((S \ {s.n}) \cup {n, y}) \cup {Leaf(k)}
<1>13. {} \subseteq used' /\ used' \subseteq INodes /\ used' \ {} = S2 \cap INodes
  BY <1>3, <1>5, <1>8, ObjectsAre
<1>14. op' \in Durable!Ops /\ op'.key = k /\ op'.value = v
  BY <1>1, CallIs
<1> HIDE DEF first
<1>15. Extended(c, c2, S, S2, k, v, ref)
  BY <1>10
<1>16. c = mem.cache /\ c2 = Store(mem, st).cache
  BY <1>4
<1> HIDE DEF S2
<1>17. CASE early = {}
  <2>1. tail(early) = <<>> /\ first \cup Heads(early) = first
    <3>1. PICK x : x = Header(NODE4, <<>>)
      OBVIOUS
    <3>2. Heads(early) = {}
      BY <1>17 DEF Heads
    <3> QED BY <3>1, <3>2, NoStores
  <2>2. all(early) = st /\ Build(st, first, ref, {}, {}, "flush")
    BY <1>4, <1>5a, <1>17, <2>1, Zenon
  <2>2a. Build(st, first, ref, {}, {}, "flush")
    BY <2>2, Zenon
  <2>3. DOMAIN st \subseteq first \cup {ref} /\ ref \notin first
    <3>1. PICK none : none = <<>> /\ DOMAIN none = {}
      OBVIOUS
    <3>1a. st = Both(Word(ref, n), Both(Object(n, node), Both(Object(y, copy), Both(Object(Leaf(k), MakeLeaf(k, v)), none))))
      BY <1>4, <3>1, Zenon
    <3>2. DOMAIN st \subseteq first \cup {ref} \cup DOMAIN none
      BY ONLY <1>11, <3>1a, Zenon
    <3> QED BY <1>11, <3>1, <3>2
  <2>4. Trees(S, S) /\ Kept(mem.cache, mem.nvm, S) /\ Sound(mem, {}) /\ k \in Keys /\ v \in Values
    BY <1>2, <1>3
  <2>5. RInv' /\ at'.early = {} /\ ContentOf(mem'.nvm) = ContentOf(mem.nvm)
    <3>1. "flush" \in {"flush", "entry", "publish"} /\ ("flush" = "publish" => first = {})
      OBVIOUS
    <3> QED BY ONLY <1>12, <1>13, <1>14, <1>15, <1>16, <2>2a, <2>3, <2>4, <3>1, BuildStep
  <2> QED BY <1>2, <1>14, <2>5, BeginMap, ZenonT(30)
<1>18. CASE early = {s.n}
  <2>1. PICK x, st2, c3, first2 : /\ x = s.n /\ st2 = all({x}) /\ c3 = Store(mem, st2).cache
                                  /\ first2 = first \cup Heads({x})
    BY Zenon
  <2>2. Build(st2, first2, ref, {}, {x}, "flush")
    BY <1>5a, <1>18, <2>1, Zenon
  <2>3. DOMAIN st2 \subseteq first2 \cup {ref}
    <3>1. DOMAIN tail({x}) = Heads({x})
      OBVIOUS
    <3>2. DOMAIN all({x}) \subseteq first \cup {ref} \cup DOMAIN tail({x})
      BY <1>11
    <3> QED BY <2>1, <3>1, <3>2
  <2>4. Wrote(c, c3, st2)
    <3>1. c = mem.cache /\ c3 = Store(mem, st2).cache
      BY <1>4, <2>1, Zenon
    <3>2. Trees(S, S)
      BY <1>3, Zenon
    <3> QED BY ONLY <1>2, <3>1, <3>2, Storing
  <2>5. ASSUME NEW q \in Objs, q # x, NEW u \in Fields(q) PROVE c3[q][u] = c2[q][u]
    <3>1. PICK t1, t2 : t1 = <<>> /\ t2 = tail({x})
      BY Zenon
    <3>2. <<q, u>> \notin DOMAIN t1 /\ <<q, u>> \notin DOMAIN t2
      BY <2>5, <3>1 DEF Heads
    <3>3. Wrote(c, c2, Both(Word(ref, n), Both(Object(n, node), Both(Object(y, copy), Both(Object(Leaf(k), MakeLeaf(k, v)), t1)))))
      BY <1>4, <1>6, <3>1, Zenon
    <3>4. Wrote(c, c3, Both(Word(ref, n), Both(Object(n, node), Both(Object(y, copy), Both(Object(Leaf(k), MakeLeaf(k, v)), t2)))))
      BY <2>1, <2>4, <3>1, Zenon
    <3>5. q \in Objs /\ u \in Fields(q)
      BY <2>5
    <3> QED BY ONLY <3>2, <3>3, <3>4, <3>5, OtherTail
  <2>6. x \in INodes /\ x \notin S2 /\ Leaf(k) \notin S /\ used' = S2 \cap INodes
    BY <1>5, <1>8, <1>10, <1>13, <2>1, ObjectsAre DEF S2
  <2>7. Trees(S, S) /\ Kept(mem.cache, mem.nvm, S) /\ Sound(mem, {}) /\ op = NoOp /\ at.early = {} /\ k \in Keys /\ v \in Values
    BY <1>2, <1>3
  <2>8. \A q \in Objs : q # x => \A u \in Fields(q) : c3[q][u] = c2[q][u]
    BY <2>5
  <2>9. c = mem.cache /\ Extended(c, c2, S, S2, k, v, ref) /\ c3 = Store(mem, st2).cache
    BY <1>15, <1>16, <2>1, Zenon
  <2> QED BY ONLY <1>12, <1>14, <2>2, <2>3, <2>6, <2>7, <2>8, <2>9, RiskyStep
<1> QED BY <1>17, <1>18

\* The objects' words in the cache are what a store left there.
LEMMA SameObject ==
  ASSUME NEW m, NEW L0, Sound(m, L0), Framed(m.cache), NEW st, NEW f, f = Store(m, st), NEW n \in Objs,
         \A w \in Fields(n) : f.cache[n][w] = m.cache[n][w]
  PROVE  f.cache[n] = m.cache[n]
<1>1. Sound(f, L0 \cup DOMAIN st) /\ DOMAIN f.cache = DOMAIN m.cache
  BY StoreSound
<1>2. n \in DOMAIN m.cache /\ DOMAIN m.cache[n] = Fields(n)
  BY DEF Framed
<1>3. DOMAIN f.cache[n] = Fields(n)
  <2>1. Framed(f.cache)
    BY StoreWords
  <2> QED BY <2>1 DEF Framed
<1>4. IsFunction(f.cache[n]) /\ IsFunction(m.cache[n])
  BY <1>1, <1>2 DEF Sound, Shaped
<1> QED BY <1>2, <1>3, <1>4 DEF IsFunction

\* The leaf built and on its way to the medium, the tree as it was.
LeafBuilt(c, S, k) ==
  /\ Tree(c, S) /\ Site(c, k).n \in INodes
  /\ prefix_mismatch(c[Site(c, k).n], k, Site(c, k).depth) = Len(c[Site(c, k).n][Hdr].path)
LeafFlushed(m, k, v) == flush_buffer(Store(m, Object(Leaf(k), MakeLeaf(k, v))), LeafLines(k), FALSE)
LEMMA LeafBuiltKeeps ==
  ASSUME NEW m, Sound(m, {}), Framed(m.cache), NEW S, NEW k \in Keys, NEW v, LeafBuilt(m.cache, S, k),
         Tree(m.nvm, S), Valued(m.nvm, S), Valued(m.cache, S), Kept(m.cache, m.nvm, S),
         NEW f, f = LeafFlushed(m, k, v)
  PROVE  /\ Sound(f, {}) /\ Framed(f.cache) /\ Tree(f.nvm, S) /\ Tree(f.cache, S) /\ Valued(f.nvm, S) /\ Valued(f.cache, S)
         /\ Kept(f.cache, f.nvm, S) /\ LeafWaits(f.cache, k, v) /\ ContentOf(f.nvm) = ContentOf(m.nvm)
<1>1. PICK c, n, R, g, K : /\ c = m.cache /\ n = m.nvm /\ R = Object(Leaf(k), MakeLeaf(k, v)) /\ g = Store(m, R)
                           /\ K = LeafLines(k)
  OBVIOUS
<1>2. f = flush_buffer(g, K, FALSE)
  BY <1>1 DEF LeafFlushed
<1>3. g.nvm = n /\ Framed(g.cache) /\ Wrote(c, g.cache, R)
  <2>1. g.nvm = m.nvm /\ Framed(g.cache) /\ Wrote(m.cache, g.cache, R)
    BY <1>1, StoreWords
  <2> QED BY <1>1, <2>1
<1>4. Tree(c, S) /\ Tree(n, S) /\ Kept(c, n, S) /\ Valued(c, S) /\ Valued(n, S)
  BY <1>1 DEF LeafBuilt
<1>5. S \subseteq INodes \cup Leaves /\ AllLaid(c, S)
  BY <1>4, TreeIs
<1>6. Leaf(k) \notin S
  <2>1. PICK u : u = View(c)
    OBVIOUS
  <2>2. PICK dep, rep : L!Shape(Form, u, S, dep, rep)
    BY <1>4, <2>1, TreeIs
  <2>3. PICK s, len, j : s = Site(c, k) /\ len = Len(c[s.n][Hdr].path) /\ j = get_index(k, s.depth + len)
    OBVIOUS
  <2>4. s.n \in INodes /\ prefix_mismatch(c[s.n], k, s.depth) = len
    BY <1>1, <2>3 DEF LeafBuilt
  <2> QED BY <2>1, <2>2, <2>3, <2>4, JoinsIs
<1>7. ASSUME NEW q \in Objs, NEW u \in Fields(q)
      PROVE  g.cache[q][u] = IF q = Leaf(k) THEN MakeLeaf(k, v)[u] ELSE c[q][u]
  <2>1. g.cache[q][u] = Put(R, <<q, u>>, c[q][u])
    BY <1>3 DEF Wrote
  <2> QED BY <1>1, <2>1, LeafPut
<1>8. \A o \in {0} \cup S : \A w \in Words(c, o) : g.cache[o][w] = c[o][w]
  <2> SUFFICES ASSUME NEW o \in {0} \cup S, NEW w \in Words(c, o) PROVE g.cache[o][w] = c[o][w]
    OBVIOUS
  <2>1. o \in Objs /\ w \in Fields(o)
    BY <1>5, WordsIn
  <2>2. o # Leaf(k)
    BY <1>6, ObjectsAre
  <2> QED BY <1>7, <2>1, <2>2
<1>9. Tree(g.cache, S) /\ Valued(g.cache, S)
  BY <1>4, <1>8, StillTree
<1>10. Still(g.cache, n, S, Root) /\ Kept(g.cache, n, S)
  <2>1. \A o \in {0} \cup S : Words(c, o) = Words(n, o)
    BY <1>4, KeptTree
  <2> QED BY <1>4, <1>8, <2>1 DEF Still, Kept
<1>11. Sound(g, K)
  <2>1. Sound(Store(m, R), {} \cup DOMAIN R)
    BY StoreSound
  <2>2. {} \cup DOMAIN R \subseteq K
    BY <1>1, InLeaf
  <2> QED BY <1>1, <2>1, <2>2, SoundMore
<1>12. Sound(f, {}) /\ f.cache = g.cache
  <2>1. Sound(flush_buffer(g, K, FALSE), K \ K) /\ flush_buffer(g, K, FALSE).cache = g.cache
    BY <1>11, FlushSound
  <2>2. K \ K = {}
    OBVIOUS
  <2> QED BY <1>2, <2>1, <2>2
<1>13. Written(g, f, K)
  BY <1>2, <1>11, FlushWords
<1>14. Root \notin K
  BY <1>1, ObjectsAre DEF LeafLines, Root
<1>15. /\ Tree(f.nvm, S) /\ (Valued(g.nvm, S) => Valued(f.nvm, S)) /\ ContentOf(f.nvm) = ContentOf(g.nvm)
       /\ \A o \in {0} \cup S : \A w \in Words(f.nvm, o) : f.nvm[o][w] = g.nvm[o][w]
       /\ \A o \in {0} \cup S : Words(f.nvm, o) = Words(g.nvm, o)
  <2>1. Tree(g.nvm, S) /\ Still(g.cache, g.nvm, S, Root) /\ Framed(g.cache)
    BY <1>3, <1>4, <1>10
  <2>2. PICK ref : ref = Root
    OBVIOUS
  <2>3. ref \notin K /\ Still(g.cache, g.nvm, S, ref) /\ Tree(g.nvm, S) /\ Framed(g.cache)
    BY <1>14, <2>1, <2>2
  <2> QED BY ONLY <1>13, <2>3, WrittenTree
<1>16. Kept(f.cache, f.nvm, S)
  BY <1>3, <1>10, <1>12, <1>15 DEF Kept
<1>17. LeafWaits(f.cache, k, v)
  <2>1. PICK c2 : c2 = g.cache
    OBVIOUS
  <2>2. Leaf(k) \in Objs /\ Value \in Fields(Leaf(k)) /\ Key(0) \in Fields(Leaf(k))
    BY ObjectsAre DEF Objs, Fields
  <2>3. c2[Leaf(k)][Value] = v /\ c2[Leaf(k)][Key(0)] = k
    <3>1. MakeLeaf(k, v)[Value] = v /\ MakeLeaf(k, v)[Key(0)] = k
      BY PutLeaf, LeafWords DEF Put
    <3> QED BY <1>7, <2>1, <2>2, <3>1
  <2>4. \A i \in INodes : c2[i] = c[i]
    <3> SUFFICES ASSUME NEW i \in INodes PROVE c2[i] = c[i]
      OBVIOUS
    <3>1. i \in Objs /\ i # Leaf(k)
      BY ObjectsAre DEF Objs
    <3>2. \A w \in Fields(i) : g.cache[i][w] = m.cache[i][w]
      BY <1>1, <1>7, <3>1
    <3>3. g.cache[i] = m.cache[i]
      BY <1>1, <3>1, <3>2, SameObject
    <3> QED BY <1>1, <2>1, <3>3
  <2>5. c2[0][Child(0)] = c[0][Child(0)]
    BY <1>7, <2>1, ObjectsAre DEF Objs, Fields
  <2>6. Site(c2, k) = Site(c, k)
    BY <2>4, <2>5, SiteSame
  <2>7. /\ Site(c, k).n \in INodes
        /\ prefix_mismatch(c[Site(c, k).n], k, Site(c, k).depth) = Len(c[Site(c, k).n][Hdr].path)
    BY <1>1 DEF LeafBuilt
  <2>8. LeafWaits(c2, k, v)
    BY <2>3, <2>4, <2>6, <2>7 DEF LeafWaits
  <2> QED BY <1>12, <2>1, <2>8
<1> QED BY <1>1, <1>3, <1>4, <1>9, <1>12, <1>15, <1>16, <1>17

\* InsertBelow (PART.c, recursive_insert at a node with no child for the digit, up
\* to add_child).
LEMMA StepInsertBelow ==
  ASSUME RInv, NEW k \in Keys, NEW v \in Values, InsertBelow(k, v)
  PROVE  RInv' /\ MapStep
<1>1. /\ pc = "idle" /\ Begin("Insert", k, v) /\ pc' = "add" /\ used' = used /\ at' = at
  BY DEF InsertBelow
<1>2. Sound(mem, {}) /\ op = NoOp /\ at = NoLocals /\ at.early = {}
  BY <1>1, AtRest
<1>3. PICK S : Trees(S, S) /\ used = S \cap INodes /\ Kept(mem.cache, mem.nvm, S)
  BY <1>1, AtRest
<1>4. PICK m, f : m = mem /\ f = LeafFlushed(m, k, v)
  OBVIOUS
<1>5. mem' = f
  BY <1>4 DEF InsertBelow, LeafFlushed
<1>6. /\ Sound(m, {}) /\ Framed(m.cache) /\ Tree(m.nvm, S) /\ Tree(m.cache, S) /\ Valued(m.nvm, S) /\ Valued(m.cache, S)
      /\ Kept(m.cache, m.nvm, S)
  BY <1>2, <1>3, <1>4 DEF Trees
<1>7. LeafBuilt(m.cache, S, k)
  BY <1>4, <1>6 DEF LeafBuilt, InsertBelow
<1>8. /\ Sound(f, {}) /\ Framed(f.cache) /\ Tree(f.nvm, S) /\ Tree(f.cache, S) /\ Valued(f.nvm, S) /\ Valued(f.cache, S)
      /\ Kept(f.cache, f.nvm, S) /\ LeafWaits(f.cache, k, v) /\ ContentOf(f.nvm) = ContentOf(m.nvm)
  <2>1. k \in Keys /\ f = LeafFlushed(m, k, v)
    BY <1>4
  <2> QED BY ONLY <1>6, <1>7, <2>1, LeafBuiltKeeps
<1>9. op' \in Durable!Ops /\ op'.key = k /\ op'.value = v /\ v # NULL
  BY <1>1, CallIs, CallsAre
<1>10. Trees(S, S)'
  BY <1>5, <1>8 DEF Trees
<1>11. Add(S, S)'
  BY <1>1, <1>2, <1>3, <1>5, <1>8, <1>9 DEF Add
<1>12. Owed' = {}
  BY <1>1 DEF Owed
<1>13. RInv'
  BY <1>1, <1>5, <1>8, <1>10, <1>11, <1>12 DEF RInv, Phase
<1>14. ContentOf(mem'.nvm) = ContentOf(mem.nvm)
  BY <1>4, <1>5, <1>8
<1> QED BY <1>1, <1>2, <1>9, <1>13, <1>14, BeginMap

\* Between the leaf's flush and add_child.
LEMMA AtAdd ==
  ASSUME RInv, pc = "add"
  PROVE  /\ Sound(mem, {}) /\ op \in Durable!Ops /\ op.key \in Keys /\ op.value \in Values /\ at.early = {}
         /\ \E S : /\ Trees(S, S) /\ used = S \cap INodes /\ Kept(mem.cache, mem.nvm, S)
                   /\ LeafWaits(mem.cache, op.key, op.value)
<1>0. at.early = {} /\ \E S, S2 : Trees(S, S2) /\ Phase(S, S2)
  BY TreesAre
<1>1. PICK S, S2 : Trees(S, S2) /\ Phase(S, S2)
  BY <1>0
<1>2. Sound(mem, {})
  BY DEF RInv, Owed
<1>3. Add(S, S2)
  BY <1>1 DEF Phase
<1>4. Trees(S, S)
  BY <1>1, <1>3 DEF Add
<1>5. op \in Durable!Ops /\ op.value # NULL
  BY <1>3 DEF Add
<1>6. op.key \in Keys /\ op.value \in Values
  BY <1>5 DEF Durable!Ops
<1> QED BY <1>0, <1>2, <1>3, <1>4, <1>5, <1>6 DEF Add

\* The stores of add_child.
LEMMA AddsIs ==
  ASSUME NEW c, NEW n \in INodes, NEW a, NEW k \in Keys, NEW v, LeafWaits(c, k, v),
         NEW c2, Wrote(c, c2, Object(n, a))
  PROVE  Adds(c, c2, n, a, k, v)
<1>1. ASSUME NEW q \in Objs, NEW w \in Fields(q)
      PROVE  c2[q][w] = IF q = n THEN Put(a, w, c[q][w]) ELSE c[q][w]
  <2>1. c2[q][w] = Put(Object(n, a), <<q, w>>, c[q][w])
    BY DEF Wrote
  <2> QED BY <2>1, PutObject
<1>2. n \in Objs /\ Fields(n) = NodeWords
  BY ObjectsAre DEF Objs, Fields
<1>3. Shows(c2[n], a)
  BY <1>1, <1>2 DEF Shows, Put
<1>4. \A q \in Objs : \A w \in Fields(q) : q # n \/ w \notin DOMAIN a => c2[q][w] = c[q][w]
  BY <1>1 DEF Put
<1> QED BY <1>3, <1>4 DEF Adds, LeafWaits

\* An operation goes on.
LEMMA OnMap ==
  ASSUME op' = op, at.early = {}, at'.early = {}, ContentOf(mem'.nvm) = ContentOf(mem.nvm)
  PROVE  MapStep
BY MapIs, MapWillBe DEF MapStep

\* AddInPlace (PART.c, add_child4, 16, 48 and 256).
LEMMA StepAddInPlace ==
  ASSUME RInv, AddInPlace
  PROVE  RInv' /\ MapStep
<1>1. pc = "add" /\ used' = used /\ op' = op
  BY Zenon DEF AddInPlace
<1>2. PICK k, v : k = op.key /\ v = op.value
  OBVIOUS
<1>3. Sound(mem, {}) /\ op \in Durable!Ops /\ k \in Keys /\ v \in Values /\ at.early = {}
  BY <1>1, <1>2, AtAdd
<1>4. PICK S : /\ Trees(S, S) /\ used = S \cap INodes /\ Kept(mem.cache, mem.nvm, S)
               /\ LeafWaits(mem.cache, k, v)
  BY <1>1, <1>2, AtAdd
<1>5. PICK c, s, len, j, a, st, ref, c2 :
        /\ c = mem.cache /\ s = Site(c, k) /\ len = Len(c[s.n][Hdr].path) /\ j = get_index(k, s.depth + len)
        /\ a = Added(c[s.n], j, Leaf(k)) /\ st = Object(s.n, a) /\ ref = <<s.n, CommitWord(c[s.n], j)>>
        /\ c2 = Store(mem, st).cache
  BY Zenon
<1> DEFINE first == DOMAIN st \ {ref}
<1>6. HasRoom(c[s.n]) /\ Build(st, first, ref, {}, {}, "entry")
  BY <1>2, <1>5, Zenon DEF AddInPlace
<1>7. Wrote(c, c2, st) /\ Framed(c) /\ Tree(c, S) /\ S \subseteq INodes \cup Leaves
  <2>1. c = mem.cache /\ c2 = Store(mem, st).cache
    BY <1>5
  <2>2. Trees(S, S) /\ Sound(mem, {})
    BY <1>3, <1>4, Zenon
  <2> QED BY ONLY <2>1, <2>2, Storing, Zenon
<1>8. LeafWaits(c, k, v) /\ s.n \in INodes /\ prefix_mismatch(c[s.n], k, s.depth) = len
  BY <1>4, <1>5, Zenon DEF LeafWaits
<1>9. AddAt(c, S, k, s, len, j, a)
  <2>1. DOMAIN c[s.n] = NodeWords
    BY <1>7, <1>8, ObjectsAre DEF Framed, Objs, Fields
  <2> QED BY <1>5, <1>6, <1>7, <1>8, <2>1, Zenon DEF AddAt
<1>10. Adds(c, c2, s.n, a, k, v)
  <2>1. PICK n : n = s.n
    BY Zenon
  <2>2. n \in INodes /\ Wrote(c, c2, Object(n, a)) /\ k \in Keys
    BY <1>3, <1>5, <1>7, <1>8, <2>1, Zenon
  <2>3. Adds(c, c2, n, a, k, v)
    BY ONLY <1>8, <2>2, AddsIs, Zenon
  <2> QED BY <2>1, <2>3
<1>11. /\ Extended(c, c2, S, S \cup {Leaf(k)}, k, v, ref)
       /\ CommitWord(c[s.n], j) \in DOMAIN a /\ DOMAIN a \subseteq NodeWords
  <2>1. k \in Keys
    BY <1>3
  <2>2. /\ Extended(c, c2, S, S \cup {Leaf(k)}, k, v, <<s.n, CommitWord(c[s.n], j)>>)
        /\ CommitWord(c[s.n], j) \in DOMAIN a /\ DOMAIN a \subseteq NodeWords
    BY ONLY <1>9, <1>10, <2>1, AddedExtended
  <2> QED BY <1>5, <2>2, Zenon
<1>12. ref \in Lines(mem)
  <2>1. Framed(mem.cache)
    BY <1>5, <1>7
  <2>2. s.n \in Objs /\ CommitWord(c[s.n], j) \in Fields(s.n)
    BY <1>8, <1>11, ObjectsAre, ZenonT(30) DEF Objs, Fields
  <2>3. \E o \in Objs : \E w \in Fields(o) : ref = <<o, w>>
    BY <1>5, <2>2, Zenon
  <2> QED BY <2>1, <2>3, LinesAre, ZenonT(30)
<1>13. ref \notin first /\ DOMAIN st \subseteq first \cup {ref}
  OBVIOUS
<1> DEFINE S2 == S \cup {Leaf(k)}
<1>14. {} \subseteq used' /\ used' \subseteq INodes /\ used' \ {} = S2 \cap INodes
  <2>1. Leaf(k) \notin INodes
    BY <1>3, ObjectsAre
  <2> QED BY <1>1, <1>4, <2>1
<1>15. op' \in Durable!Ops /\ op'.key = k /\ op'.value = v
  BY <1>1, <1>2, <1>3, Zenon
<1> HIDE DEF first
<1>16. Extended(c, c2, S, S2, k, v, ref) /\ c = mem.cache /\ c2 = Store(mem, st).cache
  BY <1>5, <1>11, Zenon
<1> HIDE DEF S2
<1>17. RInv' /\ at'.early = {} /\ ContentOf(mem'.nvm) = ContentOf(mem.nvm)
  <2>1. Trees(S, S) /\ Kept(mem.cache, mem.nvm, S) /\ Sound(mem, {}) /\ k \in Keys /\ v \in Values
    BY <1>3, <1>4
  <2>2. Build(st, first, ref, {}, {}, "entry")
    BY <1>6
  <2>3. "entry" \in {"flush", "entry", "publish"} /\ ("entry" = "publish" => first = {})
    OBVIOUS
  <2> QED BY ONLY <1>12, <1>13, <1>14, <1>15, <1>16, <2>1, <2>2, <2>3, BuildStep
<1> QED BY <1>1, <1>3, <1>17, OnMap, ZenonT(30)

\* Grow (PART.c, add_child at a full node).
LEMMA StepGrow ==
  ASSUME RInv, Grow
  PROVE  RInv' /\ MapStep
<1>1. pc = "add" /\ op' = op /\ used # INodes
  BY DEF Grow
<1>2. PICK k, v : k = op.key /\ v = op.value
  OBVIOUS
<1>3. Sound(mem, {}) /\ op \in Durable!Ops /\ k \in Keys /\ v \in Values /\ at.early = {}
  BY <1>1, <1>2, AtAdd
<1>4. PICK S : /\ Trees(S, S) /\ used = S \cap INodes /\ Kept(mem.cache, mem.nvm, S)
               /\ LeafWaits(mem.cache, k, v)
  BY <1>1, <1>2, AtAdd
<1>5. PICK c, s, len, j, n, big, st, ref, c2 :
        /\ c = mem.cache /\ s = Site(c, k) /\ len = Len(c[s.n][Hdr].path) /\ j = get_index(k, s.depth + len)
        /\ n = Fresh(used) /\ big = Bigger(c[s.n], j, Leaf(k)) /\ ref = s.ref
        /\ st = Both(Word(ref, n), Object(n, big)) /\ c2 = Store(mem, st).cache
  BY Zenon
<1> DEFINE first == Lines1(n, big[Hdr].type)
<1>6. ~HasRoom(c[s.n]) /\ Build(st, first, ref, {s.n}, {}, "flush") /\ used' = used \cup {n}
  BY <1>2, <1>5, Zenon DEF Grow
<1>7. Wrote(c, c2, st) /\ Framed(c) /\ Tree(c, S) /\ S \subseteq INodes \cup Leaves
  <2>1. c = mem.cache /\ c2 = Store(mem, st).cache
    BY <1>5, Zenon
  <2>2. Trees(S, S) /\ Sound(mem, {})
    BY <1>3, <1>4
  <2> QED BY ONLY <2>1, <2>2, Storing
<1>8. LeafWaits(c, k, v) /\ s.n \in INodes /\ prefix_mismatch(c[s.n], k, s.depth) = len
  BY <1>4, <1>5, ZenonT(30) DEF LeafWaits
<1>9. PointsAt(c, S, ref)
  BY <1>3, <1>5, <1>7, SiteRef, ZenonT(30)
<1>10. n \in INodes \ S
  <2>1. \E i \in INodes : i \notin used
    BY <1>1, <1>4, Zenon
  <2> QED BY <1>4, <1>5, <2>1 DEF Fresh
<1>11. GrowAt(c, S, k, s, len, j, n, big)
  BY <1>5, <1>6, <1>7, <1>8, <1>10, Zenon DEF GrowAt
<1>12. Stored(c, c2, ref, n, {n}, k, v) /\ Shows(c2[n], big)
  <2>1. ASSUME NEW q \in Objs, NEW u \in Fields(q)
        PROVE  c2[q][u] = IF <<q, u>> = ref THEN n ELSE IF q = n THEN Put(big, u, c[q][u]) ELSE c[q][u]
    <3>1. c2[q][u] = Put(st, <<q, u>>, c[q][u])
      BY <1>7, Zenon DEF Wrote
    <3>2. Put(st, <<q, u>>, c[q][u]) = Put(Word(ref, n), <<q, u>>, Put(Object(n, big), <<q, u>>, c[q][u]))
      <4>1. st = Both(Word(ref, n), Object(n, big))
        BY <1>5, Zenon
      <4> QED BY ONLY <4>1, PutBoth
    <3>3. Put(Object(n, big), <<q, u>>, c[q][u]) = IF q = n THEN Put(big, u, c[q][u]) ELSE c[q][u]
      BY PutObject
    <3> QED BY <3>1, <3>2, <3>3, PutWord
  <2>2. c2[ref[1]][ref[2]] = n
    BY <1>9, <2>1 DEF PointsAt
  <2>3. /\ Leaf(k) \in Objs /\ Leaf(k) # n /\ Value \in Fields(Leaf(k)) /\ Key(0) \in Fields(Leaf(k))
        /\ \A u : <<Leaf(k), u>> # ref
    BY <1>3, <1>9, <1>10, ObjectsAre DEF Objs, Fields, PointsAt
  <2>4. c2[Leaf(k)][Value] = v /\ c2[Leaf(k)][Key(0)] = k
    BY <1>8, <2>1, <2>3 DEF LeafWaits
  <2>5. n \in Objs /\ Fields(n) = NodeWords /\ \A w : <<n, w>> # ref
    BY <1>9, <1>10, ObjectsAre DEF Objs, Fields, PointsAt
  <2>6. Shows(c2[n], big)
    BY <2>1, <2>5, Zenon DEF Shows, Put
  <2> QED BY <2>1, <2>2, <2>4, <2>6 DEF Stored
<1> DEFINE S2 == ((S \ {s.n}) \cup {n}) \cup {Leaf(k)}
<1>13. Extended(c, c2, S, S2, k, v, ref) /\ s.n \in S /\ DOMAIN big \subseteq TypeWords(big[Hdr].type)
  <2>1. k \in Keys /\ Stored(c, c2, s.ref, n, {n}, k, v) /\ Shows(c2[n], big)
    BY <1>3, <1>5, <1>12, Zenon
  <2>2. /\ Extended(c, c2, S, ((S \ {s.n}) \cup {n}) \cup {Leaf(k)}, k, v, s.ref)
        /\ s.n \in S /\ DOMAIN big \subseteq TypeWords(big[Hdr].type)
    BY ONLY <1>11, <2>1, GrewExtended
  <2> QED BY <1>5, <2>2, Zenon
<1>14. ref \notin first /\ DOMAIN st \subseteq first \cup {ref}
  <2>1. ASSUME NEW e \in DOMAIN st PROVE e \in first \cup {ref}
    <3>1. e \in DOMAIN Word(ref, n) \/ e \in DOMAIN Object(n, big)
      BY <1>5, InBoth
    <3>2. e \in DOMAIN Word(ref, n) => e = ref
      BY InWord
    <3>3. CASE e \in DOMAIN Object(n, big)
      <4>1. e \in {n} \X DOMAIN big
        BY <3>3, InObject
      <4> QED BY <1>13, <4>1 DEF Lines1
    <3> QED BY <3>1, <3>2, <3>3, Zenon
  <2>2. ref[1] # n
    BY <1>9, <1>10, ObjectsAre DEF PointsAt
  <2> QED BY <2>1, <2>2 DEF Lines1
<1>15. ref \in Lines(mem)
  <2>1. Framed(mem.cache)
    BY <1>5, <1>7
  <2> QED BY <1>9, <2>1, LinesAre, ZenonT(30)
<1>16. {s.n} \subseteq used' /\ used' \subseteq INodes /\ used' \ {s.n} = S2 \cap INodes
  <2>1. Leaf(k) \notin INodes /\ s.n # n
    BY <1>3, <1>10, <1>13, ObjectsAre
  <2> QED BY <1>4, <1>6, <1>8, <1>10, <1>13, <2>1
<1>17. op' \in Durable!Ops /\ op'.key = k /\ op'.value = v
  BY <1>1, <1>2, <1>3, Zenon
<1> HIDE DEF first
<1>18. Extended(c, c2, S, S2, k, v, ref) /\ c = mem.cache /\ c2 = Store(mem, st).cache
  BY <1>5, <1>13, Zenon
<1> HIDE DEF S2
<1>19. RInv' /\ at'.early = {} /\ ContentOf(mem'.nvm) = ContentOf(mem.nvm)
  <2>1. Trees(S, S) /\ Kept(mem.cache, mem.nvm, S) /\ Sound(mem, {}) /\ k \in Keys /\ v \in Values
    BY <1>3, <1>4
  <2>2. Build(st, first, ref, {s.n}, {}, "flush")
    BY <1>6
  <2> QED BY ONLY <1>14, <1>15, <1>16, <1>17, <1>18, <2>1, <2>2, BuildStep
<1> QED BY <1>1, <1>3, <1>19, OnMap, Zenon

\* A write-back of lines other than the one that publishes does not change the map.
LEMMA WriteStep ==
  ASSUME NEW S, NEW S2, Trees(S, S2), Begun(S, S2), pc' \in {"flush", "entry", "publish"},
         op' = op /\ at' = at /\ used' = used,
         NEW K, at.ref \notin K, NEW f, mem' = f, Written(mem, f, K), Sound(f, Owed')
  PROVE  RInv' /\ MapStep
<1>1. PICK m, ref : m = mem /\ ref = at.ref
  OBVIOUS
<1>2. /\ Framed(m.cache) /\ Tree(m.nvm, S) /\ Tree(m.cache, S2) /\ Valued(m.nvm, S) /\ Valued(m.cache, S2)
  BY <1>1 DEF Trees
<1>3. Still(m.cache, m.nvm, S, ref) /\ ref \notin K /\ Written(m, f, K)
  BY <1>1 DEF Begun
<1>4. /\ Tree(f.nvm, S) /\ (Valued(m.nvm, S) => Valued(f.nvm, S)) /\ ContentOf(f.nvm) = ContentOf(m.nvm)
      /\ Still(f.cache, f.nvm, S, ref) /\ f.cache = m.cache /\ Lines(f) = Lines(m)
  BY <1>2, <1>3, WrittenTree
<1>5. Trees(S, S2)'
  BY <1>1, <1>2, <1>4 DEF Trees
<1>6. Begun(S, S2)'
  BY <1>1, <1>4 DEF Begun, Sheltered
<1>7. ContentOf(mem'.nvm) = ContentOf(mem.nvm)
  BY <1>1, <1>4
<1>8. RInv'
  BY <1>5, <1>6 DEF RInv, Phase
<1>9. at.early = {} /\ at'.early = {}
  BY DEF Begun, Sheltered
<1> QED BY <1>7, <1>8, <1>9, OnMap

\* Nor does one between a leaf's flush and add_child.
LEMMA WriteAdd ==
  ASSUME NEW S, NEW S2, Trees(S, S2), Add(S, S2), pc' = "add",
         op' = op /\ at' = at /\ used' = used,
         NEW K, at.ref \notin K, NEW f, mem' = f, Written(mem, f, K), Sound(f, Owed')
  PROVE  RInv' /\ MapStep
<1>1. PICK m, ref : m = mem /\ ref = at.ref
  OBVIOUS
<1>2. S2 = S /\ Framed(m.cache) /\ Tree(m.nvm, S) /\ Tree(m.cache, S) /\ Valued(m.nvm, S) /\ Valued(m.cache, S)
  BY <1>1 DEF Trees, Add
<1>3. Kept(m.cache, m.nvm, S) /\ ref \notin K /\ Written(m, f, K)
  BY <1>1 DEF Add
<1>4. Still(m.cache, m.nvm, S, ref)
  BY <1>3 DEF Still, Kept
<1>5. /\ Tree(f.nvm, S) /\ (Valued(m.nvm, S) => Valued(f.nvm, S)) /\ ContentOf(f.nvm) = ContentOf(m.nvm)
      /\ f.cache = m.cache /\ \A o \in {0} \cup S : \A w \in Words(f.nvm, o) : f.nvm[o][w] = m.nvm[o][w]
      /\ \A o \in {0} \cup S : Words(f.nvm, o) = Words(m.nvm, o)
  BY <1>2, <1>3, <1>4, WrittenTree
<1>6. Kept(f.cache, f.nvm, S)
  BY <1>3, <1>5 DEF Kept
<1>7. Trees(S, S)'
  BY <1>1, <1>2, <1>5 DEF Trees
<1>8. Add(S, S)'
  BY <1>1, <1>2, <1>5, <1>6 DEF Add
<1>9. ContentOf(mem'.nvm) = ContentOf(mem.nvm)
  BY <1>1, <1>5
<1>10. RInv'
  BY <1>7, <1>8 DEF RInv, Phase
<1>11. at.early = {} /\ at'.early = {}
  BY DEF Add, NoLocals
<1> QED BY <1>9, <1>10, <1>11, OnMap

\* Flush (PART.c, the flushes before the word or pointer that publishes).
LEMMA StepFlush ==
  ASSUME RInv, Flush, ~Exposed
  PROVE  RInv' /\ MapStep
<1>0. at.early = {} /\ \E S, S2 : Trees(S, S2) /\ Phase(S, S2)
  BY TreesAre
<1>1. PICK S, S2 : Trees(S, S2) /\ Phase(S, S2)
  BY <1>0
<1>2. /\ pc \in {"flush", "entry"} /\ pc' = "publish" /\ op' = op /\ at' = at /\ used' = used
      /\ mem' = flush_buffer(mem, at.new, FALSE)
  BY DEF Flush
<1>3. Begun(S, S2)
  BY <1>1, <1>2 DEF Phase
<1>4. PICK m, f, K, ref : m = mem /\ f = mem' /\ K = at.new /\ ref = at.ref
  OBVIOUS
<1>5. f = flush_buffer(m, K, FALSE) /\ Sound(m, K \cup {ref}) /\ ref \notin K
  BY <1>2, <1>3, <1>4 DEF RInv, Owed, Begun
<1>6. Written(m, f, K)
  BY <1>5, FlushWords
<1>7. Sound(f, {ref})
  <2>1. Sound(flush_buffer(m, K, FALSE), (K \cup {ref}) \ K)
    BY <1>5, FlushSound
  <2>2. (K \cup {ref}) \ K = {ref}
    BY <1>5
  <2> QED BY <1>5, <2>1, <2>2
<1>8. Owed' = {ref}
  BY <1>2, <1>4 DEF Owed
<1>9. /\ pc' \in {"flush", "entry", "publish"} /\ at.ref \notin K /\ mem' = f /\ Written(mem, f, K)
      /\ Sound(f, Owed') /\ op' = op /\ at' = at /\ used' = used /\ Trees(S, S2)
  BY <1>1, <1>2, <1>4, <1>5, <1>6, <1>7, <1>8
<1> QED BY ONLY <1>3, <1>9, WriteStep

\* A line replaced.
LEMMA StepEvict ==
  ASSUME RInv, Evict, ~Exposed
  PROVE  RInv' /\ MapStep
<1>0. at.early = {} /\ \E S, S2 : Trees(S, S2) /\ Phase(S, S2)
  BY TreesAre
<1>1. PICK S, S2 : Trees(S, S2) /\ Phase(S, S2)
  BY <1>0
<1>2. PICK l \in Dirty(mem) \ {at.ref} : mem' = WriteBack(mem, {l})
  BY DEF Evict
<1>3. op' = op /\ at' = at /\ used' = used /\ pc' = pc
  BY DEF Evict
<1>4. \/ pc \in {"flush", "entry", "publish"} /\ Begun(S, S2)
      \/ pc = "add" /\ Add(S, S2)
  <2>1. pc \notin {"idle", "return", "down"}
    BY <1>2 DEF Dirty, RInv
  <2> QED BY <1>1, <2>1 DEF Phase
<1>5. PICK m, f, K, L0 : m = mem /\ f = mem' /\ K = {l} /\ L0 = Owed
  OBVIOUS
<1>6. Sound(m, L0) /\ f = WriteBack(m, K)
  BY <1>2, <1>5 DEF RInv
<1>7. Written(m, f, K)
  BY <1>6, WriteBackWords
<1>8. Sound(f, L0)
  <2>1. Sound(WriteBack(m, K), L0 \ K)
    BY <1>6, WriteBackSound
  <2>2. L0 \ K \subseteq L0
    OBVIOUS
  <2> QED BY <1>6, <2>1, <2>2, SoundMore
<1>9. Owed' = L0
  BY <1>3, <1>5 DEF Owed
<1>10. /\ at.ref \notin K /\ mem' = f /\ Written(mem, f, K)
       /\ Sound(f, Owed') /\ op' = op /\ at' = at /\ used' = used /\ Trees(S, S2)
  BY <1>1, <1>2, <1>3, <1>5, <1>7, <1>8, <1>9
<1>11. CASE pc \in {"flush", "entry", "publish"} /\ Begun(S, S2)
  <2>1. pc' \in {"flush", "entry", "publish"} /\ Begun(S, S2)
    BY <1>3, <1>11, Zenon
  <2> QED BY ONLY <1>10, <2>1, WriteStep
<1>12. CASE pc = "add" /\ Add(S, S2)
  <2>1. pc' = "add" /\ Add(S, S2)
    BY <1>3, <1>12
  <2> QED BY ONLY <1>10, <2>1, WriteAdd
<1> QED BY <1>4, <1>11, <1>12

\* Publish (PART.c, the fenced flush of the commit word or the pointer): the map
\* changes.
LEMMA StepPublish ==
  ASSUME RInv, Publish, ~Exposed
  PROVE  RInv' /\ MapStep
<1>0. at.early = {} /\ \E S, S2 : Trees(S, S2) /\ Phase(S, S2)
  BY TreesAre
<1>1. PICK S, S2 : Trees(S, S2) /\ Phase(S, S2)
  BY <1>0
<1>2. /\ pc = "publish" /\ pc' = "return" /\ op' = op /\ at' = [at EXCEPT !.early = {}] /\ used' = used
      /\ mem' = flush_buffer(mem, {at.ref}, TRUE)
  BY DEF Publish
<1>3. Begun(S, S2)
  BY <1>1, <1>2 DEF Phase
<1>4. mem'.nvm = mem'.cache /\ mem'.cache = mem.cache /\ Sound(mem', {})
  <2>1. Sound(mem, {at.ref})
    BY <1>2 DEF RInv, Owed
  <2> QED BY <1>2, <2>1, FencedFlush
<1>5. Trees(S2, S2)'
  BY <1>1, <1>2, <1>4 DEF Trees
<1>6. ContentOf(mem'.nvm) = [ContentOf(mem.nvm) EXCEPT ![op.key] = op.value]
  BY <1>3, <1>4 DEF Begun
<1>7. op \in Durable!Ops /\ op.key \in Keys
  BY <1>3 DEF Begun, Durable!Ops
<1>8. ContentOf(mem'.nvm)[op.key] = op.value
  BY <1>6, <1>7 DEF ContentOf
<1>8a. at'.early = {} /\ at'.ref = at.ref /\ at'.freed = at.freed /\ Sheltered'
  BY <1>2, <1>3 DEF Begun, Sheltered
<1>9. Done(S2, S2)'
  <2>1. Lines(mem') = Lines(mem)
    BY <1>4 DEF Lines
  <2>2. at.freed \subseteq used /\ used \subseteq INodes /\ used \ at.freed = S2 \cap INodes
    BY <1>3 DEF Begun
  <2> QED BY <1>2, <1>3, <1>7, <1>8, <1>8a, <2>1, <2>2 DEF Done, Begun
<1>10. Owed' = {}
  BY <1>2 DEF Owed
<1>11. RInv'
  BY <1>2, <1>4, <1>5, <1>9, <1>10 DEF RInv, Phase
<1>12. MapStep
  <2>0. MediumContent' = [MediumContent EXCEPT ![op.key] = op.value]
    BY <1>0, <1>6, <1>8a, MapIs, MapWillBe
  <2>1. Durable!Take
    BY <1>2, <1>7, <2>0 DEF Durable!Take, Durable!Effect
  <2> QED BY <2>1 DEF MapStep, Durable!Next
<1> QED BY <1>11, <1>12

\* Return (PART.c, free of a node that was outgrown).
LEMMA StepReturn ==
  ASSUME RInv, Return
  PROVE  RInv' /\ MapStep
<1>0. at.early = {} /\ \E S, S2 : Trees(S, S2) /\ Phase(S, S2)
  BY TreesAre DEF Return
<1>1. PICK S, S2 : Trees(S, S2) /\ Phase(S, S2)
  BY <1>0
<1>2. /\ pc = "return" /\ pc' = "idle" /\ op' = NoOp /\ at' = NoLocals /\ used' = used \ at.freed /\ mem' = mem
  BY DEF Return
<1>3. Done(S, S2) /\ mem.nvm = mem.cache /\ Sound(mem, {})
  BY <1>1, <1>2 DEF Phase, RInv, Owed
<1>4. Trees(S, S2)'
  BY <1>1, <1>2 DEF Trees
<1>5. Idle(S, S2)'
  BY <1>2, <1>3 DEF Idle, Done
<1>6. Owed' = {}
  BY <1>2 DEF Owed
<1>7. RInv'
  BY <1>2, <1>3, <1>4, <1>5, <1>6 DEF RInv, Phase
<1>8. MapStep
  <2>1. ContentOf(mem.nvm) = [ContentOf(mem.nvm) EXCEPT ![op.key] = op.value]
    BY <1>3 DEF Done, ContentOf
  <2>0. at'.early = {}
    BY <1>2 DEF NoLocals
  <2>2. MediumContent = ContentOf(mem.nvm) /\ MediumContent' = MediumContent
    BY <1>0, <1>2, <2>0, MapIs, MapWillBe
  <2>3. Durable!Return
    BY <1>2, <1>3, <2>1, <2>2 DEF Durable!Return, Durable!Effect, Durable!NoOp, NoOp, Done
  <2> QED BY <2>3 DEF MapStep, Durable!Next
<1> QED BY <1>7, <1>8

\* Power lost: the medium's tree is what is left.
LEMMA StepPowerLost ==
  ASSUME RInv, PowerLost, ~Exposed
  PROVE  RInv' /\ MapStep
<1>0. at.early = {} /\ \E S, S2 : Trees(S, S2) /\ Phase(S, S2)
  BY TreesAre
<1>1. PICK S, S2 : Trees(S, S2) /\ Phase(S, S2)
  BY <1>0
<1>2. pc # "down" /\ pc' = "down" /\ op' = Down /\ at' = NoLocals /\ used' = used /\ mem' = PowerLoss(mem)
  BY <1>0 DEF PowerLost, NoLocals
<1>3. mem'.cache = mem.nvm /\ mem'.nvm = mem.nvm
  BY <1>2 DEF PowerLoss
<1>4. used \subseteq INodes
  BY <1>1, <1>2 DEF Phase, Begun, Add, Idle, Done
<1>5. Sound(mem, Owed)
  BY DEF RInv
<1>6. Framed(mem.nvm)
  BY <1>1, <1>5 DEF Sound, Shaped, Trees, Framed
<1>7. Trees(S, S)'
  BY <1>1, <1>3, <1>6 DEF Trees
<1>8. Lost(S, S)'
  BY <1>2, <1>4 DEF Lost
<1>9. Sound(mem', {})
  BY <1>2, <1>5, PowerLossSound
<1>10. Owed' = {}
  BY <1>2 DEF Owed
<1>11. RInv'
  BY <1>2, <1>3, <1>7, <1>8, <1>9, <1>10 DEF RInv, Phase
<1>12. MapStep
  <2>0. MediumContent' = MediumContent
    BY <1>0, <1>2, <1>3, MapIs, MapWillBe
  <2>1. Durable!PowerLoss
    BY <1>2, <2>0 DEF Durable!PowerLoss, Down, Durable!Down
  <2> QED BY <2>1 DEF MapStep, Durable!Next
<1> QED BY <1>11, <1>12

\* The inner nodes the program reaches are the tree's.
LEMMA ReachableIs ==
  ASSUME NEW c, NEW S, Tree(c, S)
  PROVE  Reachable(c) = S \cap INodes
<1>1. PICK v : v = View(c)
  OBVIOUS
<1>2. PICK dep, rep : L!Shape(Form, v, S, dep, rep)
  BY <1>1, TreeIs
<1>3. AllLaid(c, S)
  BY <1>1, TreeIs
<1> QED BY <1>1, <1>2, <1>3, ReachIs

\* A restart: what the tree holds is in use, nothing else.
LEMMA StepRestart ==
  ASSUME RInv, Restart
  PROVE  RInv' /\ MapStep
<1>0. at.early = {} /\ \E S, S2 : Trees(S, S2) /\ Phase(S, S2)
  BY TreesAre DEF Restart
<1>1. PICK S, S2 : Trees(S, S2) /\ Phase(S, S2)
  BY <1>0
<1>2. pc = "down" /\ pc' = "idle" /\ op' = NoOp /\ at' = at /\ used' = Reachable(mem.cache) /\ mem' = mem
  BY DEF Restart
<1>3. Lost(S, S2) /\ mem.nvm = mem.cache /\ Sound(mem, {})
  BY <1>1, <1>2 DEF Phase, RInv, Owed
<1>4. Reachable(mem.cache) = S \cap INodes
  <2>1. PICK c : c = mem.cache
    OBVIOUS
  <2>2. Tree(c, S)
    BY <1>1, <1>3, <2>1 DEF Trees
  <2> QED BY <2>1, <2>2, ReachableIs
<1>5. Trees(S, S2)'
  BY <1>1, <1>2 DEF Trees
<1>6. Idle(S, S2)'
  BY <1>2, <1>3, <1>4 DEF Idle, Lost
<1>7. Owed' = {}
  BY <1>2 DEF Owed
<1>8. RInv'
  BY <1>2, <1>3, <1>5, <1>6, <1>7 DEF RInv, Phase
<1>9. MapStep
  <2>0. MediumContent' = MediumContent
    BY <1>0, <1>2, MapIs, MapWillBe
  <2>1. Durable!Restart
    BY <1>2, <1>3, <2>0 DEF Durable!Restart, Lost, Down, Durable!Down, NoOp, Durable!NoOp
  <2> QED BY <2>1 DEF MapStep, Durable!Next
<1> QED BY <1>8, <1>9

-----------------------------------------------------------------------------
(* The steps where the medium's tree may be overwritten *)

\* A line written back.
LEMMA RiskStep ==
  ASSUME NEW S2, Risked(S2), pc' \in {"flush", "publish"}, op' = op /\ at' = at /\ used' = used,
         mem'.cache = mem.cache, Sound(mem', Owed')
  PROVE  RInv' /\ MapStep
<1>1. Lines(mem') = Lines(mem)
  BY DEF Lines
<1>2. Risked(S2)'
  BY <1>1 DEF Risked, Exposed
<1>3. RInv'
  BY <1>2 DEF RInv
<1>4. MediumContent' = MediumContent
  BY MapIs, MapWillBe DEF Risked, Exposed
<1> QED BY <1>3, <1>4 DEF MapStep

LEMMA RiskFlush ==
  ASSUME RInv, Flush, Exposed
  PROVE  RInv' /\ MapStep
<1>1. pc \in {"flush", "entry"} /\ pc' = "publish" /\ op' = op /\ at' = at /\ used' = used
  BY DEF Flush
<1>2. PICK S2 : Risked(S2)
  BY <1>1, TreesElse DEF Ruined
<1>3. PICK m, f, K, ref : m = mem /\ f = mem' /\ K = at.new /\ ref = at.ref
  OBVIOUS
<1>4. f = flush_buffer(m, K, FALSE) /\ Sound(m, K \cup {ref})
  BY <1>1, <1>3 DEF RInv, Owed, Flush
<1>5. Sound(f, (K \cup {ref}) \ K) /\ f.cache = m.cache
  BY <1>4, FlushSound
<1>6. Sound(f, {ref})
  BY <1>5, SoundMore
<1>7. Owed' = {ref}
  BY <1>1, <1>3 DEF Owed
<1> QED BY <1>1, <1>2, <1>3, <1>5, <1>6, <1>7, RiskStep

LEMMA RiskEvict ==
  ASSUME RInv, Evict, Exposed
  PROVE  RInv' /\ MapStep
<1>1. PICK l \in Dirty(mem) : mem' = WriteBack(mem, {l})
  BY DEF Evict
<1>2. op' = op /\ at' = at /\ used' = used /\ pc' = pc
  BY DEF Evict
<1>3. pc # "down"
  BY <1>1 DEF Dirty, RInv
<1>4. PICK S2 : Risked(S2)
  BY <1>3, TreesElse DEF Ruined
<1>5. PICK m, f, K, L0 : m = mem /\ f = mem' /\ K = {l} /\ L0 = Owed
  OBVIOUS
<1>6. Sound(m, L0) /\ f = WriteBack(m, K)
  BY <1>1, <1>5 DEF RInv
<1>7. Sound(f, L0 \ K) /\ f.cache = m.cache
  BY <1>6, WriteBackSound
<1>8. Sound(f, L0)
  BY <1>7, SoundMore
<1>9. Owed' = L0
  BY <1>2, <1>5 DEF Owed
<1>10. pc' \in {"flush", "publish"}
  BY <1>2, <1>4 DEF Risked
<1> QED BY <1>2, <1>4, <1>5, <1>7, <1>8, <1>9, <1>10, RiskStep

\* The pointer leads to the new tree: the map changes, and is the medium's again.
LEMMA RiskPublish ==
  ASSUME RInv, Publish, Exposed
  PROVE  RInv' /\ MapStep
<1>1. /\ pc = "publish" /\ pc' = "return" /\ op' = op /\ used' = used
      /\ at' = [at EXCEPT !.early = {}] /\ mem' = flush_buffer(mem, {at.ref}, TRUE)
  BY DEF Publish
<1>2. PICK S2 : Risked(S2)
  BY <1>1, TreesElse DEF Ruined
<1>3. mem'.nvm = mem'.cache /\ mem'.cache = mem.cache /\ Sound(mem', {})
  <2>1. Sound(mem, {at.ref})
    BY <1>1 DEF RInv, Owed
  <2> QED BY <1>1, <2>1, FencedFlush
<1>4. Trees(S2, S2)'
  BY <1>2, <1>3 DEF Trees, Risked
<1>5. at'.early = {} /\ at'.ref = at.ref /\ at'.freed = {} /\ Sheltered'
  BY <1>1, <1>2 DEF Risked, Sheltered
<1>6. op \in Durable!Ops /\ op.key \in Keys
  BY <1>2 DEF Risked, Durable!Ops
<1>7. ContentOf(mem'.nvm) = ContentOf(mem.cache) /\ ContentOf(mem.cache)[op.key] = op.value
  BY <1>2, <1>3 DEF Risked
<1>8. Done(S2, S2)'
  <2>1. Lines(mem') = Lines(mem)
    BY <1>3 DEF Lines
  <2>2. at.ref \in Lines(mem) /\ used = S2 \cap INodes
    BY <1>2 DEF Risked
  <2> QED BY <1>1, <1>5, <1>6, <1>7, <2>1, <2>2 DEF Done
<1>9. Owed' = {}
  BY <1>1 DEF Owed
<1>10. RInv'
  BY <1>1, <1>3, <1>4, <1>8, <1>9 DEF RInv, Phase
<1>11. MediumContent' = [MediumContent EXCEPT ![op.key] = op.value]
  <2>1. PICK M : M = ContentOf(mem.cache)
    OBVIOUS
  <2>2. MediumContent' = M /\ MediumContent = [M EXCEPT ![op.key] = NULL]
    BY <1>1, <1>5, <1>7, <2>1, MapIs, MapWillBe
  <2>3. M = [k \in Keys |-> art_search(mem.cache, k)] /\ M[op.key] = op.value
    BY <1>7, <2>1 DEF ContentOf
  <2> QED BY <1>6, <2>2, <2>3
<1>12. MapStep
  <2>1. Durable!Take
    BY <1>1, <1>6, <1>11 DEF Durable!Take, Durable!Effect
  <2> QED BY <2>1 DEF MapStep, Durable!Next
<1> QED BY <1>10, <1>12

\* Power lost: what the medium leads to is not known.
LEMMA RiskPowerLost ==
  ASSUME RInv, PowerLost, Exposed
  PROVE  RInv' /\ MapStep
<1>1. /\ pc # "down" /\ pc' = "down" /\ op' = Down /\ used' = used /\ mem' = PowerLoss(mem)
      /\ at' = [NoLocals EXCEPT !.early = at.early]
  BY DEF PowerLost
<1>2. PICK S2 : Risked(S2)
  BY <1>1, TreesElse DEF Ruined
<1>3. at'.early = at.early /\ at'.freed = {} /\ at'.ref = Root
  BY <1>1 DEF NoLocals
<1>4. Sound(mem', {}) /\ mem'.cache = mem.nvm /\ mem'.nvm = mem.nvm
  <2>1. Sound(mem, Owed)
    BY DEF RInv
  <2> QED BY <1>1, <2>1, PowerLossSound DEF PowerLoss
<1>5. Root \in Lines(mem')
  <2>1. Framed(mem.cache) /\ Sound(mem, Owed)
    BY <1>2 DEF Risked, RInv
  <2>2. Framed(mem'.cache)
    BY <1>4, <2>1 DEF Sound, Shaped, Framed
  <2>3. 0 \in Objs /\ Child(0) \in Fields(0)
    BY DEF Objs, Fields
  <2> QED BY <2>2, <2>3 DEF Lines, Framed, Root
<1>6. Ruined'
  <2>1. used \subseteq INodes
    BY <1>2 DEF Risked
  <2> QED BY <1>1, <1>3, <1>5, <2>1 DEF Ruined, Exposed
<1>7. Owed' = {}
  BY <1>1 DEF Owed
<1>8. RInv'
  BY <1>4, <1>6, <1>7 DEF RInv
<1>9. LostWhileExposed
  BY <1>1 DEF LostWhileExposed
<1> QED BY <1>8, <1>9 DEF MapStep

-----------------------------------------------------------------------------
(* The beginning *)

\* The empty tree.
LEMMA EmptyTree ==
  ASSUME NEW c, c[0][Child(0)] = NULL, NEW none, none = {}
  PROVE  Tree(c, none) /\ Valued(c, none) /\ ContentOf(c) = [k \in Keys |-> NULL]
<1>1. PICK v : v = View(c)
  OBVIOUS
<1>2. v[0][0] = NULL
  BY <1>1, ViewIs
<1>3. \E dep, rep : L!Shape(Form, v, none, dep, rep)
  <2>1. PICK dep, rep : dep = <<>> /\ rep = <<>>
    OBVIOUS
  <2>2. L!Above(none) = {0} /\ \A o \in L!Above(none) : \A w \in L!Ways(o) : v[o][w] = NULL
    BY <1>2 DEF L!Above, L!Ways
  <2>3. L!Placed(none, dep, rep)
    BY <2>1 DEF L!Placed
  <2>4. L!Headed(Form, v, none, dep, rep) /\ L!Forked(v, none) /\ L!Holding(v, none, rep)
    BY DEF L!Headed, L!Forked, L!Holding
  <2>5. L!Hanging(v, none, dep, rep) /\ L!Hung(v, none) /\ L!Once(v, none)
    BY <2>2 DEF L!Hanging, L!Hung, L!Once
  <2> QED BY <2>3, <2>4, <2>5 DEF L!Shape
<1>4. L!Tree(Form, v, none)
  BY <1>3 DEF L!Tree, L!Formed, L!Branching
<1>5. Tree(c, none)
  BY <1>1, <1>4 DEF Tree, AllLaid, AllTight
<1>6. Valued(c, none)
  BY DEF Valued
<1>7. ContentOf(c) = [k \in Keys |-> IF Leaf(k) \in none THEN c[Leaf(k)][Value] ELSE NULL]
  BY <1>5, ContentIs
<1> QED BY <1>5, <1>6, <1>7

\* The objects as they are formatted.
LEMMA BlankIs ==
  /\ \A o \in Objs : DOMAIN Blank(o) = Fields(o) /\ IsFunction(Blank(o))
  /\ Blank(0)[Child(0)] = NULL
<1>1. ASSUME NEW f, NEW g PROVE IsFunction(Both(f, g)) /\ DOMAIN Both(f, g) = DOMAIN f \cup DOMAIN g
  BY DEF Both, IsFunction
<1>2. ASSUME NEW l, NEW x PROVE IsFunction(Word(l, x)) /\ DOMAIN Word(l, x) = {l} /\ Word(l, x)[l] = x
  BY DEF Word, IsFunction
<1>3. Blank(0) = Word(Child(0), NULL)
  BY DEF Blank
<1>4. ASSUME NEW o \in Leaves PROVE DOMAIN Blank(o) = Fields(o) /\ IsFunction(Blank(o))
  <2>1. Blank(o) = MakeLeaf(NULL, NULL)
    BY ObjectsAre DEF Blank
  <2>2. IsFunction(MakeLeaf(NULL, NULL))
    BY <1>1 DEF MakeLeaf
  <2> QED BY <2>1, <2>2, LeafWords, ObjectsAre DEF Fields
<1>5. ASSUME NEW o \in INodes PROVE DOMAIN Blank(o) = Fields(o) /\ IsFunction(Blank(o))
  <2>1. PICK f, g : /\ f = alloc_node(NODE4, <<>>)
                    /\ g = [w \in NodeWords |-> IF w \in AllBits THEN [k |-> {}, p |-> {}] ELSE NULL]
    OBVIOUS
  <2>2. Blank(o) = Both(f, g) /\ DOMAIN g = NodeWords
    BY <2>1, ObjectsAre DEF Blank
  <2>3. DOMAIN f \subseteq {Hdr, Slots}
    <3>1. f = Both(Word(Hdr, Header(NODE4, <<>>)), Word(Slots, <<>>))
      BY <2>1, Caps DEF alloc_node
    <3>2. PICK x, y : x = Word(Hdr, Header(NODE4, <<>>)) /\ y = Word(Slots, <<>>)
      OBVIOUS
    <3>3. DOMAIN x = {Hdr} /\ DOMAIN y = {Slots}
      BY <1>2, <3>2
    <3>4. DOMAIN f = DOMAIN x \cup DOMAIN y
      BY <1>1, <3>1, <3>2
    <3> QED BY <3>3, <3>4
  <2>4. Hdr \in NodeWords /\ Slots \in NodeWords
    <3>1. NODE4 \in NODE4 .. NODE256 /\ Hdr \in TypeWords(NODE4) /\ Slots \in TypeWords(NODE4)
      BY TypeWordsAre, Caps
    <3> QED BY <3>1, TypeWordsAre
  <2> QED BY <1>1, <2>2, <2>3, <2>4, ObjectsAre, ZenonT(30) DEF Fields
<1>6. DOMAIN Blank(0) = Fields(0) /\ IsFunction(Blank(0)) /\ Blank(0)[Child(0)] = NULL
  <2>1. Fields(0) = {Child(0)}
    BY DEF Fields
  <2>2. IsFunction(Word(Child(0), NULL)) /\ DOMAIN Word(Child(0), NULL) = {Child(0)} /\ Word(Child(0), NULL)[Child(0)] = NULL
    BY <1>2
  <2> QED BY <1>3, <2>1, <2>2
<1> QED BY <1>4, <1>5, <1>6 DEF Objs

\* Formatted memory holds the empty tree.
LEMMA InitState ==
  ASSUME Init
  PROVE  RInv /\ ContentOf(mem.nvm) = [k \in Keys |-> NULL] /\ op = NoOp /\ at.early = {}
<1>1. PICK c : c = [o \in Objs |-> Blank(o)]
  OBVIOUS
<1>2. mem = Formatted(c) /\ used = {} /\ op = NoOp /\ pc = "idle" /\ at = NoLocals
  BY <1>1 DEF Init, Objs
<1>3. mem.cache = c /\ mem.nvm = c
  BY <1>2 DEF Formatted
<1>4. 0 \in Objs /\ DOMAIN c = Objs /\ IsFunction(c) /\ \A o \in Objs : c[o] = Blank(o)
  BY <1>1 DEF Objs, IsFunction
<1>5. Framed(c) /\ c[0][Child(0)] = NULL /\ \A o \in DOMAIN c : IsFunction(c[o])
  BY <1>4, BlankIs DEF Framed
<1>6. Sound(mem, {})
  BY <1>2, <1>4, <1>5, FormattedSound
<1>7. Tree(c, {}) /\ Valued(c, {}) /\ ContentOf(c) = [k \in Keys |-> NULL]
  <2>1. PICK none : none = {}
    OBVIOUS
  <2>2. Tree(c, none) /\ Valued(c, none) /\ ContentOf(c) = [k \in Keys |-> NULL]
    BY <1>5, <2>1, EmptyTree
  <2> QED BY <2>1, <2>2
<1>8. Trees({}, {}) /\ Idle({}, {})
  BY <1>2, <1>3, <1>5, <1>7 DEF Trees, Idle
<1>9. Owed = {}
  BY <1>2 DEF Owed
<1> QED BY <1>2, <1>3, <1>6, <1>7, <1>8, <1>9 DEF RInv, Phase, NoLocals
-----------------------------------------------------------------------------
(* The theorems about the tree *)

\* Each step keeps RInv, and is a step of the durable map or none.
LEMMA RStep == RInv /\ [Next]_vars => RInv' /\ MapStep
<1> SUFFICES ASSUME RInv, [Next]_vars PROVE RInv' /\ MapStep
  OBVIOUS
<1>1. ASSUME NEW a \in Inserts PROVE a[1] \in Keys /\ a[2] \in Values
  BY CallsAre
<1>2. ASSUME NEW a \in Updates PROVE a[1] \in Keys /\ a[2] \in Values
  BY CallsAre
<1>3. ASSUME NEW a \in Inserts, InsertRoot(a[1], a[2]) PROVE RInv' /\ MapStep
  BY <1>1, <1>3, StepInsertRoot
<1>4. ASSUME NEW a \in Inserts, InsertBeside(a[1], a[2]) PROVE RInv' /\ MapStep
  BY <1>1, <1>4, StepInsertBeside
<1>5. ASSUME NEW a \in Inserts, SplitPrefix(a[1], a[2]) PROVE RInv' /\ MapStep
  BY <1>1, <1>5, StepSplitPrefix
<1>6. ASSUME NEW a \in Inserts, InsertBelow(a[1], a[2]) PROVE RInv' /\ MapStep
  BY <1>1, <1>6, StepInsertBelow
<1>7. ASSUME NEW a \in Updates, Update(a[1], a[2]) PROVE RInv' /\ MapStep
  BY <1>2, <1>7, StepUpdate
<1>8. CASE UNCHANGED vars
  <2>1. ASSUME NEW S, NEW S2, Trees(S, S2) /\ Phase(S, S2) PROVE Trees(S, S2)' /\ Phase(S, S2)'
    BY <1>8, <2>1 DEF vars, Trees, Phase, Begun, Sheltered, Add, Idle, Done, Lost
  <2>2. ASSUME NEW S2, Risked(S2) PROVE Risked(S2)'
    BY <1>8, <2>2 DEF vars, Risked, Exposed
  <2>3. Ruined => Ruined'
    BY <1>8 DEF vars, Ruined, Exposed
  <2>4. Sound(mem', Owed') /\ (pc' \in {"idle", "return", "down"} => mem'.nvm = mem'.cache)
    BY <1>8 DEF vars, RInv, Owed
  <2>5. MediumContent' = MediumContent
    BY <1>8 DEF vars, MediumContent, Exposed
  <2> QED BY <1>8, <2>1, <2>2, <2>3, <2>4, <2>5 DEF RInv, MapStep, vars
<1>9. CASE Next
  <2>1. ASSUME NEW a \in Inserts,
               InsertRoot(a[1], a[2]) \/ InsertBeside(a[1], a[2]) \/ SplitPrefix(a[1], a[2]) \/ InsertBelow(a[1], a[2])
        PROVE  RInv' /\ MapStep
    BY <1>3, <1>4, <1>5, <1>6, <2>1
  <2>2. CASE AddInPlace \/ Grow \/ Flush \/ Publish \/ Return
    BY <2>2, StepAddInPlace, StepGrow, StepFlush, StepPublish, StepReturn, RiskFlush, RiskPublish
  <2>3. CASE Evict \/ PowerLost \/ Restart
    BY <2>3, StepEvict, StepPowerLost, StepRestart, RiskEvict, RiskPowerLost
  <2> QED BY <1>7, <1>9, <2>1, <2>2, <2>3 DEF Next
<1> QED BY <1>8, <1>9

\* RInv is an invariant.
LEMMA TreeIsKnown == Spec => []RInv
<1>1. Init => RInv
  BY InitState
<1>2. RInv /\ [Next]_vars => RInv'
  BY RStep
<1> QED BY <1>1, <1>2, PTL DEF Spec

\* When the commit word's flush begins every other word is on the medium, or on its
\* way there ahead of the fence of that flush, after an addition in place, a growth
\* and each way recursive_insert ends (PART.c, the flush_buffer calls of 530-952).
OthersFirst == pc = "publish" => CleanBut(mem, {at.ref})
THEOREM PublishedLast == Spec => []OthersFirst
<1>1. RInv => OthersFirst
  BY DEF RInv, Owed, Sound, OthersFirst
<1> QED BY <1>1, TreeIsKnown, PTL

\* Between calls the medium holds every word the program has stored, even where
\* only mfence orders clflush.
NothingUnflushed == pc = "idle" => mem.nvm = mem.cache
THEOREM DurableBetweenCalls == Spec => []NothingUnflushed
<1>1. RInv => NothingUnflushed
  BY DEF RInv, NothingUnflushed
<1> QED BY <1>1, TreeIsKnown, PTL

\* PART is a durable map: an insert or update takes effect at the medium all at
\* once, when the commit word of add_child or the one pointer or value reaches it,
\* whatever lines went out before; a search after a restart finds the value of every
\* insert that returned.  Power may be lost anywhere but where the medium leads to a
\* node that SplitPrefix gave back and that was overwritten since; there the insert
\* takes effect at once if power is kept (PART.c, recursive_insert and add_child).
THEOREM Implements == Spec => ImplementsDurableMap
<1>1. Init => Durable!Init
  BY InitState, MapIs DEF Durable!Init, Durable!NoOp, NoOp
<1>2. RInv /\ [Next]_vars => [Durable!Next \/ LostWhileExposed]_(Durable!vars)
  BY RStep, MapIs DEF MapStep, Durable!vars
<1> QED BY <1>1, <1>2, TreeIsKnown, PTL DEF Spec, ImplementsDurableMap

\* The inner nodes handed out are those of the tree the program works on.
LEMMA TreesAccounted ==
  ASSUME RInv, NEW S, NEW S2, Trees(S, S2), Phase(S, S2)
  PROVE  NodesAccounted
<1>2. Reachable(mem.cache) = S2 \cap INodes
  <2>1. PICK c : c = mem.cache
    OBVIOUS
  <2>2. Tree(c, S2)
    BY <2>1 DEF Trees
  <2> QED BY <2>1, <2>2, ReachableIs
<1>3. CASE pc \in {"flush", "entry", "publish"} /\ Begun(S, S2)
  BY <1>2, <1>3 DEF NodesAccounted, Begun
<1>4. CASE pc = "add" /\ Add(S, S2)
  BY <1>2, <1>4 DEF NodesAccounted, Add
<1>5. mem.nvm = mem.cache /\ pc \in {"idle", "return"} => S \cap INodes = Reachable(mem.cache)
  <2>1. PICK n : n = mem.nvm
    OBVIOUS
  <2>2. Tree(n, S)
    BY <2>1 DEF Trees
  <2> QED BY <2>1, <2>2, ReachableIs
<1>6. CASE pc = "idle" /\ Idle(S, S2)
  BY <1>5, <1>6 DEF NodesAccounted, Idle, RInv
<1>7. CASE pc = "return" /\ Done(S, S2)
  BY <1>5, <1>7 DEF NodesAccounted, Done, RInv
<1>8. CASE pc = "down" /\ Lost(S, S2)
  BY <1>8 DEF NodesAccounted
<1> QED BY <1>3, <1>4, <1>6, <1>7, <1>8 DEF Phase

\* No node the program can reach is free, and between operations none is held in
\* vain (PART.c, free of a node that was outgrown, split or lost with power).
THEOREM NoNodeLost == Spec => []NodesAccounted
<1>1. RInv => NodesAccounted
  <2> SUFFICES ASSUME RInv PROVE NodesAccounted
    OBVIOUS
  <2>1. ASSUME NEW S2, Risked(S2) PROVE NodesAccounted
    <3>1. PICK c : c = mem.cache
      OBVIOUS
    <3>2. Reachable(c) = S2 \cap INodes
      BY <2>1, <3>1, ReachableIs DEF Risked
    <3> QED BY <2>1, <3>1, <3>2 DEF NodesAccounted, Risked
  <2>2. CASE Ruined
    BY <2>2 DEF NodesAccounted, Ruined
  <2> QED BY <2>1, <2>2, TreesAccounted DEF RInv
<1> QED BY <1>1, TreeIsKnown, PTL

\* A tree's inner node has its shape.
LEMMA NodeShapely ==
  ASSUME NEW c, NEW S, Tree(c, S), NEW n \in S \cap INodes
  PROVE  Shapely(c[n])
<1>1. PICK v, path : v = View(c) /\ path = c[n][Hdr].path
  OBVIOUS
<1>2. PICK dep, rep : L!Shape(Form, v, S, dep, rep)
  BY <1>1, TreeIs
<1>3. AllLaid(c, S) /\ S \subseteq INodes \cup Leaves
  BY <1>1, TreeIs
<1>4. PICK nd : nd = c[n]
  OBVIOUS
<1>5. Laid(nd)
  BY <1>3, <1>4 DEF AllLaid
<1>6. Len(path) \in 0 .. MAX_DEPTH /\ \A i \in 0 .. FAN - 1 : v[n][i] = find_child(nd, i)
  BY <1>1, <1>2, <1>4, NodeIs
<1>7. Len(nd[Hdr].path) <= MAX_DEPTH
  <2>1. MAX_DEPTH \in Nat
    BY Ground, L!Sizes
  <2> QED BY <1>1, <1>4, <1>6, <2>1
<1>8. ASSUME NEW d \in Present(nd)
      PROVE  /\ Cardinality(PlaceOf(nd, d)) = 1 /\ PlaceOf(nd, d) \subseteq 0 .. Capacity(nd[Hdr].type) - 1
             /\ find_child(nd, d) \in INodes \cup Leaves
  <2>1. d \in Digit /\ d \in 0 .. FAN - 1
    BY DEF Present, Digit
  <2>2. PICK i : i \in PlaceOf(nd, d)
    BY DEF Present
  <2>3. PlaceOf(nd, d) = {i} /\ i \in 0 .. Capacity(nd[Hdr].type) - 1 /\ find_child(nd, d) # NULL
    BY <1>5, <2>1, <2>2, PlaceIs
  <2>4. v[n][d] # NULL /\ v[n][d] = find_child(nd, d) /\ n \in S \cap L!INodes /\ d \in 0 .. L!FAN - 1
    BY <1>6, <2>1, <2>3, Names
  <2>5. v[n][d] \in S
    BY ONLY <1>2, <2>4, Ground, L!ChildIs
  <2>6. Cardinality({i}) = 1
    BY FS_Singleton
  <2> QED BY <1>3, <2>3, <2>4, <2>5, <2>6
<1>9. nd[Hdr].type \in NODE4 .. NODE256
  BY <1>5 DEF Laid, Fits
<1>10. nd[Hdr].type # NODE256 => Cardinality(Taken(nd)) = Cardinality(Present(nd))
  BY <1>5, AsMany
<1> QED BY <1>4, <1>7, <1>8, <1>9, <1>10 DEF Shapely

LEMMA TreeShapely ==
  ASSUME NEW c, NEW S, Tree(c, S)
  PROVE  \A i \in Reachable(c) : Shapely(c[i])
<1> SUFFICES ASSUME NEW i \in Reachable(c) PROVE Shapely(c[i])
  OBVIOUS
<1>1. i \in S \cap INodes
  BY ReachableIs
<1> QED BY <1>1, NodeShapely
LEMMA TreesTyped ==
  ASSUME NEW S, NEW S2, Trees(S, S2), Phase(S, S2)
  PROVE  TypeOK
<1>1. used \subseteq INodes /\ op \in Durable!Ops \cup {NoOp, Down}
  BY DEF Phase, Begun, Add, Idle, Done, Lost
<1>2. at.ref \in Lines(mem) /\ at.freed \subseteq used
  <2>1. Root \in Lines(mem)
    <3>1. Framed(mem.cache) /\ 0 \in Objs /\ Child(0) \in Fields(0)
      BY DEF Trees, Objs, Fields
    <3> QED BY <3>1 DEF Lines, Framed, Root
  <2>2. CASE at = NoLocals
    BY <2>1, <2>2 DEF NoLocals
  <2>3. CASE at # NoLocals
    BY <2>3 DEF Phase, Begun, Add, Idle, Done, Lost
  <2> QED BY <2>2, <2>3
<1>3. PICK m, n : m = mem.cache /\ n = mem.nvm
  OBVIOUS
<1>4. Tree(n, S) /\ Tree(m, S2)
  BY <1>3 DEF Trees
<1>5. (\A i \in Reachable(n) : Shapely(n[i])) /\ (\A i \in Reachable(m) : Shapely(m[i]))
  BY <1>4, TreeShapely
<1> QED BY <1>1, <1>2, <1>3, <1>5 DEF TypeOK
LEMMA RiskTyped ==
  ASSUME NEW S2, Risked(S2)
  PROVE  TypeOK
<1>1. used \subseteq INodes /\ op \in Durable!Ops \cup {NoOp, Down} /\ at.ref \in Lines(mem) /\ at.freed = {} /\ Exposed
  BY DEF Risked
<1>2. PICK m : m = mem.cache
  OBVIOUS
<1>3. \A i \in Reachable(m) : Shapely(m[i])
  BY <1>2, TreeShapely DEF Risked
<1> QED BY <1>1, <1>2, <1>3 DEF TypeOK

\* In the cache and on the medium each node has the shape of its C type: a place
\* below the layout's capacity for each child and each place used once, also when
\* power is lost between the flushes of one addition (PART.h, PART.c add_child4, 16,
\* 48 and 256).
THEOREM Typed == Spec => []TypeOK
<1>1. RInv => TypeOK
  <2>1. Ruined => TypeOK
    BY DEF Ruined, TypeOK
  <2> QED BY <2>1, TreesTyped, RiskTyped DEF RInv
<1> QED BY <1>1, TreeIsKnown, PTL

\* A node's children are as many as its digits.
LEMMA ChildrenApart ==
  ASSUME NEW c, NEW S, Tree(c, S), NEW n \in S \cap INodes
  PROVE  Cardinality(Below(c[n])) = Cardinality(Present(c[n]))
<1>1. PICK v, path : v = View(c) /\ path = c[n][Hdr].path
  OBVIOUS
<1>2. PICK dep, rep : L!Shape(Form, v, S, dep, rep)
  BY <1>1, TreeIs
<1>3. PICK nd : nd = c[n]
  OBVIOUS
<1>4. Laid(nd)
  <2>1. AllLaid(c, S)
    BY <1>1, TreeIs
  <2> QED BY <1>3, <2>1 DEF AllLaid
<1>5. n # 0 /\ \A i \in 0 .. FAN - 1 : v[n][i] = find_child(nd, i)
  BY <1>1, <1>2, <1>3, NodeIs
<1>6. \A d \in Present(nd) : d \in 0 .. FAN - 1 /\ find_child(nd, d) # NULL
  <2> SUFFICES ASSUME NEW d \in Present(nd) PROVE d \in 0 .. FAN - 1 /\ find_child(nd, d) # NULL
    OBVIOUS
  <2>1. d \in 0 .. FAN - 1 /\ d \in Digit /\ PlaceOf(nd, d) # {}
    BY DEF Present, Digit
  <2> QED BY <1>4, <2>1, ChildNull
<1>7. \A a, b \in Present(nd) : find_child(nd, a) = find_child(nd, b) => a = b
  <2> SUFFICES ASSUME NEW a \in Present(nd), NEW b \in Present(nd), find_child(nd, a) = find_child(nd, b) PROVE a = b
    OBVIOUS
  <2>1. n \in L!Above(S) /\ a \in L!Ways(n) /\ b \in L!Ways(n) /\ v[n][a] = v[n][b] /\ v[n][a] # NULL
    BY <1>5, <1>6, Names DEF L!Above, L!Ways
  <2>2. L!Once(v, S)
    BY <1>2 DEF L!Shape
  <2> QED BY <2>1, <2>2 DEF L!Once
<1> DEFINE f == [d \in Present(nd) |-> find_child(nd, d)]
<1>8. f \in Bijection(Present(nd), Below(nd))
  <2>1. f \in [Present(nd) -> Below(nd)] /\ \A x \in Below(nd) : \E d \in Present(nd) : f[d] = x
    BY DEF Below
  <2>2. \A a, b \in Present(nd) : f[a] = f[b] => a = b
    BY <1>7
  <2> HIDE DEF f
  <2> QED BY <2>1, <2>2 DEF Bijection, Injection, Surjection, IsInjective
<1>9. IsFiniteSet(Present(nd))
  <2>1. Present(nd) \subseteq 0 .. FAN - 1 /\ IsFiniteSet(0 .. FAN - 1)
    BY Caps, FS_Interval DEF Present
  <2> QED BY <2>1, FS_Subset
<1> HIDE DEF f
<1> QED BY <1>3, <1>8, <1>9, FS_Bijection DEF ExistsBijection

\* Between operations PART is the compressed radix tree of its keys, each node in
\* the smallest layout that holds its children (PART.c, recursive_insert and
\* add_child).
THEOREM PathsCompressed == Spec => []Compressed
<1>1. RInv => Compressed
  <2> SUFFICES ASSUME RInv, pc = "idle" PROVE Compressed
    BY DEF Compressed
  <2>1. PICK S : Trees(S, S)
    BY AtRest
  <2>2. PICK c, v : c = mem.cache /\ v = View(c)
    OBVIOUS
  <2>3. Tree(c, S) /\ Valued(c, S)
    BY <2>1, <2>2 DEF Trees
  <2>4. PICK dep, rep : L!Shape(Form, v, S, dep, rep)
    BY <2>2, <2>3, TreeIs
  <2>5. AllLaid(c, S) /\ AllTight(c, S)
    BY <2>2, <2>3, TreeIs
  <2>6. Paths(c) = Forks({k \in Keys : art_search(c, k) # NULL})
    <3>1. Paths(c) = L!Paths(v)
      BY <2>2, <2>4, <2>5, PathsSame
    <3>2. \A k \in Keys : art_search(c, k) = L!art_search(v, k)
      BY <2>2, <2>4, SearchIs
    <3>3. L!Valued(v, S)
      <4>1. \A k \in Keys : Leaf(k) \in Leaves /\ v[Leaf(k)][0] = c[Leaf(k)][Value]
        BY <2>2, ViewIs, ObjectsAre
      <4> QED BY <2>3, <4>1, Names DEF Valued, L!Valued
    <3>4. L!Tree(Form, v, S)
      BY <2>2, <2>3 DEF Tree
    <3>5. L!Paths(v) = L!Forks({k \in Keys : L!art_search(v, k) # NULL})
      BY <3>3, <3>4, FormIs, Ground, L!CompressedIs
    <3>6. {k \in Keys : L!art_search(v, k) # NULL} = {k \in Keys : art_search(c, k) # NULL}
      BY <3>2
    <3> QED BY <3>1, <3>5, <3>6, ForksSame
  <2>7. \A n \in Reachable(c) :
          /\ Cardinality(Below(c[n])) = Cardinality(Present(c[n]))
          /\ c[n][Hdr].type > NODE4 => Cardinality(Present(c[n])) > Capacity(c[n][Hdr].type - 1)
    <3> SUFFICES ASSUME NEW n \in Reachable(c)
                 PROVE  /\ Cardinality(Below(c[n])) = Cardinality(Present(c[n]))
                        /\ c[n][Hdr].type > NODE4 => Cardinality(Present(c[n])) > Capacity(c[n][Hdr].type - 1)
      OBVIOUS
    <3>1. n \in S \cap INodes
      BY <2>3, ReachableIs
    <3>2. Tight(c[n])
      BY <2>5, <3>1 DEF AllTight
    <3> QED BY <2>3, <3>1, <3>2, ChildrenApart DEF Tight
  <2> QED BY <2>2, <2>6, <2>7 DEF Compressed
<1> QED BY <1>1, TreeIsKnown, PTL
=============================================================================
