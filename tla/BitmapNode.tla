----------------------------- MODULE BitmapNode -----------------------------
(***************************************************************************)
(* One node of the wB+tree with a bitmap and a slot array                  *)
(* (wb+tree/bitmap_slot/Integer/wbtree.c).  The slot array is read as in   *)
(* SlotNode - Search, Lookup and the descent are the same text in both     *)
(* sources - but it is longer than a word, so a bitmap says whether it may *)
(* be used (bit 0) and which entries are live (bit i + 1 for entry i).  A  *)
(* node is a record                                                        *)
(*   slot, ent  as in SlotNode                                             *)
(*   bitmap     an unsigned word of NODE_SIZE + 1 bits                     *)
(***************************************************************************)
EXTENDS SlotNode, Sequences, SequencesExt

Bit(i)        == 2 ^ i
HasBit(b, i)  == (b \div Bit(i)) % 2 = 1
Word64(n)     == n % 2 ^ (NODE_SIZE + 1)     \* the code's word has 64 bits, NODE_SIZE 63
Bitmaps       == 0 .. 2 ^ (NODE_SIZE + 1) - 1

Live(b)       == {i \in Entries : HasBit(b, i + 1)}
Valid(nd)     == HasBit(nd.bitmap, 0)
EmptyBitmapNode == [slot |-> EmptyNode.slot, ent |-> EmptyNode.ent, bitmap |-> 1]

\* Whether Append finds a zero bit; with none it returns -1.
HasFree(nd) == Live(nd.bitmap) # Entries

\* find_next_zero_bit from bit 1, as Append and Append_in_inner use it.
FreeEntry(nd) == Min(Entries \ Live(nd.bitmap))

AppendEntry(nd, key, ptr) == [nd EXCEPT !.ent[FreeEntry(nd)] = [key |-> key, ptr |-> ptr]]

\* curr->bitmap - 1
Invalidated(nd) == [nd EXCEPT !.bitmap = Word64(@ - 1)]

\* curr->bitmap + 1 + (0x1UL << (loc + 1))
Committed(nd, loc) == [nd EXCEPT !.bitmap = Word64(@ + 1 + Bit(loc + 1))]

\* Mutant: mid names the bit, not the entry.
SlotsInserted_BitIndex(nd, key) == [nd EXCEPT !.slot = Opened(@, Search(nd, key), FreeEntry(nd) + 1)]

\* The slot array shifted up from mid, which names entry loc.
SlotsInserted(nd, key) == [nd EXCEPT !.slot = Opened(@, Search(nd, key), FreeEntry(nd))]

\* insert_in_leaf, insert_in_inner and their _noflush forms, without flushes.
InsertedBoth(nd, key, ptr) ==
  Committed(SlotsInserted(AppendEntry(Invalidated(nd), key, ptr), key), FreeEntry(nd))

\* delete_in_leaf's shift counts down, so each slot from mid on receives the
\* last one.
SlotsDeleted(nd, key) ==
  LET mid == Search(nd, key) IN
  [nd EXCEPT !.slot = [j \in Slots |-> IF j = 0 THEN @[0] - 1
                                       ELSE IF mid <= j /\ j < @[0] THEN @[@[0]] ELSE @[j]]]

\* ... and what it takes off the bitmap is the bit of mid.
BitDeleted(nd, pos) == [nd EXCEPT !.bitmap = Word64(@ + 1 - Bit(pos + 1))]

\* Mutant: the bits of the new node's entries are not set.
UpperBits_None == 1

UpperBits == 1 + SumSet({Bit(i + 1) : i \in 0 .. MIN_LIVE_ENTRIES - 1})

\* The loops of a split: upper entries are appended to a new node last one
\* first and lose their bits in the old one; slot[0] falls by their number.
Upper(nd) ==
  LET taken == Count(nd) - MIN_LIVE_ENTRIES
      moved == [i \in Entries |-> IF i < MIN_LIVE_ENTRIES
                                    THEN nd.ent[nd.slot[Count(nd) - i]] ELSE NoEntry]
  IN  [slot |-> [j \in Slots |-> IF j = 0 THEN MIN_LIVE_ENTRIES
                                 ELSE IF j <= MIN_LIVE_ENTRIES THEN MIN_LIVE_ENTRIES - j ELSE 0],
       ent |-> moved,
       bitmap |-> UpperBits]

Lower(nd) ==
  LET gone == {nd.slot[j] : j \in Count(nd) - MIN_LIVE_ENTRIES + 1 .. Count(nd)} IN
  [nd EXCEPT !.slot[0] = @ - MIN_LIVE_ENTRIES,
             !.bitmap  = @ - SumSet({Bit(i + 1) : i \in gone \cap Live(@)})]

\* A full node and a new entry, over two nodes.
SplitBoth(nd, key, ptr) ==
  IF Key(Upper(nd), 1) > key
    THEN [left |-> InsertedBoth(Lower(nd), key, ptr), right |-> Upper(nd)]
    ELSE [left |-> Lower(nd), right |-> InsertedBoth(Upper(nd), key, ptr)]

\* What bit 0 is for: with the slot array invalid, the live entries are those of
\* the bitmap.  (The repository has no code that restarts from it.)
Repaired(nd) ==
  IF Valid(nd) THEN nd
  ELSE LET order == SetToSortSeq(Live(nd.bitmap),
                                 LAMBDA a, b : nd.ent[a].key < nd.ent[b].key)
       IN  [nd EXCEPT !.bitmap = @ + 1,
                      !.slot = [j \in Slots |-> IF j = 0 THEN Len(order)
                                                ELSE IF j <= Len(order) THEN order[j] ELSE 0]]

-----------------------------------------------------------------------------
\* Bitmap and slot array agree on the live entries.
Agree(nd) == WellFormed(nd) /\ Valid(nd) /\ Used(nd) = Live(nd.bitmap)
=============================================================================
