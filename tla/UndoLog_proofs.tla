--------------------------- MODULE UndoLog_proofs ---------------------------
(***************************************************************************)
(* Proofs about the undo log, for a ring, an entry and objects of any      *)
(* size.  The inductive invariant says where the entries of the open       *)
(* transaction stand on the ring: one after the other from first on, with  *)
(* next_offset naming the entry after the last one, possibly by its other  *)
(* name, the end of the area.                                              *)
(***************************************************************************)
EXTENDS UndoLog, SequenceTheorems, WellFoundedInduction, TLAPS

\* The entry of the i-th record of a transaction that began with entry f.
Pos(f, i) == IF f + i - 1 < LogEntries THEN f + i - 1 ELSE f + i - 1 - LogEntries

\* There is room for what is left to copy and for the commit record.
RoomLeft == /\ Len(open) <= LogEntries - 1
            /\ Calling => call.left > 0 /\ call.left <= Room * LOG_DATA_SIZE

Placed == \A i \in 1 .. Len(open) : /\ open[i].e = Pos(first, i)
                                    /\ log_data[open[i].e].addr = open[i].addr

NextPlaced == Wrap(next_offset) = Pos(first, Len(open) + 1)

IInv == /\ log_data \in [Entry -> [size : Nat, addr : Nat, data : [Chunk -> Byte]]]
        /\ next_offset \in 0 .. LogEntries /\ first \in Entry
        /\ call \in [addr : Nat, left : Nat]
        /\ Calling => call.addr .. call.addr + call.left - 1 \subseteq Addresses
        /\ open \in Seq([e : Entry, addr : Nat, n : Nat])
        /\ bytes \in [Addresses -> Byte] /\ base \in [Addresses -> Byte]
        /\ InArea
        /\ RoomLeft
        /\ Placed
        /\ NextPlaced

-----------------------------------------------------------------------------
(* Arithmetic of the ring *)

\* LogEntries and LOG_DATA_SIZE are positive.
LEMMA Sizes == LogEntries \in Nat \ {0} /\ LOG_DATA_SIZE \in Nat \ {0}
BY LogAssumption

\* Positions are entries, distinct ones for the length of the ring, and follow
\* each other by the wrap test of add_log_entry.
LEMMA Positions ==
  ASSUME first \in Entry
  PROVE  /\ \A i \in 1 .. LogEntries : Pos(first, i) \in Entry
         /\ \A i, j \in 1 .. LogEntries : Pos(first, i) = Pos(first, j) => i = j
         /\ \A i \in 1 .. LogEntries - 1 : Wrap(Pos(first, i) + 1) = Pos(first, i + 1)
BY Sizes DEF Pos, Entry, Wrap

\* The first record of a transaction is in the entry it began with.
LEMMA FirstPosition == \A f \in Entry : Pos(f, 1) = f
BY Sizes DEF Pos, Entry

\* What a chunk takes from the bytes left and from the room.
LEMMA RoomForChunk ==
  ASSUME NEW r \in Int, NEW d \in Nat \ {0}, NEW left \in Nat, left > 0, left <= r * d
  PROVE  r >= 1 /\ left - d <= (r - 1) * d
<1>1. r >= 1
  <2>1. ASSUME r <= 0 PROVE FALSE
    <3>1. (0 - r) * d >= 0
      BY <2>1
    <3>2. r * d <= 0
      BY <3>1
    <3> QED BY <3>2
  <2> QED BY <2>1
<1>2. (r - 1) * d = r * d - d
  OBVIOUS
<1> QED BY <1>1, <1>2

-----------------------------------------------------------------------------
(* One more entry of the open transaction *)

\* Writing the next entry and noting it keeps every entry where it was.
LEMMA OneMore ==
  ASSUME IInv, Len(open) + 1 <= LogEntries - 1,
         NEW size \in Nat, NEW addr \in Nat, NEW n \in Nat,
         \A i \in Chunk : i < n => addr + i \in Addresses,
         Record(Wrap(next_offset), size, addr, n),
         open' = Append(open, [e |-> Wrap(next_offset), addr |-> addr, n |-> n]),
         first' = first
  PROVE  /\ log_data' \in [Entry -> [size : Nat, addr : Nat, data : [Chunk -> Byte]]]
         /\ open' \in Seq([e : Entry, addr : Nat, n : Nat])
         /\ Len(open') = Len(open) + 1
         /\ Placed'
         /\ Wrap(next_offset) \in Entry
         /\ Wrap(Wrap(next_offset) + 1) = Pos(first', Len(open') + 1)
         /\ \A i \in 1 .. Len(open) :
              open'[i] = open[i] /\ log_data'[open[i].e] = log_data[open[i].e]
         /\ open'[Len(open) + 1] = [e |-> Wrap(next_offset), addr |-> addr, n |-> n]
         /\ log_data'[Wrap(next_offset)] =
              [size |-> size, addr |-> addr, data |-> Copied(Wrap(next_offset), addr, n)]
<1> DEFINE e == Wrap(next_offset)
<1> DEFINE r == [size |-> size, addr |-> addr, data |-> Copied(e, addr, n)]
<1>1. Len(open) \in Nat /\ first \in Entry /\ e = Pos(first, Len(open) + 1)
  BY DEF IInv, NextPlaced
<1>2. e \in Entry
  BY <1>1, Positions, Sizes
<1>3. Copied(e, addr, n) \in [Chunk -> Byte]
  <2>1. \A i \in Chunk : log_data[e].data[i] \in Byte
    BY <1>2 DEF IInv
  <2>2. \A i \in Chunk : i < n => bytes[addr + i] \in Byte
    BY DEF IInv
  <2> QED BY <2>1, <2>2 DEF Copied
<1>4. log_data' = [log_data EXCEPT ![e] = r]
  BY DEF Record
<1>5. log_data' \in [Entry -> [size : Nat, addr : Nat, data : [Chunk -> Byte]]]
  <2>1. r \in [size : Nat, addr : Nat, data : [Chunk -> Byte]]
    BY <1>3
  <2> HIDE DEF r, e
  <2> QED BY <1>4, <2>1 DEF IInv
<1>6. open' \in Seq([e : Entry, addr : Nat, n : Nat]) /\ Len(open') = Len(open) + 1
  BY <1>2 DEF IInv
<1>7. \A i \in 1 .. Len(open) :
         /\ open'[i] = open[i] /\ log_data'[open[i].e] = log_data[open[i].e]
         /\ open[i].e = Pos(first, i) /\ log_data[open[i].e].addr = open[i].addr
  <2> SUFFICES ASSUME NEW i \in 1 .. Len(open)
               PROVE  /\ open'[i] = open[i] /\ log_data'[open[i].e] = log_data[open[i].e]
                      /\ open[i].e = Pos(first, i) /\ log_data[open[i].e].addr = open[i].addr
    OBVIOUS
  <2>1. open'[i] = open[i]
    BY DEF IInv
  <2>2. open[i].e = Pos(first, i) /\ log_data[open[i].e].addr = open[i].addr
    BY DEF IInv, Placed
  <2>3. i \in 1 .. LogEntries /\ Len(open) + 1 \in 1 .. LogEntries /\ i # Len(open) + 1
    BY <1>1, Sizes
  <2>4. Pos(first, i) # e
    BY <2>3, <1>1, Positions
  <2>5. log_data'[Pos(first, i)] = log_data[Pos(first, i)]
    BY <2>3, <2>4, <1>1, <1>4, Positions DEF IInv
  <2> QED BY <2>1, <2>2, <2>5
<1>9. open'[Len(open) + 1] = [e |-> e, addr |-> addr, n |-> n]
  BY DEF IInv
<1>10. log_data'[e] = r
  BY <1>2, <1>4 DEF IInv
<1>11. Placed'
  <2> SUFFICES ASSUME NEW i \in 1 .. Len(open')
               PROVE  open'[i].e = Pos(first', i) /\ log_data'[open'[i].e].addr = open'[i].addr
    BY DEF Placed
  <2>1. Pos(first', i) = Pos(first, i)
    BY DEF Pos
  <2>2. CASE i = Len(open) + 1
    BY <2>1, <2>2, <1>1, <1>9, <1>10
  <2>3. CASE i \in 1 .. Len(open)
    BY <2>1, <2>3, <1>7
  <2> QED BY <2>2, <2>3, <1>6, <1>1, SMTT(30)
<1>8. Wrap(e + 1) = Pos(first', Len(open') + 1)
  <2>1. Len(open) + 1 \in 1 .. LogEntries - 1
    BY <1>1
  <2>2. Wrap(Pos(first, Len(open) + 1) + 1) = Pos(first, Len(open) + 2)
    BY <2>1, <1>1, Positions
  <2> QED BY <2>2, <1>1, <1>6 DEF Pos
<1> QED BY <1>2, <1>5, <1>6, <1>7, <1>8, <1>9, <1>10, <1>11
-----------------------------------------------------------------------------
(* The invariant is inductive *)

\* The empty log satisfies the invariant.
LEMMA InitInv == Init => IInv
<1> SUFFICES ASSUME Init PROVE IInv
  OBVIOUS
<1> USE Sizes
<1>1. open = <<>> /\ Len(open) = 0 /\ ~Calling
  BY DEF Init, Calling
<1>2. log_data \in [Entry -> [size : Nat, addr : Nat, data : [Chunk -> Byte]]]
  <2>1. Zeros \in [Chunk -> Byte]
    BY DEF Zeros, Byte
  <2> HIDE DEF Zeros
  <2> QED BY <2>1 DEF Init
<1>3. next_offset \in 0 .. LogEntries /\ first \in Entry /\ Wrap(next_offset) = Pos(first, 1)
  BY DEF Init, Entry, Wrap, Pos
<1>4. call \in [addr : Nat, left : Nat]
  BY DEF Init, NoCall
<1>5. bytes \in [Addresses -> Byte] /\ base \in [Addresses -> Byte]
  BY DEF Init, Byte
<1> QED BY <1>1, <1>2, <1>3, <1>4, <1>5
        DEF IInv, InArea, RoomLeft, Placed, NextPlaced, Init

\* A call that fits leaves the room its entries take.
LEMMA Fitting ==
  ASSUME IInv, NEW o \in Objects, Fits(o)
  PROVE  /\ o.addr \in Nat /\ o.size \in Nat /\ o.size > 0
         /\ o.addr .. o.addr + o.size - 1 \subseteq Addresses
         /\ Len(open) + 1 <= LogEntries - 1
<1>1. o.addr \in Nat /\ o.size \in Nat \ {0} /\ o.addr .. o.addr + o.size - 1 \subseteq Addresses
  BY LogAssumption
<1>2. Len(open) \in Nat /\ Room \in Int
  BY Sizes DEF IInv, Room
<1>3. Room >= 1
  BY <1>1, <1>2, Sizes, RoomForChunk DEF Fits
<1> QED BY <1>1, <1>2, <1>3, Sizes DEF Room

\* A call whose object fits in one entry preserves the invariant.
LEMMA SingleInv ==
  ASSUME IInv, NEW o \in Objects, LogSingle(o)
  PROVE  IInv'
<1> USE Sizes DEF LogSingle
<1>1. o.addr \in Nat /\ o.size \in Nat /\ Len(open) + 1 <= LogEntries - 1
  BY Fitting
<1>2. \A i \in Chunk : i < o.size => o.addr + i \in Addresses
  BY <1>1, Fitting, SMTT(60) DEF Chunk
<1>3. /\ log_data' \in [Entry -> [size : Nat, addr : Nat, data : [Chunk -> Byte]]]
      /\ open' \in Seq([e : Entry, addr : Nat, n : Nat])
      /\ Len(open') = Len(open) + 1 /\ Placed' /\ Wrap(next_offset) \in Entry
      /\ Wrap(Wrap(next_offset) + 1) = Pos(first', Len(open') + 1)
  BY <1>1, <1>2, OneMore
<1>4. next_offset' \in 0 .. LogEntries /\ NextPlaced'
  <2>1. next_offset' = Wrap(next_offset) + 1
    OBVIOUS
  <2>2. Wrap(next_offset)' = Wrap(Wrap(next_offset) + 1)
    BY <2>1 DEF Wrap
  <2> QED BY <1>3, <2>1, <2>2 DEF NextPlaced, Entry
<1>5. ~Calling' /\ RoomLeft'
  BY <1>1, <1>3 DEF Calling, RoomLeft
<1> QED BY <1>3, <1>4, <1>5 DEF IInv, InArea, Calling

\* The head of a call over several entries preserves it: the offset is wrapped.
LEMMA LargeInv ==
  ASSUME IInv, NEW o \in Objects, LogLarge(o)
  PROVE  IInv'
<1> USE Sizes DEF LogLarge
<1>1. /\ o.addr \in Nat /\ o.size \in Nat /\ o.size > 0
      /\ o.addr .. o.addr + o.size - 1 \subseteq Addresses
      /\ Len(open) + 1 <= LogEntries - 1
  BY Fitting
<1>2. Len(open) \in Nat /\ Wrap(next_offset) = Pos(first, Len(open) + 1)
  BY DEF IInv, NextPlaced
<1>3. /\ next_offset' \in Entry /\ next_offset' \in 0 .. LogEntries
      /\ Wrap(next_offset') = Wrap(next_offset)
  BY <1>1, <1>2, Positions DEF IInv, Entry, Wrap
<1>4. call' \in [addr : Nat, left : Nat] /\ call'.left = o.size /\ call'.addr = o.addr
  BY <1>1
<1>5. RoomLeft'
  BY <1>1, <1>4 DEF RoomLeft, Room, Fits
<1>6. Placed' /\ NextPlaced'
  BY <1>2, <1>3 DEF IInv, Placed, NextPlaced, Pos, Wrap
<1> QED BY <1>1, <1>3, <1>4, <1>5, <1>6 DEF IInv, InArea

\* A whole chunk preserves it: the offset is wrapped at once.
LEMMA ChunkInv ==
  ASSUME IInv, LogChunk
  PROVE  IInv'
<1> USE Sizes DEF LogChunk
<1>1. /\ call.addr \in Nat /\ call.left \in Nat /\ call.left > 0
      /\ call.addr .. call.addr + call.left - 1 \subseteq Addresses
      /\ next_offset \in Entry /\ Wrap(next_offset) = next_offset
      /\ Len(open) \in Nat /\ Room \in Int /\ call.left <= Room * LOG_DATA_SIZE
  BY SMTT(60) DEF IInv, RoomLeft, InArea, Room, Wrap, Entry
<1>2. Room >= 1 /\ call.left - LOG_DATA_SIZE <= (Room - 1) * LOG_DATA_SIZE
  BY <1>1, RoomForChunk
<1>3. \A i \in Chunk : i < LOG_DATA_SIZE => call.addr + i \in Addresses
  BY <1>1, SMTT(60) DEF Chunk
<1>4. /\ log_data' \in [Entry -> [size : Nat, addr : Nat, data : [Chunk -> Byte]]]
      /\ open' \in Seq([e : Entry, addr : Nat, n : Nat])
      /\ Len(open') = Len(open) + 1 /\ Placed'
      /\ Wrap(next_offset + 1) = Pos(first', Len(open') + 1)
  <2>1. Len(open) + 1 <= LogEntries - 1
    BY <1>1, <1>2 DEF Room
  <2> QED BY <1>1, <1>3, <2>1, OneMore
<1>5. next_offset' \in Entry /\ next_offset' \in 0 .. LogEntries /\ NextPlaced'
  <2>1. next_offset' \in Entry /\ next_offset' \in 0 .. LogEntries
    BY <1>1 DEF Wrap, Entry
  <2>2. Wrap(next_offset)' = next_offset'
    BY <2>1 DEF Wrap, Entry
  <2> QED BY <1>4, <2>1, <2>2 DEF NextPlaced
<1>6. Room' = Room - 1
  BY <1>1, <1>4 DEF Room
<1>7. /\ call' \in [addr : Nat, left : Nat]
      /\ Calling' => /\ call'.left = call.left - LOG_DATA_SIZE /\ call'.left > 0
                    /\ call'.addr = call.addr + LOG_DATA_SIZE
  BY <1>1 DEF Calling, NoCall
<1>8. RoomLeft'
  BY <1>1, <1>2, <1>4, <1>6, <1>7 DEF RoomLeft, Room
<1>9. Calling' => call'.addr .. call'.addr + call'.left - 1 \subseteq Addresses
  <2> SUFFICES ASSUME Calling', NEW b \in call'.addr .. call'.addr + call'.left - 1
               PROVE  b \in Addresses
    OBVIOUS
  <2>1. /\ call'.addr = call.addr + LOG_DATA_SIZE
        /\ call'.left = call.left - LOG_DATA_SIZE
    BY <1>7
  <2> HIDE DEF LogChunk
  <2>2. b \in call.addr .. call.addr + call.left - 1
    BY <1>1, <2>1
  <2> QED BY <1>1, <2>2
<1> QED BY <1>4, <1>5, <1>7, <1>8, <1>9 DEF IInv, InArea

\* A remainder preserves it: the offset may be left at the end of the area.
LEMMA RemainderInv ==
  ASSUME IInv, LogRemainder
  PROVE  IInv'
<1> USE Sizes DEF LogRemainder
<1>1. /\ call.addr \in Nat /\ call.left \in Nat /\ call.left > 0
      /\ call.addr .. call.addr + call.left - 1 \subseteq Addresses
      /\ next_offset \in Entry /\ Wrap(next_offset) = next_offset
      /\ Len(open) \in Nat /\ Room \in Int /\ call.left <= Room * LOG_DATA_SIZE
  BY SMTT(60) DEF IInv, RoomLeft, InArea, Room, Wrap, Entry
<1>2. Room >= 1
  BY <1>1, RoomForChunk
<1>3. \A i \in Chunk : i < call.left => call.addr + i \in Addresses
  BY <1>1 DEF Chunk
<1>4. /\ log_data' \in [Entry -> [size : Nat, addr : Nat, data : [Chunk -> Byte]]]
      /\ open' \in Seq([e : Entry, addr : Nat, n : Nat])
      /\ Len(open') = Len(open) + 1 /\ Placed'
      /\ Wrap(next_offset + 1) = Pos(first', Len(open') + 1)
  <2>1. Len(open) + 1 <= LogEntries - 1
    BY <1>1, <1>2 DEF Room
  <2> QED BY <1>1, <1>3, <2>1, OneMore
<1>5. next_offset' \in 0 .. LogEntries /\ NextPlaced'
  BY <1>1, <1>4 DEF NextPlaced, Entry, Wrap
<1>6. call' \in [addr : Nat, left : Nat] /\ ~Calling'
  BY DEF Calling, NoCall
<1>7. RoomLeft'
  BY <1>1, <1>2, <1>4, <1>6 DEF RoomLeft, Room
<1> QED BY <1>4, <1>5, <1>6, <1>7 DEF IInv, InArea

\* The commit record stands right behind the transaction; the next one begins
\* behind it.
LEMMA CommitInv ==
  ASSUME IInv, LogCommit
  PROVE  IInv'
<1> USE Sizes DEF LogCommit
<1> DEFINE e == Wrap(next_offset)
<1>1. e \in Entry
  BY Positions DEF IInv, NextPlaced, RoomLeft
<1>2. log_data' \in [Entry -> [size : Nat, addr : Nat, data : [Chunk -> Byte]]]
  <2>1. Copied(e, 0, 0) \in [Chunk -> Byte]
    BY <1>1 DEF Copied, IInv, Chunk
  <2> HIDE DEF e
  <2>2. [size |-> 0, addr |-> 0, data |-> Copied(e, 0, 0)]
          \in [size : Nat, addr : Nat, data : [Chunk -> Byte]]
    BY <2>1
  <2> QED BY <2>2 DEF Record, IInv, e
<1>3. /\ next_offset' \in 0 .. LogEntries /\ first' \in Entry
      /\ Wrap(next_offset)' = first' /\ Pos(first', 1) = first'
  <2>1. next_offset' = e + 1 /\ first' = Wrap(e + 1)
    OBVIOUS
  <2> HIDE DEF e, LogCommit
  <2>2. first' \in Entry /\ next_offset' \in 0 .. LogEntries
    BY <1>1, <2>1 DEF Wrap, Entry
  <2>3. Wrap(next_offset)' = first'
    BY <2>1 DEF Wrap
  <2>4. Pos(first', 1) = first'
    BY <2>2, FirstPosition
  <2> QED BY <2>2, <2>3, <2>4
<1>4. Len(open') = 0 /\ Placed' /\ open' \in Seq([e : Entry, addr : Nat, n : Nat])
  BY DEF Placed
<1>5. ~Calling' /\ RoomLeft'
  BY <1>4 DEF Calling, RoomLeft
<1>6. NextPlaced'
  BY <1>3, <1>4 DEF NextPlaced
<1> QED BY <1>2, <1>3, <1>4, <1>5, <1>6 DEF IInv, InArea, Calling

\* Changing logged memory does not touch the ring.
LEMMA ModifyInv ==
  ASSUME IInv, NEW o \in Objects, Modify(o)
  PROVE  IInv'
<1>1. bytes' \in [Addresses -> Byte]
  BY DEF Modify, IInv, Byte
<1> QED BY <1>1 DEF Modify, IInv, InArea, RoomLeft, Room, Placed, NextPlaced, Pos, Wrap,
               Calling, Entry, Chunk

\* Every step preserves the invariant.
LEMMA NextInv == IInv /\ [Next]_vars => IInv'
<1> SUFFICES ASSUME IInv, [Next]_vars PROVE IInv'
  OBVIOUS
<1>1. ASSUME NEW o \in Objects, LogSingle(o) PROVE IInv'
  BY <1>1, SingleInv
<1>2. ASSUME NEW o \in Objects, LogLarge(o) PROVE IInv'
  BY <1>2, LargeInv
<1>3. ASSUME NEW o \in Objects, Modify(o) PROVE IInv'
  BY <1>3, ModifyInv
<1>4. CASE LogChunk
  BY <1>4, ChunkInv
<1>5. CASE LogRemainder
  BY <1>5, RemainderInv
<1>6. CASE LogCommit
  BY <1>6, CommitInv
<1>7. CASE UNCHANGED vars
  BY <1>7 DEF vars, IInv, InArea, RoomLeft, Room, Placed, NextPlaced, Pos, Wrap,
              Calling, Entry, Chunk
<1> QED BY <1>1, <1>2, <1>3, <1>4, <1>5, <1>6, <1>7 DEF Next

\* The invariant holds in every behaviour of add_log_entry and its callers.
THEOREM Invariant == Spec => []IInv
<1> QED BY InitInv, NextInv, PTL DEF Spec

-----------------------------------------------------------------------------
(* What the entries hold *)

\* The bytes copied for a record of the open transaction, and those its entry
\* claims beyond them when it says size.
Covers(r) == r.addr .. r.addr + r.n - 1
Beyond(r, size) == r.addr + r.n .. r.addr + size - 1

\* An entry claims the bytes copied into it and beyond them only an overrun.
Claimed == \A i \in 1 .. Len(open) :
             /\ open[i].n <= log_data[open[i].e].size
             /\ \A b \in Addresses \ Overrun : b \notin Beyond(open[i], log_data[open[i].e].size)

\* The oldest entry over a byte holds what the byte was when the transaction
\* began; a younger one may hold what the transaction has written since.
Held == \A i \in 1 .. Len(open) : \A b \in Covers(open[i]) :
          (\A j \in 1 .. i - 1 : b \notin Covers(open[j]))
            => log_data[open[i].e].data[b - open[i].addr] = base[b]

\* A record names an entry and counts in Nat.
LEMMA RecordsTyped ==
  ASSUME IInv, NEW i \in 1 .. Len(open)
  PROVE  open[i] \in [e : Entry, addr : Nat, n : Nat]
<1>1. open \in Seq([e : Entry, addr : Nat, n : Nat])
  BY DEF IInv
<1> QED BY <1>1, ElementOfSeq

\* What is not logged has not changed.
Untouched == \A b \in Addresses : ~Logged(b) => bytes[b] = base[b]

\* A call in progress stands at a chunk boundary of an object.
FromObject ==
  Calling => \E o \in Objects, k \in Nat : /\ o.size > LOG_DATA_SIZE
                                           /\ call.addr = o.addr + k * LOG_DATA_SIZE
                                           /\ call.left = o.size - k * LOG_DATA_SIZE

RollInv == Claimed /\ Held /\ Untouched /\ FromObject

\* A byte is logged when a record covers it.
LEMMA LoggedCovers ==
  ASSUME NEW b PROVE Logged(b) <=> \E i \in 1 .. Len(open) : b \in Covers(open[i])
BY DEF Logged, Covers

\* An entry written for the bytes at addr, all of them logged memory, keeps
\* what the entries hold: the new one takes the present content, which is the
\* first content where no older entry covers the byte.
LEMMA OneMoreHeld ==
  ASSUME IInv, RollInv, Len(open) + 1 <= LogEntries - 1,
         NEW size \in Nat, NEW addr \in Nat, NEW n \in Nat,
         n <= LOG_DATA_SIZE, n <= size,
         \A i \in Chunk : i < n => addr + i \in Addresses,
         \A b \in Addresses \ Overrun : b \notin addr + n .. addr + size - 1,
         Record(Wrap(next_offset), size, addr, n),
         open' = Append(open, [e |-> Wrap(next_offset), addr |-> addr, n |-> n]),
         first' = first, bytes' = bytes, base' = base
  PROVE  Claimed' /\ Held' /\ Untouched'
<1> DEFINE e == Wrap(next_offset)
<1> DEFINE last == Len(open) + 1
<1>1. /\ Len(open') = last /\ last \in Nat
      /\ \A i \in 1 .. Len(open) :
           open'[i] = open[i] /\ log_data'[open[i].e] = log_data[open[i].e]
      /\ open'[last] = [e |-> e, addr |-> addr, n |-> n]
      /\ log_data'[e] = [size |-> size, addr |-> addr, data |-> Copied(e, addr, n)]
  <2>1. Len(open) \in Nat
    BY DEF IInv
  <2> QED BY <2>1, OneMore
<1>2. \A i \in 1 .. last : i \in 1 .. Len(open) \/ i = last
  BY <1>1
<1>3. /\ Len(open) \in Nat
      /\ Covers(open'[last]) = addr .. addr + n - 1
      /\ Beyond(open'[last], log_data'[open'[last].e].size) = addr + n .. addr + size - 1
  BY <1>1 DEF Covers, Beyond, IInv
<1>4. Overrun' = Overrun
  BY DEF Overrun
<1> HIDE DEF e, last
<1>5. Claimed'
  <2> SUFFICES ASSUME NEW i \in 1 .. last
               PROVE  /\ open'[i].n <= log_data'[open'[i].e].size
                      /\ \A b \in Addresses \ Overrun :
                           b \notin Beyond(open'[i], log_data'[open'[i].e].size)
    BY <1>1, <1>4 DEF Claimed
  <2>1. CASE i = last
    <3>1. open'[i].n <= log_data'[open'[i].e].size
      BY <2>1, <1>1
    <3> QED BY <2>1, <3>1, <1>3
  <2>2. CASE i \in 1 .. Len(open)
    BY <2>2, <1>1 DEF RollInv, Claimed
  <2> QED BY <2>1, <2>2, <1>2
<1>6. \A b : Logged(b) => Logged(b)'
  BY <1>1, <1>3 DEF Logged, last
<1>7. \A b \in addr .. addr + n - 1 : ~Logged(b) => bytes[b] = base[b]
  <2> SUFFICES ASSUME NEW b \in addr .. addr + n - 1 PROVE b \in Addresses
    BY DEF RollInv, Untouched
  <2>1. b - addr \in Chunk /\ b - addr < n /\ addr + (b - addr) = b
    BY Sizes DEF Chunk
  <2> QED BY <2>1
<1>8. Untouched'
  BY <1>6 DEF RollInv, Untouched
<1>9. Held'
  <2> SUFFICES ASSUME NEW i \in 1 .. last, NEW b \in Covers(open'[i]),
                      \A j \in 1 .. i - 1 : b \notin Covers(open'[j])
               PROVE  log_data'[open'[i].e].data[b - open'[i].addr] = base[b]
    BY <1>1 DEF Held
  <2>1. \A j \in 1 .. i - 1 : j \in 1 .. Len(open)
    BY <1>1, <1>3 DEF last
  <2>2. \A j \in 1 .. i - 1 : b \notin Covers(open[j])
    BY <2>1, <1>1
  <2>3. CASE i = last
    <3>1. b \in addr .. addr + n - 1
      BY <2>3, <1>3
    <3>2. b - addr \in Chunk /\ b - addr < n /\ addr + (b - addr) = b
      BY <3>1, Sizes DEF Chunk
    <3>3. ~Logged(b)
      BY <2>2, <2>3, <1>3, LoggedCovers DEF last
    <3>4. bytes[b] = base[b]
      BY <3>1, <3>3, <1>7
    <3>5. Copied(e, addr, n)[b - addr] = bytes[b]
      BY <3>2 DEF Copied
    <3> QED BY <2>3, <3>4, <3>5, <1>1
  <2>4. CASE i \in 1 .. Len(open)
    <3>1. log_data[open[i].e].data[b - open[i].addr] = base[b]
      BY <2>2, <2>4, <1>1 DEF RollInv, Held
    <3> QED BY <2>4, <3>1, <1>1
  <2> QED BY <2>3, <2>4, <1>2
<1> QED BY <1>5, <1>8, <1>9

\* A call whose object fits keeps what the entries hold.
LEMMA SingleRoll ==
  ASSUME IInv, RollInv, NEW o \in Objects, LogSingle(o)
  PROVE  RollInv'
<1>1. o.addr \in Nat /\ o.size \in Nat /\ Len(open) + 1 <= LogEntries - 1
  BY Fitting DEF LogSingle
<1>2. \A i \in Chunk : i < o.size => o.addr + i \in Addresses
  BY <1>1, Fitting, Sizes DEF Chunk, LogSingle
<1>3. \A b \in Addresses \ Overrun : b \notin o.addr + o.size .. o.addr + o.size - 1
  BY <1>1
<1>4. Claimed' /\ Held' /\ Untouched'
  <2>1. /\ o.size <= LOG_DATA_SIZE /\ o.size <= o.size
        /\ Record(Wrap(next_offset), o.size, o.addr, o.size)
        /\ open' = Append(open, [e |-> Wrap(next_offset), addr |-> o.addr, n |-> o.size])
        /\ first' = first /\ bytes' = bytes /\ base' = base
    BY <1>1 DEF LogSingle
  <2> QED BY <1>1, <1>2, <1>3, <2>1, OneMoreHeld
<1>5. FromObject'
  BY DEF LogSingle, FromObject, Calling
<1> QED BY <1>4, <1>5 DEF RollInv

\* The head of a call over several entries stands at the object's first byte.
LEMMA LargeRoll ==
  ASSUME IInv, RollInv, NEW o \in Objects, LogLarge(o)
  PROVE  RollInv'
<1>1. o.addr \in Nat /\ o.size \in Nat
  BY LogAssumption
<1>2. call'.addr = o.addr + 0 * LOG_DATA_SIZE /\ call'.left = o.size - 0 * LOG_DATA_SIZE
  BY <1>1, Sizes DEF LogLarge
<1>3. FromObject'
  BY <1>2 DEF FromObject, LogLarge
<1>4. Claimed' /\ Held' /\ Untouched'
  BY DEF RollInv, LogLarge, Claimed, Held, Untouched, Logged, Overrun
<1> QED BY <1>3, <1>4 DEF RollInv

\* What a turn of the loop finds: a whole chunk of the object is left.
LEMMA ChunkRoll ==
  ASSUME IInv, RollInv, LogChunk
  PROVE  RollInv'
<1> USE Sizes
<1>1. /\ call.addr \in Nat /\ call.left \in Nat /\ call.left > 0
      /\ call.addr .. call.addr + call.left - 1 \subseteq Addresses
      /\ next_offset \in Entry /\ Wrap(next_offset) = next_offset
      /\ Len(open) \in Nat /\ Room \in Int /\ call.left <= Room * LOG_DATA_SIZE
      /\ call.left >= LOG_DATA_SIZE /\ Calling
  BY SMTT(60) DEF LogChunk, IInv, RoomLeft, InArea, Room, Wrap, Entry
<1>2. Len(open) + 1 <= LogEntries - 1
  BY <1>1, RoomForChunk DEF Room
<1>3. \A i \in Chunk : i < LOG_DATA_SIZE => call.addr + i \in Addresses
  BY <1>1, SMTT(60) DEF Chunk
<1>4. \A b \in Addresses \ Overrun :
        b \notin call.addr + LOG_DATA_SIZE .. call.addr + LOG_DATA_SIZE - 1
  BY <1>1
<1>5. Claimed' /\ Held' /\ Untouched'
  <2>1. /\ Record(Wrap(next_offset), LOG_DATA_SIZE, call.addr, LOG_DATA_SIZE)
        /\ open' = Append(open, [e |-> Wrap(next_offset), addr |-> call.addr,
                                n |-> LOG_DATA_SIZE])
        /\ first' = first /\ bytes' = bytes /\ base' = base
    BY <1>1 DEF LogChunk
  <2>2. LOG_DATA_SIZE \in Nat /\ LOG_DATA_SIZE <= LOG_DATA_SIZE
    OBVIOUS
  <2> QED BY <1>1, <1>2, <1>3, <1>4, <2>1, <2>2, OneMoreHeld
<1>6. FromObject'
  <2> SUFFICES ASSUME Calling' PROVE FromObject'
    BY DEF FromObject
  <2>1. call' = [addr |-> call.addr + LOG_DATA_SIZE, left |-> call.left - LOG_DATA_SIZE]
    BY DEF LogChunk, Calling, NoCall
  <2>2. PICK o \in Objects, k \in Nat : /\ o.size > LOG_DATA_SIZE
                                        /\ call.addr = o.addr + k * LOG_DATA_SIZE
                                        /\ call.left = o.size - k * LOG_DATA_SIZE
    BY <1>1 DEF RollInv, FromObject
  <2>3. o.addr \in Nat /\ o.size \in Nat
    BY LogAssumption
  <2>4. (k + 1) * LOG_DATA_SIZE = k * LOG_DATA_SIZE + LOG_DATA_SIZE /\ k * LOG_DATA_SIZE \in Nat
    OBVIOUS
  <2> DEFINE m == k * LOG_DATA_SIZE
  <2>5. call'.addr = o.addr + (m + LOG_DATA_SIZE) /\ call'.left = o.size - (m + LOG_DATA_SIZE)
    <3> HIDE DEF m
    <3>1. m \in Nat /\ call.addr = o.addr + m /\ call.left = o.size - m
      BY <2>2, <2>4 DEF m
    <3> QED BY <3>1, <2>1, <2>3
  <2>6. /\ call'.addr = o.addr + (k + 1) * LOG_DATA_SIZE
        /\ call'.left = o.size - (k + 1) * LOG_DATA_SIZE
    BY <2>4, <2>5
  <2>7. k + 1 \in Nat
    OBVIOUS
  <2> QED BY <2>2, <2>6, <2>7 DEF FromObject
<1> QED BY <1>5, <1>6 DEF RollInv

\* A remainder of a division is determined by its range.
LEMMA OneRemainder ==
  ASSUME NEW d \in Nat \ {0}, NEW x \in Int, NEW r \in Int, NEW s \in Int,
         0 <= r, r < d, 0 <= s, s < d, r - s = d * x
  PROVE  r = s
<1>1. x < 1
  <2>1. ASSUME x >= 1 PROVE FALSE
    <3>1. d * (x - 1) >= 0
      BY <2>1
    <3>2. d * (x - 1) = d * x - d
      OBVIOUS
    <3> QED BY <3>1, <3>2
  <2> QED BY <2>1
<1>2. x > -1
  <2>1. ASSUME x <= -1 PROVE FALSE
    <3>1. d * ((-1) - x) >= 0
      BY <2>1
    <3>2. d * ((-1) - x) = -(d * x) - d
      OBVIOUS
    <3> QED BY <3>1, <3>2
  <2> QED BY <2>1
<1> QED BY <1>1, <1>2

\* The bytes a remainder's entry claims beyond the object are its overrun.
LEMMA RemainderOverrun ==
  ASSUME NEW s \in Nat, NEW d \in Nat \ {0}, NEW k \in Nat, NEW left \in Nat,
         left = s - k * d, left > 0, left < d
  PROVE  (-s) % d = d - left
<1> DEFINE q == -(k + 1)
<1> DEFINE r == (-s) % d
<1> DEFINE p == (-s) \div d
<1>1. q \in Int /\ d * q = -(k * d) - d
  OBVIOUS
<1>2. -s = d * q + (d - left)
  BY <1>1
<1>3. p \in Int /\ r \in Int /\ 0 <= r /\ r < d
  OBVIOUS
<1>4. -s = d * p + r
  OBVIOUS
<1> HIDE DEF q, r, p
<1>5. d * (q - p) = d * q - d * p /\ d * q \in Int /\ d * p \in Int
  BY <1>1, <1>3
<1>6. r - (d - left) = d * (q - p)
  BY <1>2, <1>3, <1>4, <1>5
<1>7. q - p \in Int /\ d - left \in Int /\ 0 <= d - left /\ d - left < d
  BY <1>1, <1>3
<1> QED BY <1>3, <1>6, <1>7, OneRemainder DEF r

\* A remainder takes the bytes left; what its entry claims behind them is the
\* object's overrun.
LEMMA RemainderRoll ==
  ASSUME IInv, RollInv, LogRemainder
  PROVE  RollInv'
<1> USE Sizes
<1>1. /\ call.addr \in Nat /\ call.left \in Nat /\ call.left > 0
      /\ call.addr .. call.addr + call.left - 1 \subseteq Addresses
      /\ next_offset \in Entry /\ Wrap(next_offset) = next_offset
      /\ Len(open) \in Nat /\ Room \in Int /\ call.left <= Room * LOG_DATA_SIZE
      /\ call.left < LOG_DATA_SIZE /\ Calling
  BY SMTT(60) DEF LogRemainder, IInv, RoomLeft, InArea, Room, Wrap, Entry
<1>2. Len(open) + 1 <= LogEntries - 1
  BY <1>1, RoomForChunk DEF Room
<1>3. \A i \in Chunk : i < call.left => call.addr + i \in Addresses
  BY <1>1 DEF Chunk
<1>4. \A b \in Addresses \ Overrun :
        b \notin call.addr + call.left .. call.addr + LOG_DATA_SIZE - 1
  <2> SUFFICES ASSUME NEW b \in Addresses,
                      b \in call.addr + call.left .. call.addr + LOG_DATA_SIZE - 1
               PROVE  b \in Overrun
    OBVIOUS
  <2>1. PICK o \in Objects, k \in Nat : /\ o.size > LOG_DATA_SIZE
                                        /\ call.addr = o.addr + k * LOG_DATA_SIZE
                                        /\ call.left = o.size - k * LOG_DATA_SIZE
    BY <1>1 DEF RollInv, FromObject
  <2>2. o.addr \in Nat /\ o.size \in Nat
    BY LogAssumption
  <2>3. (-o.size) % LOG_DATA_SIZE = LOG_DATA_SIZE - call.left
    <3> DEFINE size == o.size
    <3>1. size \in Nat /\ call.left = size - k * LOG_DATA_SIZE
      BY <2>1, <2>2
    <3>2. (-size) % LOG_DATA_SIZE = LOG_DATA_SIZE - call.left
      <4> HIDE DEF size
      <4> QED BY <1>1, <3>1, RemainderOverrun, ZenonT(120)
    <3> QED BY <3>2
  <2>4. call.addr + call.left = o.addr + o.size
    <3> DEFINE m == k * LOG_DATA_SIZE
    <3>1. m \in Nat /\ call.addr = o.addr + m /\ call.left = o.size - m
      BY <2>1
    <3> HIDE DEF m
    <3> QED BY <3>1, <2>2
  <2>5. b >= o.addr + o.size /\ b < o.addr + o.size + (LOG_DATA_SIZE - call.left)
    BY <1>1, <2>2, <2>4
  <2> QED BY <2>1, <2>3, <2>5 DEF Overrun
<1>5. Claimed' /\ Held' /\ Untouched'
  <2>1. /\ Record(Wrap(next_offset), LOG_DATA_SIZE, call.addr, call.left)
        /\ open' = Append(open, [e |-> Wrap(next_offset), addr |-> call.addr,
                                n |-> call.left])
        /\ first' = first /\ bytes' = bytes /\ base' = base
    BY <1>1 DEF LogRemainder
  <2>2. LOG_DATA_SIZE \in Nat /\ call.left <= LOG_DATA_SIZE
    BY <1>1
  <2> QED BY <1>1, <1>2, <1>3, <1>4, <2>1, <2>2, OneMoreHeld
<1>6. FromObject'
  BY DEF LogRemainder, FromObject, Calling
<1> QED BY <1>5, <1>6 DEF RollInv

\* A commit forgets the records and takes the memory as it is.
LEMMA CommitRoll ==
  ASSUME IInv, RollInv, LogCommit
  PROVE  RollInv'
<1>1. open' = <<>> /\ Len(open') = 0 /\ base' = bytes' /\ ~Calling'
  BY DEF LogCommit, Calling
<1> QED BY <1>1 DEF RollInv, Claimed, Held, Untouched, FromObject

\* A write to logged memory disturbs nothing that is not logged.
LEMMA ModifyRoll ==
  ASSUME IInv, RollInv, NEW o \in Objects, Modify(o)
  PROVE  RollInv'
<1>1. Untouched'
  BY DEF RollInv, Untouched, Modify, Logged, Span
<1>2. Claimed' /\ Held' /\ FromObject'
  BY DEF RollInv, Claimed, Held, FromObject, Modify, Overrun, Calling
<1> QED BY <1>1, <1>2 DEF RollInv

LEMMA NextRoll == IInv /\ RollInv /\ [Next]_vars => RollInv'
<1> SUFFICES ASSUME IInv, RollInv, [Next]_vars PROVE RollInv'
  OBVIOUS
<1>1. ASSUME NEW o \in Objects, LogSingle(o) PROVE RollInv'
  BY <1>1, SingleRoll
<1>2. ASSUME NEW o \in Objects, LogLarge(o) PROVE RollInv'
  BY <1>2, LargeRoll
<1>3. ASSUME NEW o \in Objects, Modify(o) PROVE RollInv'
  BY <1>3, ModifyRoll
<1>4. CASE LogChunk
  BY <1>4, ChunkRoll
<1>5. CASE LogRemainder
  BY <1>5, RemainderRoll
<1>6. CASE LogCommit
  BY <1>6, CommitRoll
<1>7. CASE UNCHANGED vars
  BY <1>7 DEF vars, RollInv, Claimed, Held, Untouched, FromObject,
              Overrun, Calling, Logged
<1> QED BY <1>1, <1>2, <1>3, <1>4, <1>5, <1>6, <1>7 DEF Next

\* The entries hold what a rollback needs in every behaviour.
LEMMA RollInvariant == Spec => []RollInv
<1>1. Init => RollInv
  <2> SUFFICES ASSUME Init PROVE RollInv
    OBVIOUS
  <2>1. open = <<>> /\ Len(open) = 0 /\ base = bytes /\ ~Calling
    BY DEF Init, Calling
  <2> QED BY <2>1 DEF RollInv, Claimed, Held, Untouched, FromObject
<1> QED BY <1>1, NextRoll, Invariant, PTL DEF Spec

\* A non-empty set of numbers has a least one.
LEMMA LeastOf ==
  ASSUME NEW S, S \subseteq Nat, S # {}
  PROVE  \E k \in S : \A m \in S : k <= m
<1> DEFINE R == OpToRel(<, Nat)
<1>1. \A x, y \in Nat : <<y, x>> \in R <=> y < x
  BY DEF OpToRel
<1>2. IsWellFoundedOn(R, Nat)
  BY NatLessThanWellFounded
<1> HIDE DEF R
<1>3. PICK k \in S : \A m \in S : ~(<<m, k>> \in R)
  BY <1>2, WFMin
<1>4. k \in Nat /\ \A m \in S : m \in Nat
  OBVIOUS
<1>5. \A m \in S : ~(m < k)
  BY <1>1, <1>3, <1>4
<1>6. \A m \in S : k <= m
  BY <1>4, <1>5
<1> QED BY <1>6

-----------------------------------------------------------------------------
(* The properties of UndoLog *)

\* The variables keep their types: no entry outside the ring is ever named and
\* the offset never passes the end of the area.
THEOREM Typed == Spec => []TypeOK
<1>1. IInv => TypeOK
  BY DEF IInv, TypeOK
<1> QED BY <1>1, Invariant, PTL

\* Every write of add_log_entry falls inside log_data, for any object sizes and
\* any entry size: the wrap test missing after a remainder is made up for by
\* the one at the head of the next call.
THEOREM WritesInArea == Spec => []InArea
<1>1. IInv => InArea
  BY DEF IInv
<1> QED BY <1>1, Invariant, PTL

\* No entry of the open transaction is overwritten before its commit.
THEOREM Intact == Spec => []OpenIntact
<1>1. IInv => OpenIntact
  <2> SUFFICES ASSUME IInv PROVE OpenIntact
    OBVIOUS
  <2>1. \A i \in 1 .. Len(open) : i \in 1 .. LogEntries
    BY Sizes DEF IInv, RoomLeft
  <2>2. first \in Entry
    BY DEF IInv
  <2>3. \A i, j \in 1 .. Len(open) : Pos(first, i) = Pos(first, j) => i = j
    BY <2>1, <2>2, Positions
  <2>4. \A i \in 1 .. Len(open) : /\ open[i].e = Pos(first, i)
                                  /\ log_data[open[i].e].addr = open[i].addr
    BY DEF IInv, Placed
  <2> SUFFICES ASSUME NEW i \in 1 .. Len(open)
               PROVE  /\ log_data[open[i].e].addr = open[i].addr
                      /\ \A j \in 1 .. Len(open) : open[i].e = open[j].e => i = j
    BY DEF OpenIntact
  <2>5. ASSUME NEW j \in 1 .. Len(open), open[i].e = open[j].e
        PROVE  i = j
    BY <2>3, <2>4, <2>5
  <2> QED BY <2>4, <2>5
<1> QED BY <1>1, Invariant, PTL

\* At any moment of a transaction, with any rings, entries and objects, undoing
\* its entries newest first gives back the memory it began with, but for the
\* bytes behind a large object whose last entry claims more than it holds.
THEOREM Restored == Spec => []RollbackRestores
<1>1. IInv /\ RollInv => RollbackRestores
  <2> SUFFICES ASSUME IInv, RollInv, NEW b \in Addresses \ Overrun
               PROVE  RolledBack(b) = base[b]
    BY DEF RollbackRestores
  <2> DEFINE over == {i \in 1 .. Len(open) : b \in Restores(i)}
  <2>1. \A i \in 1 .. Len(open) : b \in Restores(i) <=> b \in Covers(open[i])
    <3> SUFFICES ASSUME NEW i \in 1 .. Len(open)
                 PROVE  b \in Restores(i) <=> b \in Covers(open[i])
      OBVIOUS
    <3> DEFINE r == open[i]
    <3> DEFINE size == log_data[r.e].size
    <3>1. r \in [e : Entry, addr : Nat, n : Nat] /\ log_data[r.e].addr = r.addr
      <4>1. r \in [e : Entry, addr : Nat, n : Nat]
        BY RecordsTyped
      <4> QED BY <4>1 DEF IInv, Placed
    <3>2. size \in Nat
      BY <3>1 DEF IInv
    <3>3. r.n <= size /\ b \notin Beyond(r, size)
      BY DEF RollInv, Claimed
    <3>4. Restores(i) = r.addr .. r.addr + size - 1
      BY <3>1 DEF Restores
    <3> HIDE DEF r, size
    <3> QED BY <3>1, <3>2, <3>3, <3>4 DEF Covers, Beyond, r
  <2>2. CASE over = {}
    <3>1. ~Logged(b)
      BY <2>1, <2>2, LoggedCovers
    <3>2. bytes[b] = base[b]
      BY <3>1 DEF RollInv, Untouched
    <3> QED BY <2>2, <3>2 DEF RolledBack
  <2>3. CASE over # {}
    <3> DEFINE k == CHOOSE i \in over : \A m \in over : i <= m
    <3>1. k \in over /\ \A m \in over : k <= m
      <4>1. over \subseteq Nat
        OBVIOUS
      <4>2. \E i \in over : \A m \in over : i <= m
        <5> HIDE DEF over
        <5> QED BY <4>1, <2>3, LeastOf
      <4> HIDE DEF over
      <4> QED BY <4>2
    <3>2. k \in 1 .. Len(open) /\ b \in Covers(open[k])
      BY <3>1, <2>1
    <3>3. \A j \in 1 .. k - 1 : b \notin Covers(open[j])
      <4> SUFFICES ASSUME NEW j \in 1 .. k - 1, b \in Covers(open[j]) PROVE FALSE
        OBVIOUS
      <4>1. j \in 1 .. Len(open) /\ j < k /\ k \in Nat /\ Len(open) \in Nat
        <5>1. Len(open) \in Nat
          BY DEF IInv
        <5>2. k \in 1 .. Len(open)
          BY <3>2
        <5> HIDE DEF k
        <5> QED BY <5>1, <5>2
      <4>2. j \in over
        BY <4>1, <2>1
      <4>3. k <= j
        BY <4>2, <3>1
      <4> HIDE DEF k
      <4> QED BY <4>1, <4>3
    <3>4. RolledBack(b) = log_data[open[k].e].data[b - open[k].addr]
      BY <2>3 DEF RolledBack
    <3> HIDE DEF k
    <3> QED BY <3>2, <3>3, <3>4 DEF RollInv, Held
  <2> QED BY <2>2, <2>3
<1> QED BY <1>1, Invariant, RollInvariant, PTL
=============================================================================
