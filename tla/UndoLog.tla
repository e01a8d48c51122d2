------------------------------ MODULE UndoLog ------------------------------
(***************************************************************************)
(* add_log_entry (wb+tree/slot_only/wbtree.c; the copies in bitmap_slot    *)
(* and FPTree are the same text): the ring of 64-byte undo entries that a  *)
(* node split writes before it changes a live node in place.  An object    *)
(* larger than one entry is cut into LOG_DATA_SIZE chunks.                 *)
(*                                                                         *)
(* The tree's own part, the write-backs and where the entries stand in     *)
(* the order of a split, is in SlotTree.  Here: the arithmetic of the      *)
(* ring, and what rolling an open transaction back would restore.          *)
(***************************************************************************)
EXTENDS Integers, Sequences

CONSTANTS LogEntries,      \* LOG_AREA_SIZE / sizeof(log_entry)
          LOG_DATA_SIZE,   \* data bytes of one entry
          Addresses,       \* byte addresses of the logged memory
          Objects          \* what callers log: [addr, size]

ASSUME LogAssumption ==
  /\ LogEntries \in Nat \ {0} /\ LOG_DATA_SIZE \in Nat \ {0}
  /\ Objects \subseteq [addr : Nat, size : Nat \ {0}]
  /\ \A o \in Objects : o.addr .. o.addr + o.size - 1 \subseteq Addresses

VARIABLES log_data,      \* the entries of the ring
          next_offset,   \* entry the next call writes; LogEntries: one past the end
          call,          \* the call being served: what is left to copy, or NoCall
          open,          \* what the open transaction logged, oldest first: [e, addr, n]
          first,         \* entry the open transaction began with
          bytes,         \* the logged memory
          base           \* its content when the transaction began
vars == <<log_data, next_offset, call, open, first, bytes, base>>

NoCall == [addr |-> 0, left |-> 0]
Entry  == 0 .. LogEntries - 1
Chunk  == 0 .. LOG_DATA_SIZE - 1
Byte   == {0, 1}
Zeros  == [i \in Chunk |-> 0]

\* The test at the head of a call and after each chunk of the loop.
Wrap(p) == IF p = LogEntries THEN 0 ELSE p
Calling == call # NoCall

\* Data bytes of an entry into which n bytes from addr are copied: the rest
\* keeps what the entry held before.
Copied(e, addr, n) ==
  [i \in Chunk |-> IF i < n THEN bytes[addr + i] ELSE log_data[e].data[i]]

Record(e, size, addr, n) ==
  log_data' = [log_data EXCEPT ![e] =
                 [size |-> size, addr |-> addr, data |-> Copied(e, addr, n)]]

-----------------------------------------------------------------------------
Init == /\ log_data = [e \in Entry |-> [size |-> 0, addr |-> 0, data |-> Zeros]]
        /\ next_offset = 0 /\ first = 0
        /\ call = NoCall /\ open = <<>>
        /\ bytes \in [Addresses -> {0}] /\ base = bytes

\* The ring holds the whole open transaction and its commit record.  The code
\* does not check this: a split logs a few dozen entries per level, the ring
\* has 65536.
Room    == LogEntries - 1 - Len(open)
Fits(o) == o.size <= Room * LOG_DATA_SIZE

\* Mutant: a whole entry is claimed, as the remainder does.
LogSingle_WholeEntry(o) ==
  /\ ~Calling /\ Fits(o) /\ o.size <= LOG_DATA_SIZE
  /\ LET e == Wrap(next_offset) IN
       /\ Record(e, LOG_DATA_SIZE, o.addr, o.size)
       /\ open' = Append(open, [e |-> e, addr |-> o.addr, n |-> o.size])
       /\ next_offset' = e + 1
  /\ UNCHANGED <<call, first, bytes, base>>

\* A call whose object fits in one entry.
LogSingle(o) ==
  /\ ~Calling /\ Fits(o) /\ o.size <= LOG_DATA_SIZE
  /\ LET e == Wrap(next_offset) IN
       /\ Record(e, o.size, o.addr, o.size)
       /\ open' = Append(open, [e |-> e, addr |-> o.addr, n |-> o.size])
       /\ next_offset' = e + 1
  /\ UNCHANGED <<call, first, bytes, base>>

\* Mutant: no test for the end of the area at the head of a call.
LogLarge_NoWrap(o) ==
  /\ ~Calling /\ Fits(o) /\ o.size > LOG_DATA_SIZE
  /\ call' = [addr |-> o.addr, left |-> o.size]
  /\ UNCHANGED <<log_data, next_offset, open, first, bytes, base>>

\* A call whose object does not.
LogLarge(o) ==
  /\ ~Calling /\ Fits(o) /\ o.size > LOG_DATA_SIZE
  /\ next_offset' = Wrap(next_offset)
  /\ call' = [addr |-> o.addr, left |-> o.size]
  /\ UNCHANGED <<log_data, open, first, bytes, base>>

\* Mutant: the loop rounds the number of chunks up.
LogChunk_RoundsUp ==
  /\ Calling
  /\ Record(next_offset, LOG_DATA_SIZE, call.addr, LOG_DATA_SIZE)
  /\ open' = Append(open, [e |-> next_offset, addr |-> call.addr, n |-> LOG_DATA_SIZE])
  /\ next_offset' = Wrap(next_offset + 1)
  /\ call' = IF call.left = LOG_DATA_SIZE THEN NoCall
             ELSE [addr |-> call.addr + LOG_DATA_SIZE, left |-> call.left - LOG_DATA_SIZE]
  /\ UNCHANGED <<first, bytes, base>>

\* One turn of the loop over whole chunks.
LogChunk ==
  /\ Calling /\ call.left >= LOG_DATA_SIZE
  /\ Record(next_offset, LOG_DATA_SIZE, call.addr, LOG_DATA_SIZE)
  /\ open' = Append(open, [e |-> next_offset, addr |-> call.addr, n |-> LOG_DATA_SIZE])
  /\ next_offset' = Wrap(next_offset + 1)
  /\ call' = IF call.left = LOG_DATA_SIZE THEN NoCall
             ELSE [addr |-> call.addr + LOG_DATA_SIZE, left |-> call.left - LOG_DATA_SIZE]
  /\ UNCHANGED <<first, bytes, base>>

\* Mutant: the offset stays on the remainder's entry.
LogRemainder_NoAdvance ==
  /\ Calling /\ call.left < LOG_DATA_SIZE
  /\ Record(next_offset, LOG_DATA_SIZE, call.addr, call.left)
  /\ open' = Append(open, [e |-> next_offset, addr |-> call.addr, n |-> call.left])
  /\ call' = NoCall
  /\ UNCHANGED <<next_offset, first, bytes, base>>

\* The remainder: LOG_DATA_SIZE is recorded though fewer bytes are copied,
\* and the offset is left at the end of the area for the next call to wrap.
LogRemainder ==
  /\ Calling /\ call.left < LOG_DATA_SIZE
  /\ Record(next_offset, LOG_DATA_SIZE, call.addr, call.left)
  /\ open' = Append(open, [e |-> next_offset, addr |-> call.addr, n |-> call.left])
  /\ next_offset' = next_offset + 1
  /\ call' = NoCall
  /\ UNCHANGED <<first, bytes, base>>

\* add_log_entry(t, NULL, 0, LE_COMMIT)
LogCommit ==
  /\ ~Calling /\ open # <<>>
  /\ LET e == Wrap(next_offset) IN
       /\ Record(e, 0, 0, 0)
       /\ next_offset' = e + 1
       /\ first' = Wrap(e + 1)
  /\ open' = <<>> /\ base' = bytes
  /\ UNCHANGED <<call, bytes>>

Span(o) == o.addr .. o.addr + o.size - 1
Logged(b) == \E i \in 1 .. Len(open) : b \in open[i].addr .. open[i].addr + open[i].n - 1

\* The caller writes an object it logged in this transaction.
Modify(o) ==
  /\ ~Calling
  /\ \A b \in Span(o) : Logged(b)
  /\ bytes' = [b \in Addresses |-> IF b \in Span(o) THEN 1 - bytes[b] ELSE bytes[b]]
  /\ UNCHANGED <<log_data, next_offset, call, open, first, base>>

Next == \/ \E o \in Objects : LogSingle(o) \/ LogLarge(o) \/ Modify(o)
        \/ LogChunk \/ LogRemainder \/ LogCommit
Spec == Init /\ [][Next]_vars

-----------------------------------------------------------------------------
(* Properties *)

\* The variables hold what their C types can; a write is pending only inside
\* the area.
TypeOK ==
  /\ log_data \in [Entry -> [size : Nat, addr : Nat, data : [Chunk -> Byte]]]
  /\ next_offset \in 0 .. LogEntries /\ first \in Entry
  /\ call \in [addr : Nat, left : Nat]
  /\ open \in Seq([e : Entry, addr : Nat, n : Nat])
  /\ bytes \in [Addresses -> Byte] /\ base \in [Addresses -> Byte]

\* The wrap tests, one at the head of a call and one per whole chunk but none
\* after a remainder, keep every write inside log_data (83-85, 113-115).
InArea == Calling => next_offset \in Entry

\* No entry of the open transaction is overwritten before its commit, however
\* calls, chunks and wraps fall on the ring.
OpenIntact ==
  \A i \in 1 .. Len(open) :
    /\ log_data[open[i].e].addr = open[i].addr
    /\ \A j \in 1 .. Len(open) : open[i].e = open[j].e => i = j

\* The bytes a rollback would take from entry i of the open transaction.
Restores(i) ==
  LET r == log_data[open[i].e] IN r.addr .. r.addr + r.size - 1

\* Memory after the open entries are undone, newest first: a byte ends with
\* what the oldest entry over it holds.
RolledBack(b) ==
  LET over == {i \in 1 .. Len(open) : b \in Restores(i)} IN
  IF over = {} THEN bytes[b]
  ELSE LET i == CHOOSE k \in over : \A m \in over : k <= m
       IN  log_data[open[i].e].data[b - open[i].addr]

\* Bytes behind a large object whose size is no multiple of LOG_DATA_SIZE:
\* its last entry records LOG_DATA_SIZE bytes and so claims them (122).
Overrun ==
  {b \in Addresses : \E o \in Objects :
     /\ o.size > LOG_DATA_SIZE
     /\ b >= o.addr + o.size
     /\ b < o.addr + o.size + ((-o.size) % LOG_DATA_SIZE)}

\* Rolling back at any moment restores the memory the transaction began with,
\* logged or not, but for the overrun of a remainder.
RollbackRestores == \A b \in Addresses \ Overrun : RolledBack(b) = base[b]
=============================================================================
