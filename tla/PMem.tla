------------------------------- MODULE PMem --------------------------------
(***************************************************************************)
(* The memory under every index of this repository: a cache over           *)
(* persistent memory, written with ordinary stores and pushed out with     *)
(* clflush and mfence.  Every .c file holds the same flush_buffer(); the   *)
(* rest is the processor it runs on.                                       *)
(*                                                                         *)
(* A memory m is a record                                                  *)
(*   cache   what the program reads: cache[o][w], word w of object o       *)
(*   nvm     what has reached the persistent medium, likewise              *)
(*   pend    lines whose clflush was issued and is not yet known complete  *)
(* A line is a pair <<o, w>>.  A "word" is whatever part of an object the  *)
(* client names: a part that really is written back as a unit or, to be    *)
(* conservative, a smaller one.                                            *)
(***************************************************************************)
CONSTANT ClflushOrdered   \* TRUE: clflush is ordered with later stores (as
                          \* current processors document it).  FALSE: only
                          \* an mfence orders it.

\* A memory whose lines all hold init, in the cache and on the medium.
Formatted(init) == [cache |-> init, nvm |-> init, pend |-> {}]

Lines(m) == UNION {{o} \X DOMAIN m.cache[o] : o \in DOMAIN m.cache}

\* Stores of the function s, from lines to contents, into the cache.
Store(m, s) ==
  [m EXCEPT !.cache = [o \in DOMAIN @ |-> [w \in DOMAIN @[o] |->
                         IF <<o, w>> \in DOMAIN s THEN s[<<o, w>>] ELSE @[o][w]]]]

\* The content of the lines L reaches the medium.
WriteBack(m, L) ==
  [m EXCEPT !.nvm = [o \in DOMAIN @ |-> [w \in DOMAIN @[o] |->
                       IF <<o, w>> \in L THEN m.cache[o][w] ELSE @[o][w]]]]

Clflush(m, L) == IF ClflushOrdered THEN WriteBack(m, L)
                                   ELSE [m EXCEPT !.pend = @ \cup L]

Mfence(m) == [WriteBack(m, m.pend) EXCEPT !.pend = {}]

\* flush_buffer(buf, len, fence), for the lines L that buf and len cover.
flush_buffer(m, L, fence) ==
  IF fence THEN Mfence(Clflush(Mfence(m), L)) ELSE Clflush(m, L)

\* Lines a replacement may write back on its own at any moment.
Dirty(m) == {l \in Lines(m) : m.cache[l[1]][l[2]] # m.nvm[l[1]][l[2]]}

\* Power is lost: a restart reads what the medium holds.
PowerLoss(m) == [cache |-> m.nvm, nvm |-> m.nvm, pend |-> {}]
=============================================================================
