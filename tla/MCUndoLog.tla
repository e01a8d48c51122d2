----------------------------- MODULE MCUndoLog -----------------------------
(* An instance of UndoLog for TLC: entries of two bytes; an object of two    *)
(* whole chunks, one of a chunk and a remainder (its overrun claims the byte *)
(* behind it) and that byte as an object of its own.                         *)
EXTENDS UndoLog

MCAddresses == 0 .. 7
MCObjects == {[addr |-> 0, size |-> 4], [addr |-> 1, size |-> 1], [addr |-> 4, size |-> 3], [addr |-> 7, size |-> 1]}
=============================================================================
