---------------------------- MODULE MCFileSystem ----------------------------
(* A small instance of FileSystem for TLC. *)
EXTENDS FileSystem

CONSTANTS d1, d2, f1, f2, n1, long, a, eoc

\* One chunk at a time; it may have to lie apart from what the file has.
MCData == {<<a>>}

MCSlotAfter == [f \in File |-> IF f = f1 THEN f2 ELSE NULL]
=============================================================================
