----------------------------- MODULE MCEntryStore -----------------------------
(* A small instance of EntryStore for TLC. *)
EXTENDS EntryStore

CONSTANTS d1, d2, d3, f1, f2, n1, n2, bad, long

MCThreeFolders == {d1, d2, d3}
MCTwoFiles == {f1, f2}

\* Two names, so that two files can be in a folder; folders may have the long one too.
MCName == {n1, n2, ROOT_NAME, bad, long}
=============================================================================
