----------------------------- MODULE MCWorkspace -----------------------------
(* Small instances of Workspace and Queries for TLC: see the .cfg files. *)
EXTENDS Queries, TLC

CONSTANTS d1, d2, d3, f1, n1, n2, long

MCThreeFolders == {d1, d2, d3}
MCName == {n1, n2, ROOT_NAME}
MCNameWithLong == {n1, n2, ROOT_NAME, long}

\* Slots of a kind can be exchanged, and so can the ordinary names.
MCSymmetry ==
  Permutations(Folder) \cup Permutations({n1, n2})
=============================================================================
