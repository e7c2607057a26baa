----------------------------- MODULE MCFileReads -----------------------------
(***************************************************************************)
(* Small instances of the file storage: see the .cfg files.                *)
(***************************************************************************)
EXTENDS FileReads, TLC

CONSTANTS f1, f2, a, b, eoc

MCFile == {f1, f2}
MCByte == {a, b, eoc}

\* Shorter than a chunk, a whole chunk, a partial chunk after a whole one, and
\* data that fills two chunks.
MCData == {<<>>, <<a>>, <<b, a>>, <<a, b, b>>}

\* One, two and three chunks; the blocks of one append differ from each other.
MCLengths == {<<a>>, <<a, b, b>>, <<a, b, b, a, a>>}

MCAmount == 0 .. CHUNKS_AMOUNT * CHUNK_SIZE + 1

FileSymmetry == Permutations(MCFile)
=============================================================================
