------------------------------- MODULE Storage -------------------------------
(***************************************************************************)
(* The chunk storage of src/system/storage.c: one array of CHUNKS_AMOUNT   *)
(* chunks of CHUNK_SIZE bytes, the map saying which chunks are allocated,  *)
(* and a counter of the free ones that is kept apart from the map.         *)
(* The file layer of FileStorage and FileLogic drives these operations.    *)
(*                                                                         *)
(* The program has one thread, and main.c creates one storage for the      *)
(* whole run, so the members of StorageMan are the variables here.         *)
(***************************************************************************)
EXTENDS Integers, FiniteSets, Sequences

CONSTANTS
  CHUNKS_AMOUNT,   \* number of chunks (settings.h: 500)
  CHUNK_SIZE,      \* bytes in a chunk (settings.h: 8)
  Byte,            \* the bytes users store
  EOC_OPERATOR,    \* the padding byte that ends the data of a chunk (0x1E)
  Uninitialised    \* what malloc left in a byte nothing wrote yet

ASSUME StorageAssumption ==
  /\ CHUNKS_AMOUNT \in Nat \ {0}
  /\ CHUNK_SIZE \in Nat \ {0}
  /\ EOC_OPERATOR \in Byte
  /\ Uninitialised \notin Byte

VARIABLES
  allocation_map,    \* which chunks are allocated
  free_chunk_count,  \* the counter of free chunks
  storage            \* the bytes of every chunk

storageVars == <<allocation_map, free_chunk_count, storage>>

Chunk == 0 .. CHUNKS_AMOUNT - 1
Offset == 1 .. CHUNK_SIZE

StorageTypeOK ==
  /\ allocation_map \in [Chunk -> BOOLEAN]
  /\ free_chunk_count \in Nat
  /\ storage \in [Chunk -> [Offset -> Byte \cup {Uninitialised}]]

\* storage_man_init: the map is cleared, the bytes are not.
StorageInit ==
  /\ allocation_map = [c \in Chunk |-> FALSE]
  /\ free_chunk_count = CHUNKS_AMOUNT
  /\ storage = [c \in Chunk |-> [b \in Offset |-> Uninitialised]]

-----------------------------------------------------------------------------
(* Contiguous runs of chunks *)

Span(start, amount) == start .. start + amount - 1

FreeChunks == {c \in Chunk : ~allocation_map[c]}

\* Where a run of amount free chunks begins.
FreeRuns(amount) == {c \in Chunk : Span(c, amount) \subseteq FreeChunks}

\* Faulty variant: the run found is one chunk too short.
FirstFitOneShort(amount, start) ==
  /\ start \in FreeRuns(amount - 1)
  /\ \A c \in FreeRuns(amount - 1) : start <= c

\* The scan of challoc stops at the lowest of them.
FirstFit(amount, start) ==
  /\ start \in FreeRuns(amount)
  /\ \A c \in FreeRuns(amount) : start <= c

-----------------------------------------------------------------------------
(* Operations *)

\* What challoc answers. Its test of amount against free_chunk_count has no
\* `return`, so it decides nothing and the scan alone finds the space.
ChallocStatus(amount) ==
  IF amount = 0 \/ amount > CHUNKS_AMOUNT THEN "INVALID_ARGUMENT"
  ELSE IF FreeRuns(amount) = {} THEN "NO_SPACE"
  ELSE "SUCCESS"

\* A successful challoc that answers start.
Challoc(amount, start) ==
  /\ FirstFit(amount, start)
  /\ allocation_map' = [c \in Chunk |-> allocation_map[c] \/ c \in Span(start, amount)]
  /\ free_chunk_count' = free_chunk_count - amount
  /\ UNCHANGED storage

\* A loop of chfree over a run of chunks. chfree does not look at the map
\* before it counts the chunk as freed.
ChfreeSpan(start, amount) ==
  /\ allocation_map' = [c \in Chunk |-> allocation_map[c] /\ c \notin Span(start, amount)]
  /\ free_chunk_count' = free_chunk_count + amount

\* chwrite of a whole chunk, guarded as the code guards it.
ChwriteAllowed(chunk) == chunk \in Chunk /\ allocation_map[chunk]

Chwrite(chunk, bytes) == storage' = [storage EXCEPT ![chunk] = bytes]

\* chtrunc overwrites the last amount bytes of a chunk; it never asks the map.
Chtrunc(chunk, amount) ==
  storage' = [storage EXCEPT ![chunk] =
                [b \in Offset |-> IF b > CHUNK_SIZE - amount THEN EOC_OPERATOR ELSE @[b]]]

-----------------------------------------------------------------------------
(* Properties *)

\* The counter is the number of chunks the map holds free. file_append (file_logic.c:410)
\* relies on it to refuse data that cannot fit, and challoc's missing `return`
\* (storage.c:67-70) is harmless only as long as it holds.
FreeCountExact == free_chunk_count = Cardinality(FreeChunks)
=============================================================================
