----------------------------- MODULE FileStorage -----------------------------
(***************************************************************************)
(* The ownership layer of src/system/file_storage.c. A file records the    *)
(* chunks it owns as extents (runs of chunks) in a fixed array, and as a   *)
(* total in allocated_size. The array must stay compact: every search in   *)
(* it stops at the first empty slot.                                       *)
(***************************************************************************)
EXTENDS Storage

CONSTANTS
  File,                            \* the file slots (struct File)
  MAX_FILE_CHUNK_EXTENTS_AMOUNT    \* slots in a file's array of extents (10)

ASSUME FileStorageAssumption == MAX_FILE_CHUNK_EXTENTS_AMOUNT \in Nat \ {0}

VARIABLE files   \* for each file, its allocated_size and its extents

LastIndex == MAX_FILE_CHUNK_EXTENTS_AMOUNT - 1
Index == 0 .. LastIndex

ChunkExtent == [is_empty : BOOLEAN, start : Nat, chunk_amount : Nat]

\* start and chunk_amount of an empty slot mean nothing (files.h:6); the model
\* keeps them at 0.
EmptyExtent == [is_empty |-> TRUE, start |-> 0, chunk_amount |-> 0]

FilesTypeOK ==
  files \in [File -> [allocated_size : Nat, data_chunk_extents : [Index -> ChunkExtent]]]

\* file_init: every slot of the array is marked empty.
FilesInit ==
  files = [f \in File |->
             [allocated_size |-> 0,
              data_chunk_extents |-> [i \in Index |-> EmptyExtent]]]

-----------------------------------------------------------------------------
(* Searches in the array of extents *)

Extent(f, i) == files[f].data_chunk_extents[i]
Occupied(f, i) == ~Extent(f, i).is_empty
ExtentSpan(f, i) == Span(Extent(f, i).start, Extent(f, i).chunk_amount)

\* Faulty variant: any empty slot will do.
AnyEmptyExtent(f, i) == ~Occupied(f, i)

\* get_available_chunk_extent_index: i is the first empty slot.
FirstEmptyExtent(f, i) ==
  /\ ~Occupied(f, i)
  /\ \A j \in 0 .. i - 1 : Occupied(f, j)

\* file_get_last_chunk_extent: i ends the occupied slots at the front.
LastExtent(f, i) ==
  /\ \A j \in 0 .. i : Occupied(f, j)
  /\ i < LastIndex => ~Occupied(f, i + 1)

\* The search of file_owns_chunk, which gives up at the first empty slot.
FileOwnsChunk(f, chunk) ==
  \E i \in Index : /\ \A j \in 0 .. i : Occupied(f, j)
                   /\ chunk \in ExtentSpan(f, i)

-----------------------------------------------------------------------------
(* Operations *)

\* file_allocate_chunks, once challoc has answered start: the extent goes to
\* slot i.
FileAllocateChunks(f, i, amount, start) ==
  /\ Challoc(amount, start)
  /\ files' = [files EXCEPT ![f] =
       [allocated_size |-> @.allocated_size + amount,
        data_chunk_extents |->
          [@.data_chunk_extents EXCEPT ![i] =
             [is_empty |-> FALSE, start |-> start, chunk_amount |-> amount]]]]

\* chunk_extent_left_shift: slot i, just emptied, takes its right neighbour,
\* and so on to the end of the occupied run; the slot the run leaves behind
\* is marked empty.
InRun(extents, i, j) ==
  j \in i .. LastIndex /\ \A k \in i + 1 .. j : ~extents[k].is_empty

\* Faulty variant: the slot is emptied and the gap is left.
LeaveGap(extents, i) == [extents EXCEPT ![i] = EmptyExtent]

LeftShift(extents, i) ==
  [j \in Index |->
     IF ~InRun(extents, i, j) THEN extents[j]
     ELSE IF InRun(extents, i, j + 1) THEN extents[j + 1]
     ELSE EmptyExtent]

\* Faulty variant: allocated_size keeps counting the chunks.
FileFreeKeepingSize(f, i) ==
  /\ ChfreeSpan(Extent(f, i).start, Extent(f, i).chunk_amount)
  /\ files' = [files EXCEPT ![f].data_chunk_extents = LeftShift(@, i)]
  /\ UNCHANGED storage

\* file_free_chunk_extent: the chunks of slot i are freed, and the slot is
\* closed up.
FileFreeChunkExtent(f, i) ==
  /\ ChfreeSpan(Extent(f, i).start, Extent(f, i).chunk_amount)
  /\ files' = [files EXCEPT ![f] =
       [allocated_size |-> @.allocated_size - Extent(f, i).chunk_amount,
        data_chunk_extents |-> LeftShift(@.data_chunk_extents, i)]]
  /\ UNCHANGED storage

\* Faulty variant: the extent keeps its length.
FileTruncateUnshortened(f, i, amount) ==
  /\ ChfreeSpan(Extent(f, i).start + Extent(f, i).chunk_amount - amount, amount)
  /\ files' = [files EXCEPT ![f].allocated_size = @ - amount]

\* Faulty variant: the first chunks are freed, the last ones forgotten.
FileTruncateFront(f, i, amount) ==
  /\ ChfreeSpan(Extent(f, i).start, amount)
  /\ files' = [files EXCEPT
       ![f].allocated_size = @ - amount,
       ![f].data_chunk_extents[i].chunk_amount = @ - amount]

\* Faulty variant: the chunks after the extent are freed.
FileTruncateBehind(f, i, amount) ==
  /\ ChfreeSpan(Extent(f, i).start + Extent(f, i).chunk_amount, amount)
  /\ files' = [files EXCEPT
       ![f].allocated_size = @ - amount,
       ![f].data_chunk_extents[i].chunk_amount = @ - amount]

\* file_truncate_chunk_extent for amount smaller than the extent: its last
\* amount chunks are freed. (FileLogic never passes the whole extent.)
FileTruncateChunkExtent(f, i, amount) ==
  /\ ChfreeSpan(Extent(f, i).start + Extent(f, i).chunk_amount - amount, amount)
  /\ files' = [files EXCEPT ![f] =
       [allocated_size |-> @.allocated_size - amount,
        data_chunk_extents |->
          [@.data_chunk_extents EXCEPT ![i] =
             [Extent(f, i) EXCEPT !.chunk_amount = Extent(f, i).chunk_amount - amount]]]]

-----------------------------------------------------------------------------
(* Properties *)

\* No occupied slot lies behind an empty one. file_owns_chunk, get_chunk_index,
\* file_get_last_chunk_extent and the left shift itself all take this for
\* granted (file_storage.c:167, :184, file_logic.c:317, :527).
ExtentsCompact ==
  \A f \in File : \A i, j \in Index : i < j /\ Occupied(f, j) => Occupied(f, i)

\* A chunk is in at most one extent of one file: no two files, and no two
\* extents of a file, share storage.
NoSharedChunk ==
  \A f, g \in File : \A i, j \in Index :
    /\ Occupied(f, i) /\ Occupied(g, j)
    /\ <<f, i>> # <<g, j>>
    => ExtentSpan(f, i) \cap ExtentSpan(g, j) = {}

\* The chunks of a file.
Owned(f) == UNION {ExtentSpan(f, i) : i \in {j \in Index : Occupied(f, j)}}

\* A chunk is marked allocated exactly while some file owns it: nothing is
\* leaked by truncating, clearing or a failed append, and nothing is
\* freed that a file still uses.
AllocatedIffOwned ==
  {c \in Chunk : allocation_map[c]} = UNION {Owned(f) : f \in File}

\* allocated_size is the number of chunks the extents hold. The bounds tests of
\* file_truncate_by and file_read_at use the one, the walks the other
\* (files.h:22-24, file_logic.c:43, :152, :302).
SizeExact == \A f \in File : files[f].allocated_size = Cardinality(Owned(f))
=============================================================================
