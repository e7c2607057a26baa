------------------------------ MODULE FileLogic ------------------------------
(***************************************************************************)
(* The file operations of src/system/file_logic.c: append, truncate,       *)
(* delete the data, read. The operations that change state are loops over  *)
(* chunks or extents; one action is one pass of such a loop, so that every *)
(* state between two passes is a state of the model. The program has one   *)
(* thread: no operation starts while another runs.                         *)
(***************************************************************************)
EXTENDS FileStorage

CONSTANTS
  Data,    \* what users append: sequences of bytes
  Amount   \* the numbers of bytes users truncate by

ASSUME FileLogicAssumption ==
  /\ Data \subseteq Seq(Byte)
  /\ Amount \subseteq Nat

VARIABLES
  call,    \* the operation that runs and its local variables
  status   \* the StatusCode of the last one that returned

vars == <<storageVars, files, call, status>>

-----------------------------------------------------------------------------
(* The locals of a running operation *)

Idle == [op |-> "idle"]

\* file_append: extent is allocated_chunk_extent, written the chunks the loop
\* has filled (cur_chunk less the start of the extent).
AppendCall ==
  [op : {"append"}, file : File, data : Data, extent : Index, written : Nat]

\* file_truncate_by: extent is the slot cur_chunk_extent points at, which ends
\* below the array when every extent goes.
TruncateCall ==
  [op : {"truncate"}, file : File, amount : Amount, extent : -1 .. LastIndex,
   deleted_chunks_count : Nat]

\* file_delete_data: extent is cur_chunk_extent_index.
DeleteCall == [op : {"delete"}, file : File, extent : Index]

Call == {Idle} \cup AppendCall \cup TruncateCall \cup DeleteCall

Status == {"SUCCESS", "DATA_OVER_FLOW", "INVALID_OPERATION", "INVALID_ARGUMENT",
           "FILE_CHUNK_EXTENT_LIMIT_EXCEEDED", "NO_SPACE", "INDEX_OUT_OF_BOUNDS",
           "FILE_IS_EMPTY", "CHUNK_DOES_NOT_BELONG_TO_FILE"}

TypeOK ==
  /\ StorageTypeOK
  /\ FilesTypeOK
  /\ call \in Call
  /\ status \in Status

Init ==
  /\ StorageInit
  /\ FilesInit
  /\ call = Idle
  /\ status = "SUCCESS"

Return(code) == call' = Idle /\ status' = code

\* A call that fails its tests changes nothing but the status.
Refuse(code) == Return(code) /\ UNCHANGED <<storageVars, files>>

-----------------------------------------------------------------------------
(* file_append *)

\* get_chunks_amount
ChunksAmount(data_length) == (data_length + CHUNK_SIZE - 1) \div CHUNK_SIZE

\* The tests of file_append and file_allocate_chunks, in their order.
AppendStatus(f, data) ==
  IF Len(data) > free_chunk_count * CHUNK_SIZE THEN "DATA_OVER_FLOW"
  ELSE IF Len(data) = 0 THEN "INVALID_OPERATION"
  ELSE IF \A i \in Index : Occupied(f, i) THEN "FILE_CHUNK_EXTENT_LIMIT_EXCEEDED"
  ELSE ChallocStatus(ChunksAmount(Len(data)))

AppendRefused(f, data) ==
  /\ call = Idle
  /\ AppendStatus(f, data) # "SUCCESS"
  /\ Refuse(AppendStatus(f, data))

AppendStart(f, data) ==
  /\ call = Idle
  /\ AppendStatus(f, data) = "SUCCESS"
  /\ \E i \in Index, start \in Chunk :
       /\ FirstEmptyExtent(f, i)
       /\ FileAllocateChunks(f, i, ChunksAmount(Len(data)), start)
       /\ call' = [op |-> "append", file |-> f, data |-> data, extent |-> i,
                   written |-> 0]
  /\ UNCHANGED status

\* The k-th chunk of the data, padded with EOC_OPERATOR (get_remaining_data).
Block(data, k) ==
  [b \in Offset |-> IF k * CHUNK_SIZE + b <= Len(data) THEN data[k * CHUNK_SIZE + b]
                    ELSE EOC_OPERATOR]

\* cur_chunk of the append that runs.
CurChunk == Extent(call.file, call.extent).start + call.written

\* file_write_chunk and chwrite would accept the chunk.
WriteAllowed == FileOwnsChunk(call.file, CurChunk) /\ ChwriteAllowed(CurChunk)

\* One chunk is written; the last one ends the append. A chunk that is not the
\* file's rolls the allocation back.
AppendWrite ==
  /\ call.op = "append"
  /\ IF WriteAllowed
     THEN /\ Chwrite(CurChunk, Block(call.data, call.written))
          /\ IF call.written + 1 = ChunksAmount(Len(call.data))
             THEN Return("SUCCESS")
             ELSE call' = [call EXCEPT !.written = @ + 1] /\ UNCHANGED status
          /\ UNCHANGED <<allocation_map, free_chunk_count, files>>
     ELSE /\ FileFreeChunkExtent(call.file, call.extent)
          /\ Return("CHUNK_DOES_NOT_BELONG_TO_FILE")

-----------------------------------------------------------------------------
(* file_truncate_by *)

\* Faulty variant: the amount is not tested against the size.
TruncateStatusUnbounded(f, amount) ==
  IF ~Occupied(f, 0) THEN "FILE_IS_EMPTY" ELSE "SUCCESS"

TruncateStatus(f, amount) ==
  IF amount > files[f].allocated_size * CHUNK_SIZE THEN "INDEX_OUT_OF_BOUNDS"
  ELSE IF ~Occupied(f, 0) THEN "FILE_IS_EMPTY"
  ELSE "SUCCESS"

TruncateRefused(f, amount) ==
  /\ call = Idle
  /\ TruncateStatus(f, amount) # "SUCCESS"
  /\ Refuse(TruncateStatus(f, amount))

TruncateStart(f, amount) ==
  /\ call = Idle
  /\ TruncateStatus(f, amount) = "SUCCESS"
  /\ \E i \in Index :
       /\ LastExtent(f, i)
       /\ call' = [op |-> "truncate", file |-> f, amount |-> amount, extent |-> i,
                   deleted_chunks_count |-> 0]
  /\ UNCHANGED <<storageVars, files, status>>

\* full_chunks_to_be_deleted
FullChunks == call.amount \div CHUNK_SIZE

\* Faulty variant: what was deleted before is left out of the test.
GoesWholeAlone == Extent(call.file, call.extent).chunk_amount <= FullChunks

\* The extent cur_chunk_extent points at goes whole.
GoesWhole ==
  call.deleted_chunks_count + Extent(call.file, call.extent).chunk_amount <= FullChunks

\* The chunk amount counted as deleted is read from the slot after the shift,
\* which leaves it alone when no extent follows.
AmountAfterShift(f, i) ==
  IF i < LastIndex /\ Occupied(f, i + 1) THEN Extent(f, i + 1).chunk_amount
  ELSE Extent(f, i).chunk_amount

TruncateWholeExtent ==
  /\ call.op = "truncate"
  /\ call.extent >= 0
  /\ GoesWhole
  /\ FileFreeChunkExtent(call.file, call.extent)
  /\ call' = [call EXCEPT
       !.extent = @ - 1,
       !.deleted_chunks_count = @ + AmountAfterShift(call.file, call.extent)]
  /\ UNCHANGED status

\* The pointer is below the array: what it points at is other memory. Read as
\* an empty extent, the two counts decide; read as an occupied one, nothing is
\* left to free, and a partial chunk would be cut out of bounds.
TruncateBelowArray ==
  /\ call.op = "truncate"
  /\ call.extent = -1
  /\ \E is_empty \in BOOLEAN :
       Refuse(IF \/ is_empty /\ call.deleted_chunks_count # FullChunks
                 \/ ~is_empty /\ call.amount % CHUNK_SIZE # 0
              THEN "INDEX_OUT_OF_BOUNDS" ELSE "SUCCESS")

\* The last extent that stays gives up its last chunks, and the last chunk
\* that stays its last bytes.
TruncateTail ==
  LET f == call.file
      i == call.extent
      rest == FullChunks - call.deleted_chunks_count
      last == Extent(f, i).start + Extent(f, i).chunk_amount - rest - 1
  IN /\ call.op = "truncate"
     /\ i >= 0
     /\ ~GoesWhole
     /\ FileTruncateChunkExtent(f, i, rest)
     /\ Chtrunc(last, call.amount % CHUNK_SIZE)
     /\ Return("SUCCESS")

-----------------------------------------------------------------------------
(* file_delete_data *)

DeleteStart(f) ==
  /\ call = Idle
  /\ call' = [op |-> "delete", file |-> f, extent |-> 0]
  /\ UNCHANGED <<storageVars, files, status>>

\* The index stays: the shift moved the next extent to it.
DeleteExtent ==
  /\ call.op = "delete"
  /\ Occupied(call.file, call.extent)
  /\ FileFreeChunkExtent(call.file, call.extent)
  /\ UNCHANGED <<call, status>>

\* Faulty variant: an empty slot sends the walk back to the first.
DeleteStartsOver ==
  /\ call.op = "delete"
  /\ ~Occupied(call.file, call.extent)
  /\ call' = [call EXCEPT !.extent = 0]
  /\ UNCHANGED <<storageVars, files, status>>

DeleteSkipEmpty ==
  /\ call.op = "delete"
  /\ ~Occupied(call.file, call.extent)
  /\ IF call.extent = LastIndex THEN Return("SUCCESS")
     ELSE call' = [call EXCEPT !.extent = @ + 1] /\ UNCHANGED status
  /\ UNCHANGED <<storageVars, files>>

-----------------------------------------------------------------------------
\* A user starts an operation.
Start ==
  \E f \in File :
    \/ \E data \in Data : AppendRefused(f, data) \/ AppendStart(f, data)
    \/ \E amount \in Amount : TruncateRefused(f, amount) \/ TruncateStart(f, amount)
    \/ DeleteStart(f)

\* The operation that runs takes its next step.
Continue ==
  \/ AppendWrite
  \/ TruncateWholeExtent
  \/ TruncateBelowArray
  \/ TruncateTail
  \/ DeleteExtent
  \/ DeleteSkipEmpty

Next == Start \/ Continue

\* A running operation runs on: nothing in the program can suspend it.
Spec == Init /\ [][Next]_vars /\ WF_vars(Continue)

-----------------------------------------------------------------------------
(* The inductive invariant *)

\* An occupied slot holds at least one chunk.
ExtentsNotVoid == \A f \in File, i \in Index : Occupied(f, i) => Extent(f, i).chunk_amount > 0

\* The layout, which no operation leaves broken even between two of its steps.
LayoutInv ==
  /\ StorageTypeOK
  /\ FilesTypeOK
  /\ ExtentsNotVoid
  /\ ExtentsCompact
  /\ NoSharedChunk
  /\ AllocatedIffOwned
  /\ FreeCountExact
  /\ SizeExact

\* The locals of an operation fit the layout they work on: append writes into
\* an extent as long as its data; truncate has not deleted more than it should,
\* and its pointer is at the last extent, or below the array.
CallInv ==
  /\ call.op = "append" =>
       /\ Occupied(call.file, call.extent)
       /\ call.written < ChunksAmount(Len(call.data))
       /\ Extent(call.file, call.extent).chunk_amount = ChunksAmount(Len(call.data))
  /\ call.op = "truncate" =>
       /\ call.deleted_chunks_count <= FullChunks
       /\ call.extent >= 0 => LastExtent(call.file, call.extent)

\* What holds between any two steps, and is kept by each of them: the properties
\* below follow from it (FileLogicProofs).
IInv ==
  /\ LayoutInv
  /\ call \in Call
  /\ status \in Status
  /\ CallInv

-----------------------------------------------------------------------------
(* Properties *)

\* file_append rolls back when a write is refused (file_logic.c:452-456,
\* :480-483). The extent it has just taken is always found by file_owns_chunk
\* and its chunks are allocated, so the rollback never happens: what passes the
\* tests of file_append is written whole.
WritesNeverRefused == call.op = "append" => WriteAllowed

\* Allocation, freeing, truncation and the rollback never free or overwrite a
\* chunk of a file that the running operation was not given: chfree and chtrunc
\* do not ask whose chunk it is (storage.c:97-114, :187-223).
OtherFilesUntouched ==
  [][\A g \in File : \A c \in Owned(g) :
       call = Idle \/ call.file # g
       => storage'[c] = storage[c] /\ allocation_map'[c]]_vars

\* Every operation ends. file_delete_data only moves on from an empty slot
\* (file_logic.c:565-585), and the loop of file_truncate_by ends below the array
\* (:63).
OperationsReturn == call # Idle ~> call = Idle
=============================================================================
