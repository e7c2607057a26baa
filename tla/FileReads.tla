------------------------------ MODULE FileReads ------------------------------
(***************************************************************************)
(* The reads of src/system/file_logic.c, the bytes a file holds, and what  *)
(* the two have to do with each other and with FileContent. Reads change   *)
(* nothing, so they are operators on the state; the invariants ask for     *)
(* every read in every state between two operations.                       *)
(***************************************************************************)
EXTENDS FileLogic, SequencesExt

CONSTANTS
  SIZE_MODULUS,  \* 2^w, where size_t has w bits
  BUFFER_SIZE    \* bytes of the buffer a read fills (cat and read: 1024)

ASSUME FileReadsAssumption ==
  /\ SIZE_MODULUS \in Nat /\ BUFFER_SIZE \in Nat
  /\ SIZE_MODULUS % CHUNK_SIZE = 0
  /\ SIZE_MODULUS > CHUNKS_AMOUNT * CHUNK_SIZE + BUFFER_SIZE

-----------------------------------------------------------------------------
(* file_read_at *)

\* How many chunks of the file precede extent i.
RelativeStart(f, i) ==
  LET cur_chunk_extent_relative_start[j \in 0 .. i] ==
        IF j = 0 THEN 0
        ELSE cur_chunk_extent_relative_start[j - 1] + Extent(f, j - 1).chunk_amount
  IN cur_chunk_extent_relative_start[i]

\* get_chunk_index: the chunk at a position of the file, or no chunk when the
\* position is past allocated_size or the walk meets an empty slot first.
GetChunkIndex(f, position) ==
  {Extent(f, i).start + position - RelativeStart(f, i) :
     i \in {j \in Index :
              /\ position < files[f].allocated_size
              /\ \A k \in 0 .. j : Occupied(f, k)
              /\ position >= RelativeStart(f, j)
              /\ position < RelativeStart(f, j) + Extent(f, j).chunk_amount}}

\* Faulty variant: the error code of get_chunk_index is dropped.
ChunkReadableUnchecked(f, position) ==
  \A c \in GetChunkIndex(f, position) : FileOwnsChunk(f, c) /\ ChwriteAllowed(c)

\* read_chunk_from_until and file_read_chunk get the chunk at this position.
ChunkReadable(f, position) ==
  \E c \in GetChunkIndex(f, position) : FileOwnsChunk(f, c) /\ ChwriteAllowed(c)

\* Faulty variant: the whole chunks are counted from all of amount.
PiecesIgnoringHead(offset, amount) ==
  LET from == offset % CHUNK_SIZE
      first == offset \div CHUNK_SIZE
      full == amount \div CHUNK_SIZE
  IN <<[position |-> first, from |-> from, size |-> Min({amount, CHUNK_SIZE - from})]>>
     \o [n \in 1 .. full |-> [position |-> first + n, from |-> 0, size |-> CHUNK_SIZE]]

\* The pieces a read is made of: the rest of the chunk that holds the offset,
\* whole chunks, and the front of a last one.
Pieces(offset, amount) ==
  LET from == offset % CHUNK_SIZE
      first == offset \div CHUNK_SIZE
      head == Min({amount, CHUNK_SIZE - from})
      full == (amount - head) \div CHUNK_SIZE
      tail == (amount - head) % CHUNK_SIZE
  IN <<[position |-> first, from |-> from, size |-> head]>>
     \o [n \in 1 .. full |-> [position |-> first + n, from |-> 0, size |-> CHUNK_SIZE]]
     \o IF tail = 0 THEN <<>>
        ELSE <<[position |-> first + full + 1, from |-> 0, size |-> tail]>>

\* The sum in the bounds test is one of size_t and wraps. UNREADABLE stands for
\* the codes of get_chunk_index, file_read_chunk and chread.
ReadStatus(f, offset, amount) ==
  IF (offset + amount) % SIZE_MODULUS > files[f].allocated_size * CHUNK_SIZE
    THEN "INDEX_OUT_OF_BOUNDS"
  ELSE IF amount = 0 THEN "INVALID_OPERATION"
  ELSE IF BUFFER_SIZE < amount THEN "INSUFFICIENT_ARRAY_PASSED"
  ELSE IF \E p \in Range(Pieces(offset, amount)) : ~ChunkReadable(f, p.position)
    THEN "UNREADABLE"
  ELSE "SUCCESS"

\* What a successful read leaves in the buffer.
FileReadAt(f, offset, amount) ==
  LET pieces == Pieces(offset, amount)
      bytes(p) == LET c == CHOOSE c \in GetChunkIndex(f, p.position) : TRUE
                  IN SubSeq(storage[c], p.from + 1, p.from + p.size)
  IN FlattenSeq([n \in DOMAIN pieces |-> bytes(pieces[n])])

\* ws_file_read_all, which cat calls with its buffer: an empty file is printed
\* as nothing, any other is one read of everything.
ReadAllStatus(f) ==
  LET size == files[f].allocated_size * CHUNK_SIZE
  IN IF BUFFER_SIZE < size THEN "INSUFFICIENT_ARRAY_PASSED"
     ELSE IF size = 0 THEN "SUCCESS"
     ELSE ReadStatus(f, 0, size)

-----------------------------------------------------------------------------
(* The bytes of a file, straight from its extents *)

ExtentBytes(f, i) ==
  IF Occupied(f, i)
  THEN FlattenSeq([n \in 1 .. Extent(f, i).chunk_amount |->
                     storage[Extent(f, i).start + n - 1]])
  ELSE <<>>

BytesUpTo(f, i) == FlattenSeq([j \in 1 .. i |-> ExtentBytes(f, j - 1)])

Bytes(f) == BytesUpTo(f, MAX_FILE_CHUNK_EXTENTS_AMOUNT)

-----------------------------------------------------------------------------
(* The inductive invariant *)

\* The chunks of its extent that an append has yet to fill.
Unwritten == Span(CurChunk, Extent(call.file, call.extent).chunk_amount - call.written)

\* What the chunks of the files hold is what some append or truncation put there.
BytesWritten ==
  \A f \in File : \A c \in Owned(f) :
    \/ storage[c] \in [Offset -> Byte]
    \/ call.op = "append" /\ c \in Unwritten

\* How far an operation is: append has filled the front of the last extent with its
\* blocks; what truncate has to remove is still there, and nothing is when its pointer
\* is below the array; delete leaves no occupied slot behind it.
ProgressInv ==
  /\ call.op = "append" =>
       /\ LastExtent(call.file, call.extent)
       /\ \A k \in 0 .. call.written - 1 :
            storage[Extent(call.file, call.extent).start + k] = Block(call.data, k)
  /\ call.op = "truncate" =>
       /\ call.extent = -1 => \A i \in Index : ~Occupied(call.file, i)
       /\ FullChunks <= files[call.file].allocated_size + call.deleted_chunks_count
       /\ FullChunks = files[call.file].allocated_size + call.deleted_chunks_count
            => call.amount % CHUNK_SIZE = 0
  /\ call.op = "delete" => \A i \in 0 .. call.extent - 1 : ~Occupied(call.file, i)

\* What holds between any two steps, and is kept by each of them: that reads are exact
\* and that FileContent is implemented follow from it (FileReadsProofs).
DataInv == IInv /\ BytesWritten /\ ProgressInv

-----------------------------------------------------------------------------
(* The promise of FileContent is kept *)

\* The call that runs, without its progress.
AbstractCall ==
  CASE call.op = "append"   -> [op |-> "append", file |-> call.file, data |-> call.data]
    [] call.op = "truncate" -> [op |-> "truncate", file |-> call.file, amount |-> call.amount]
    [] call.op = "delete"   -> [op |-> "delete", file |-> call.file]
    [] OTHER                -> Idle

\* An operation that runs is bound to succeed, so FileContent sees it done as
\* soon as it has passed its tests.
ContentOf(f) ==
  IF call = Idle \/ call.file # f THEN Bytes(f)
  ELSE CASE call.op = "append" ->
              BytesUpTo(f, call.extent)
              \o FlattenSeq([k \in 1 .. ChunksAmount(Len(call.data)) |-> Block(call.data, k - 1)])
         [] call.op = "truncate" ->
              LET rest == call.amount - call.deleted_chunks_count * CHUNK_SIZE
                  kept == Len(Bytes(f)) - (rest \div CHUNK_SIZE) * CHUNK_SIZE
              IN [b \in 1 .. kept |-> IF b <= Len(Bytes(f)) - rest THEN Bytes(f)[b]
                                      ELSE EOC_OPERATOR]
         [] call.op = "delete" -> <<>>

AbstractContent == [f \in File |-> ContentOf(f)]

Content == INSTANCE FileContent WITH content <- AbstractContent, running <- AbstractCall

-----------------------------------------------------------------------------
(* Properties *)

\* Whatever chunks the data went to, every operation that passes its tests does
\* to the bytes of its file what FileContent says of that very call, to the bytes
\* of no other file anything, and then returns SUCCESS (file_logic.c:32-137,
\* :399-485, :556-587); one that does not pass them changes no byte.
ImplementsFileContent == Content!Spec

\* A read of a range inside the file finds all its chunks and delivers exactly
\* the bytes of that range, across extents and partial chunks at both ends;
\* nothing malloc left behind is among them (file_logic.c:139-250). cat prints a
\* file unless its buffer is too small for the whole of it (cli_runtime.h:9).
ReadsAreExact ==
  call = Idle =>
    /\ \A f \in File : ReadAllStatus(f) = "SUCCESS" <=> Len(Bytes(f)) <= BUFFER_SIZE
    /\ \A f \in File, offset \in 0 .. CHUNKS_AMOUNT * CHUNK_SIZE, amount \in 1 .. BUFFER_SIZE :
         offset + amount <= Len(Bytes(f)) =>
           /\ ReadStatus(f, offset, amount) = "SUCCESS"
           /\ FileReadAt(f, offset, amount) = SubSeq(Bytes(f), offset + 1, offset + amount)
           /\ Uninitialised \notin Range(FileReadAt(f, offset, amount))

\* No read past the end of the file succeeds, the ones whose offset + amount
\* wraps around in the bounds test included (file_logic.c:152): the walk of
\* get_chunk_index has a test of its own (:302).
ReadsStayInside ==
  call = Idle =>
    \A f \in File, offset \in 0 .. SIZE_MODULUS - 1, amount \in 1 .. BUFFER_SIZE + 1 :
      offset + amount > Len(Bytes(f)) => ReadStatus(f, offset, amount) # "SUCCESS"
=============================================================================
