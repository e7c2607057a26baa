--------------------------- MODULE FileLogicProofs ---------------------------
(***************************************************************************)
(* The layout of the file storage is correct for every number of chunks,   *)
(* chunk size, length of the array of extents, set of files, data and      *)
(* truncation amounts. First three lemmas for the three ways the code      *)
(* changes the layout (allocate, free an extent, shorten an extent), then  *)
(* FileLogic's inductive invariant IInv, one step per action.              *)
(***************************************************************************)
EXTENDS FileLogic, FiniteSetTheorems, TLAPS

-----------------------------------------------------------------------------
(* Sets of chunks *)

\* Every chunk number lies in a finite range, and a run of chunks has as many
\* members as it says.
LEMMA SpanCardinality ==
  ASSUME NEW start \in Nat, NEW amount \in Nat
  PROVE  IsFiniteSet(Span(start, amount)) /\ Cardinality(Span(start, amount)) = amount
<1>1. start \in Int /\ start + amount - 1 \in Int
  OBVIOUS
<1>2. /\ IsFiniteSet(start .. start + amount - 1)
      /\ Cardinality(start .. start + amount - 1)
           = IF start > start + amount - 1 THEN 0
             ELSE (start + amount - 1) - start + 1
  BY <1>1, FS_Interval, Zenon
<1>3. QED
  BY <1>2 DEF Span

\* Subsets of the chunks are finite.
LEMMA ChunksFinite ==
  ASSUME NEW S, S \subseteq Chunk
  PROVE  IsFiniteSet(S) /\ Cardinality(S) \in Nat
<1>1. CHUNKS_AMOUNT - 1 \in Int /\ 0 \in Int
  BY StorageAssumption
<1>2. IsFiniteSet(Chunk)
  BY <1>1, FS_Interval, Zenon DEF Chunk
<1>3. QED
  BY <1>2, FS_Subset, FS_CardinalityType

\* Adding a run of chunks to a set without any of them adds their number.
LEMMA AddSpan ==
  ASSUME NEW S, S \subseteq Chunk, NEW start \in Nat, NEW amount \in Nat,
         S \cap Span(start, amount) = {}
  PROVE  Cardinality(S \cup Span(start, amount)) = Cardinality(S) + amount
<1>1. IsFiniteSet(S) /\ Cardinality(S) \in Nat
  BY ChunksFinite
<1>2. IsFiniteSet(Span(start, amount)) /\ Cardinality(Span(start, amount)) = amount
  BY SpanCardinality
<1>3. Cardinality(S \cup Span(start, amount))
        = Cardinality(S) + Cardinality(Span(start, amount))
            - Cardinality(S \cap Span(start, amount))
  BY <1>1, <1>2, FS_Union
<1>4. Cardinality(S \cap Span(start, amount)) = 0
  BY FS_EmptySet
<1>5. QED
  BY <1>1, <1>2, <1>3, <1>4

\* Taking a run of chunks out of a set that has them all takes their number.
LEMMA RemoveSpan ==
  ASSUME NEW S, S \subseteq Chunk, NEW start \in Nat, NEW amount \in Nat,
         Span(start, amount) \subseteq S
  PROVE  Cardinality(S \ Span(start, amount)) = Cardinality(S) - amount
<1>1. S \ Span(start, amount) \subseteq Chunk
  OBVIOUS
<1>2. (S \ Span(start, amount)) \cap Span(start, amount) = {}
  OBVIOUS
<1>3. (S \ Span(start, amount)) \cup Span(start, amount) = S
  OBVIOUS
<1>4. Cardinality(S) = Cardinality(S \ Span(start, amount)) + amount
  BY <1>1, <1>2, <1>3, AddSpan
<1>5. QED
  BY <1>1, <1>4, ChunksFinite

\* A file owns the chunks of its occupied slots.
LEMMA OwnedMember ==
  ASSUME NEW f
  PROVE  \A c : c \in Owned(f) <=> \E i \in Index : Occupied(f, i) /\ c \in ExtentSpan(f, i)
BY DEF Owned
\* With the chunks of every slot inside the storage, the slots of a file take no
\* part in what the others own.
LEMMA OwnedInChunks ==
  ASSUME AllocatedIffOwned
  PROVE  /\ \A f \in File : Owned(f) \subseteq Chunk
         /\ \A f \in File, i \in Index : Occupied(f, i) => ExtentSpan(f, i) \subseteq Chunk
         /\ \A f \in File : \A c \in Owned(f) : allocation_map[c]
<1>1. \A f \in File : \A c \in Owned(f) : c \in Chunk /\ allocation_map[c]
  BY DEF AllocatedIffOwned
<1>2. QED
  BY <1>1, OwnedMember

-----------------------------------------------------------------------------
(* Allocation *)

\* file_allocate_chunks keeps the layout: the new extent lies in free chunks and in
\* the first empty slot, and no other slot changes.
LEMMA AllocateKeepsLayout ==
  ASSUME LayoutInv, NEW f \in File, NEW i \in Index, NEW amount \in Nat \ {0},
         NEW start \in Chunk, FirstEmptyExtent(f, i),
         FileAllocateChunks(f, i, amount, start)
  PROVE  /\ LayoutInv'
         /\ Occupied(f, i)'
         /\ Extent(f, i)'.chunk_amount = amount
         /\ Owned(f)' = Owned(f) \cup Span(start, amount)
         /\ \A g \in File \ {f} : Owned(g)' = Owned(g)
<1> DEFINE span == Span(start, amount)
<1> USE StorageAssumption, FileStorageAssumption
<1>1. /\ span \subseteq FreeChunks
      /\ allocation_map' = [c \in Chunk |-> allocation_map[c] \/ c \in span]
      /\ free_chunk_count' = free_chunk_count - amount
      /\ storage' = storage
  BY DEF FileAllocateChunks, Challoc, FirstFit, FreeRuns
<1>2. start \in Nat /\ start \in Int
  BY DEF Chunk
<1>3. /\ \A g \in File, j \in Index : <<g, j>> # <<f, i>> => Extent(g, j)' = Extent(g, j)
      /\ Extent(f, i)' = [is_empty |-> FALSE, start |-> start, chunk_amount |-> amount]
      /\ \A g \in File : files'[g].allocated_size
                          = files[g].allocated_size + IF g = f THEN amount ELSE 0
      /\ FilesTypeOK'
  BY <1>2 DEF FileAllocateChunks, Extent, LayoutInv, FilesTypeOK, ChunkExtent
<1>4. /\ Occupied(f, i)' /\ ~Occupied(f, i)
      /\ ExtentSpan(f, i)' = span
      /\ \A g \in File, j \in Index : <<g, j>> # <<f, i>> =>
            (Occupied(g, j)' <=> Occupied(g, j)) /\ ExtentSpan(g, j)' = ExtentSpan(g, j)
  BY <1>3 DEF Occupied, ExtentSpan, FirstEmptyExtent
<1>5. /\ Owned(f)' = Owned(f) \cup span
      /\ \A g \in File \ {f} : Owned(g)' = Owned(g)
  <2>1. \A c : c \in Owned(f)' <=> \E j \in Index : Occupied(f, j)' /\ c \in ExtentSpan(f, j)'
    BY DEF Owned
  <2>2. \A g \in File : \A c :
          c \in Owned(g)' <=> \E j \in Index : Occupied(g, j)' /\ c \in ExtentSpan(g, j)'
    BY DEF Owned
  <2>3. \A c : c \in Owned(f)' <=> c \in Owned(f) \/ c \in span
    BY <1>4, <2>1, OwnedMember
  <2>4. \A g \in File \ {f} : \A c : c \in Owned(g)' <=> c \in Owned(g)
    BY <1>4, <2>2, OwnedMember
  <2>5. QED
    BY <2>3, <2>4
<1>6. \A g \in File : Owned(g) \subseteq Chunk /\ Owned(g) \cap span = {}
  BY <1>1, OwnedInChunks DEF LayoutInv, FreeChunks
<1>7. StorageTypeOK' /\ FreeCountExact'
  <2>1. FreeChunks' = FreeChunks \ span
    BY <1>1 DEF FreeChunks
  <2>2. Cardinality(FreeChunks') = Cardinality(FreeChunks) - amount
    <3>1. FreeChunks \subseteq Chunk
      BY DEF FreeChunks
    <3>2. QED
      BY <1>1, <1>2, <2>1, <3>1, RemoveSpan
  <2>3. Cardinality(FreeChunks') \in Nat
    BY <2>1, ChunksFinite DEF FreeChunks
  <2>4. QED
    BY <1>1, <2>2, <2>3 DEF LayoutInv, FreeCountExact, StorageTypeOK
<1>8. ExtentsNotVoid'
  BY <1>3, <1>4 DEF LayoutInv, ExtentsNotVoid
<1>9. ExtentsCompact'
  BY <1>4 DEF LayoutInv, ExtentsCompact, FirstEmptyExtent, Index, LastIndex
<1>10. NoSharedChunk'
  <2>1. \A g \in File, j \in Index : Occupied(g, j) => ExtentSpan(g, j) \cap span = {}
    BY <1>6, OwnedMember
  <2>2. SUFFICES ASSUME NEW g \in File, NEW h \in File, NEW j \in Index, NEW k \in Index,
                        Occupied(g, j)', Occupied(h, k)', <<g, j>> # <<h, k>>
                 PROVE  ExtentSpan(g, j)' \cap ExtentSpan(h, k)' = {}
    BY DEF NoSharedChunk
  <2>3. CASE <<g, j>> = <<f, i>>
    BY <1>4, <2>1, <2>2, <2>3
  <2>4. CASE <<h, k>> = <<f, i>>
    BY <1>4, <2>1, <2>2, <2>4
  <2>5. CASE <<g, j>> # <<f, i>> /\ <<h, k>> # <<f, i>>
    BY <1>4, <2>2, <2>5 DEF LayoutInv, NoSharedChunk
  <2>6. QED
    BY <2>3, <2>4, <2>5
<1>11. AllocatedIffOwned'
  <2>1. UNION {Owned(g)' : g \in File} = (UNION {Owned(g) : g \in File}) \cup span
    BY <1>5
  <2>2. {c \in Chunk : allocation_map'[c]} = {c \in Chunk : allocation_map[c]} \cup span
    BY <1>1 DEF FreeChunks
  <2>3. QED
    BY <2>1, <2>2 DEF LayoutInv, AllocatedIffOwned
<1>12. SizeExact'
  <2>1. Cardinality(Owned(f)') = Cardinality(Owned(f)) + amount
    BY <1>2, <1>5, <1>6, AddSpan
  <2>2. files[f].allocated_size = Cardinality(Owned(f))
    BY DEF LayoutInv, SizeExact
  <2>3. files'[f].allocated_size = Cardinality(Owned(f)')
    BY <1>3, <2>1, <2>2
  <2>4. \A g \in File \ {f} : files'[g].allocated_size = Cardinality(Owned(g)')
    BY <1>3, <1>5 DEF LayoutInv, SizeExact, FilesTypeOK
  <2>5. QED
    BY <2>3, <2>4 DEF SizeExact
<1>13. QED
  BY <1>3, <1>4, <1>5, <1>7, <1>8, <1>9, <1>10, <1>11, <1>12 DEF LayoutInv

-----------------------------------------------------------------------------
(* Freeing an extent *)

\* In a compact array, the left shift closes the gap at slot i: the slots before
\* it stay, each later occupied one moves one to the left, and no other slot is
\* left occupied.
LEMMA LeftShiftClosesGap ==
  ASSUME NEW extents \in [Index -> ChunkExtent], NEW i \in Index,
         ~extents[i].is_empty,
         \A j, k \in Index : j < k /\ ~extents[k].is_empty => ~extents[j].is_empty
  PROVE  /\ LeftShift(extents, i) \in [Index -> ChunkExtent]
         /\ \A j \in Index : j < i => LeftShift(extents, i)[j] = extents[j]
         /\ \A j \in Index : j >= i /\ j < LastIndex /\ ~extents[j + 1].is_empty
              => LeftShift(extents, i)[j] = extents[j + 1]
         /\ \A j \in Index : j >= i /\ (j < LastIndex => extents[j + 1].is_empty)
              => LeftShift(extents, i)[j].is_empty
<1> USE FileStorageAssumption DEF Index, LastIndex
<1>1. ASSUME NEW j \in Index, j < i
      PROVE  LeftShift(extents, i)[j] = extents[j]
  BY <1>1 DEF LeftShift, InRun
<1>2. ASSUME NEW j \in Index, j >= i, j < LastIndex, ~extents[j + 1].is_empty
      PROVE  LeftShift(extents, i)[j] = extents[j + 1]
  <2>1. \A k \in i + 1 .. j + 1 : ~extents[k].is_empty
    BY <1>2
  <2>2. InRun(extents, i, j) /\ InRun(extents, i, j + 1)
    BY <1>2, <2>1 DEF InRun
  <2>3. QED
    BY <2>2 DEF LeftShift
<1>3. ASSUME NEW j \in Index, j >= i, j < LastIndex => extents[j + 1].is_empty
      PROVE  LeftShift(extents, i)[j].is_empty
  <2>1. ~InRun(extents, i, j + 1)
    BY <1>3 DEF InRun
  <2>2. CASE InRun(extents, i, j)
    BY <2>1, <2>2 DEF LeftShift, EmptyExtent
  <2>3. CASE ~InRun(extents, i, j)
    <3>1. \E k \in i + 1 .. j : extents[k].is_empty
      BY <1>3, <2>3 DEF InRun
    <3>2. extents[j].is_empty
      BY <3>1
    <3>3. QED
      BY <2>3, <3>2 DEF LeftShift
  <2>4. QED
    BY <2>2, <2>3
<1>4. LeftShift(extents, i) \in [Index -> ChunkExtent]
  <2>1. EmptyExtent \in ChunkExtent
    BY DEF EmptyExtent, ChunkExtent
  <2>2. \A j \in Index : InRun(extents, i, j + 1) => j + 1 \in Index
    BY DEF InRun
  <2>3. QED
    BY <2>1, <2>2 DEF LeftShift
<1>5. QED
  BY <1>1, <1>2, <1>3, <1>4

\* file_free_chunk_extent keeps the layout: exactly the chunks of the slot become
\* free, and the array stays compact.
LEMMA FreeKeepsLayout ==
  ASSUME LayoutInv, NEW f \in File, NEW i \in Index, Occupied(f, i),
         FileFreeChunkExtent(f, i)
  PROVE  /\ LayoutInv'
         /\ \A j \in Index : j < i => Occupied(f, j)'
         /\ \A j \in Index : j >= i => (Occupied(f, j)' <=> j < LastIndex /\ Occupied(f, j + 1))
         /\ \A g \in File : Owned(g)' \subseteq Owned(g)
<1> DEFINE span == ExtentSpan(f, i)
           amount == Extent(f, i).chunk_amount
           Before(j) == IF j < i THEN j ELSE j + 1
<1> USE StorageAssumption, FileStorageAssumption
<1>1. /\ allocation_map' = [c \in Chunk |-> allocation_map[c] /\ c \notin span]
      /\ free_chunk_count' = free_chunk_count + amount
      /\ storage' = storage
  BY DEF FileFreeChunkExtent, ChfreeSpan, ExtentSpan
<1>2. /\ files \in [File -> [allocated_size : Nat, data_chunk_extents : [Index -> ChunkExtent]]]
      /\ Extent(f, i) \in ChunkExtent
      /\ Extent(f, i).start \in Nat /\ amount \in Nat
  BY DEF LayoutInv, FilesTypeOK, Extent, ChunkExtent
<1>3. /\ \A g \in File \ {f} : files'[g] = files[g]
      /\ files'[f].allocated_size = files[f].allocated_size - amount
      /\ files'[f].data_chunk_extents = LeftShift(files[f].data_chunk_extents, i)
      /\ files' \in [File -> [allocated_size : Int, data_chunk_extents : [Index -> ChunkExtent]]]
  <2>1. LeftShift(files[f].data_chunk_extents, i) \in [Index -> ChunkExtent]
    BY <1>2, LeftShiftClosesGap DEF LayoutInv, ExtentsCompact, Occupied, Extent
  <2>2. files' = [files EXCEPT ![f] =
                    [allocated_size |-> files[f].allocated_size - amount,
                     data_chunk_extents |-> LeftShift(files[f].data_chunk_extents, i)]]
    BY DEF FileFreeChunkExtent
  <2>3. QED
    BY <1>2, <2>1, <2>2
<1>4. /\ \A g \in File \ {f}, j \in Index : Extent(g, j)' = Extent(g, j)
      /\ \A j \in Index : Occupied(f, j)' <=> Before(j) \in Index /\ Occupied(f, Before(j))
      /\ \A j \in Index : Occupied(f, j)' => Extent(f, j)' = Extent(f, Before(j))
  <2>1. \A g \in File \ {f}, j \in Index : Extent(g, j)' = Extent(g, j)
    BY <1>3 DEF Extent
  <2> DEFINE old == files[f].data_chunk_extents
             new == files'[f].data_chunk_extents
  <2>2. /\ old \in [Index -> ChunkExtent]
        /\ new = LeftShift(old, i)
        /\ ~old[i].is_empty
        /\ \A j, k \in Index : j < k /\ ~old[k].is_empty => ~old[j].is_empty
    BY <1>2, <1>3 DEF LayoutInv, ExtentsCompact, Occupied, Extent
  <2> HIDE DEF old, new
  <2>3. /\ \A j \in Index : j < i => new[j] = old[j]
        /\ \A j \in Index : j >= i /\ j < LastIndex /\ ~old[j + 1].is_empty
             => new[j] = old[j + 1]
        /\ \A j \in Index : j >= i /\ (j < LastIndex => old[j + 1].is_empty)
             => new[j].is_empty
    BY <2>2, LeftShiftClosesGap
  <2>4. \A j \in Index : ~new[j].is_empty <=> Before(j) \in Index /\ ~old[Before(j)].is_empty
    BY <2>2, <2>3 DEF Index, LastIndex
  <2>5. \A j \in Index : ~new[j].is_empty => new[j] = old[Before(j)]
    BY <2>2, <2>3 DEF Index, LastIndex
  <2>6. \A j : (Extent(f, j)' = new[j]) /\ (Extent(f, j) = old[j])
    BY DEF Extent, old, new
  <2>7. QED
    BY <2>1, <2>4, <2>5, <2>6 DEF Occupied
<1>5. /\ \A g \in File \ {f}, j \in Index :
            (Occupied(g, j)' <=> Occupied(g, j)) /\ ExtentSpan(g, j)' = ExtentSpan(g, j)
      /\ \A j \in Index : Occupied(f, j)' => ExtentSpan(f, j)' = ExtentSpan(f, Before(j))
  BY <1>4 DEF Occupied, ExtentSpan
<1>6. \A j \in Index : Occupied(f, j) /\ j # i =>
        \E k \in Index : Occupied(f, k)' /\ Before(k) = j
  <2>1. SUFFICES ASSUME NEW j \in Index, Occupied(f, j), j # i
                 PROVE  \E k \in Index : Occupied(f, k)' /\ Before(k) = j
    OBVIOUS
  <2>2. CASE j < i
    BY <1>4, <2>1, <2>2
  <2>3. CASE j > i
    <3>1. j - 1 \in Index /\ Before(j - 1) = j
      BY <2>1, <2>3 DEF Index, LastIndex
    <3>2. QED
      BY <1>4, <2>1, <3>1
  <2>4. QED
    BY <2>1, <2>2, <2>3 DEF Index, LastIndex
<1>7. /\ \A g \in File \ {f} : Owned(g)' = Owned(g)
      /\ Owned(f)' = Owned(f) \ span
      /\ span \subseteq Owned(f)
  <2>1. \A g \in File : \A c :
          c \in Owned(g)' <=> \E j \in Index : Occupied(g, j)' /\ c \in ExtentSpan(g, j)'
    BY DEF Owned
  <2>2. \A g \in File \ {f} : \A c : c \in Owned(g)' <=> c \in Owned(g)
    BY <1>5, <2>1, OwnedMember
  <2>3. \A j \in Index : Occupied(f, j) /\ j # i => ExtentSpan(f, j) \cap span = {}
    BY DEF LayoutInv, NoSharedChunk
  <2>4. \A c : c \in Owned(f)' => c \in Owned(f) \ span
    <3>1. \A j \in Index : Before(j) # i
      BY DEF Index, LastIndex
    <3>2. QED
      BY <1>4, <1>5, <2>1, <2>3, <3>1, OwnedMember
  <2>5. \A c : c \in Owned(f) \ span => c \in Owned(f)'
    BY <1>5, <1>6, <2>1, OwnedMember
  <2>6. span \subseteq Owned(f)
    BY OwnedMember
  <2>7. QED
    BY <2>2, <2>4, <2>5, <2>6
<1>8. \A g \in File : Owned(g) \subseteq Chunk /\ \A c \in Owned(g) : allocation_map[c]
  BY OwnedInChunks DEF LayoutInv
<1>9. StorageTypeOK' /\ FreeCountExact'
  <2>1. FreeChunks \subseteq Chunk /\ FreeChunks \cap span = {}
    BY <1>7, <1>8 DEF FreeChunks
  <2>2. FreeChunks' = FreeChunks \cup span
    BY <1>1, <1>7, <1>8 DEF FreeChunks
  <2>3. Cardinality(FreeChunks') = Cardinality(FreeChunks) + amount
    BY <1>2, <2>1, <2>2, AddSpan DEF ExtentSpan
  <2>4. Cardinality(FreeChunks) \in Nat
    BY <2>1, ChunksFinite
  <2>5. QED
    BY <1>1, <1>2, <2>3, <2>4 DEF LayoutInv, FreeCountExact, StorageTypeOK
<1>10. SizeExact' /\ FilesTypeOK'
  <2>1. Cardinality(Owned(f)') = Cardinality(Owned(f)) - amount
    BY <1>2, <1>7, <1>8, RemoveSpan DEF ExtentSpan
  <2>2. Cardinality(Owned(f)') \in Nat
    BY <1>7, <1>8, ChunksFinite
  <2>3. files[f].allocated_size = Cardinality(Owned(f))
    BY DEF LayoutInv, SizeExact
  <2>4. files'[f].allocated_size = Cardinality(Owned(f)')
    BY <1>3, <2>1, <2>3
  <2>5. \A g \in File \ {f} : files'[g].allocated_size = Cardinality(Owned(g)')
    BY <1>3, <1>7 DEF LayoutInv, SizeExact
  <2>6. \A g \in File : files'[g].allocated_size \in Nat
    BY <1>2, <1>3, <2>2, <2>4
  <2>7. FilesTypeOK'
    BY <1>3, <2>6 DEF FilesTypeOK
  <2>8. QED
    BY <2>4, <2>5, <2>7 DEF SizeExact
<1>11. ExtentsNotVoid'
  BY <1>4, <1>5 DEF LayoutInv, ExtentsNotVoid
<1>12. ExtentsCompact'
  <2>1. SUFFICES ASSUME NEW g \in File, NEW j \in Index, NEW k \in Index,
                        j < k, Occupied(g, k)'
                 PROVE  Occupied(g, j)'
    BY DEF ExtentsCompact
  <2>2. CASE g # f
    BY <1>5, <2>1, <2>2 DEF LayoutInv, ExtentsCompact
  <2>3. CASE g = f
    BY <1>4, <2>1, <2>3 DEF LayoutInv, ExtentsCompact, Index, LastIndex
  <2>4. QED
    BY <2>2, <2>3
<1>13. NoSharedChunk'
  <2>1. SUFFICES ASSUME NEW g \in File, NEW h \in File, NEW j \in Index, NEW k \in Index,
                        Occupied(g, j)', Occupied(h, k)', <<g, j>> # <<h, k>>
                 PROVE  ExtentSpan(g, j)' \cap ExtentSpan(h, k)' = {}
    BY DEF NoSharedChunk
  <2> DEFINE From(e, n) == IF e = f THEN Before(n) ELSE n
  <2>2. /\ From(g, j) \in Index /\ Occupied(g, From(g, j))
        /\ ExtentSpan(g, j)' = ExtentSpan(g, From(g, j))
    BY <1>4, <1>5, <2>1
  <2>3. /\ From(h, k) \in Index /\ Occupied(h, From(h, k))
        /\ ExtentSpan(h, k)' = ExtentSpan(h, From(h, k))
    BY <1>4, <1>5, <2>1
  <2>4. <<g, From(g, j)>> # <<h, From(h, k)>>
    BY <2>1 DEF Index, LastIndex
  <2>5. QED
    BY <2>2, <2>3, <2>4 DEF LayoutInv, NoSharedChunk
<1>14. AllocatedIffOwned'
  <2>1. \A g \in File \ {f} : Owned(g) \cap span = {}
    <3>1. SUFFICES ASSUME NEW g \in File \ {f}, NEW c \in Owned(g)
                   PROVE  c \notin span
      OBVIOUS
    <3>2. PICK j \in Index : Occupied(g, j) /\ c \in ExtentSpan(g, j)
      BY OwnedMember
    <3>3. ExtentSpan(g, j) \cap span = {}
      BY <3>2 DEF LayoutInv, NoSharedChunk
    <3>4. QED
      BY <3>2, <3>3
  <2>2. UNION {Owned(g)' : g \in File} = (UNION {Owned(g) : g \in File}) \ span
    BY <1>7, <2>1
  <2>3. {c \in Chunk : allocation_map'[c]} = {c \in Chunk : allocation_map[c]} \ span
    BY <1>1
  <2>4. QED
    BY <2>2, <2>3 DEF LayoutInv, AllocatedIffOwned
<1>15. /\ \A j \in Index : j < i => Occupied(f, j)'
       /\ \A j \in Index : j >= i => (Occupied(f, j)' <=> j < LastIndex /\ Occupied(f, j + 1))
  BY <1>4 DEF LayoutInv, ExtentsCompact, Index, LastIndex
<1>16. \A g \in File : Owned(g)' \subseteq Owned(g)
  BY <1>7
<1>17. QED
  BY <1>9, <1>10, <1>11, <1>12, <1>13, <1>14, <1>15, <1>16 DEF LayoutInv

-----------------------------------------------------------------------------
(* Shortening an extent *)

\* file_truncate_chunk_extent keeps the layout when something of the extent stays.
LEMMA ShortenKeepsLayout ==
  ASSUME LayoutInv, NEW f \in File, NEW i \in Index, Occupied(f, i),
         NEW amount \in Nat, amount < Extent(f, i).chunk_amount,
         FileTruncateChunkExtent(f, i, amount), storage' \in [Chunk -> [Offset -> Byte \cup {Uninitialised}]]
  PROVE  LayoutInv' /\ \A g \in File : Owned(g)' \subseteq Owned(g)
<1> DEFINE start == Extent(f, i).start
           kept == Extent(f, i).chunk_amount - amount
           cut == Span(start + kept, amount)
<1> USE StorageAssumption, FileStorageAssumption
<1>1. /\ files \in [File -> [allocated_size : Nat, data_chunk_extents : [Index -> ChunkExtent]]]
      /\ Extent(f, i) \in ChunkExtent
      /\ start \in Nat /\ kept \in Nat \ {0} /\ start + kept \in Nat
      /\ Extent(f, i).chunk_amount \in Nat
  BY DEF LayoutInv, FilesTypeOK, Extent, ChunkExtent
<1>2. start + Extent(f, i).chunk_amount - amount = start + kept
  BY <1>1
<1>3. /\ allocation_map' = [c \in Chunk |-> allocation_map[c] /\ c \notin cut]
      /\ free_chunk_count' = free_chunk_count + amount
  BY <1>2 DEF FileTruncateChunkExtent, ChfreeSpan
<1>4. /\ \A g \in File \ {f} : files'[g] = files[g]
      /\ files'[f].allocated_size = files[f].allocated_size - amount
      /\ files' \in [File -> [allocated_size : Int, data_chunk_extents : [Index -> ChunkExtent]]]
      /\ \A j \in Index \ {i} :
           files'[f].data_chunk_extents[j] = files[f].data_chunk_extents[j]
      /\ files'[f].data_chunk_extents[i] =
           [Extent(f, i) EXCEPT !.chunk_amount = kept]
  <2> DEFINE extents == [files[f].data_chunk_extents EXCEPT ![i] =
                           [Extent(f, i) EXCEPT !.chunk_amount = kept]]
  <2>1. files' = [files EXCEPT ![f] =
                    [allocated_size |-> files[f].allocated_size - amount,
                     data_chunk_extents |-> extents]]
    BY Zenon DEF FileTruncateChunkExtent
  <2>2. /\ extents \in [Index -> ChunkExtent]
        /\ \A j \in Index \ {i} : extents[j] = files[f].data_chunk_extents[j]
        /\ extents[i] = [Extent(f, i) EXCEPT !.chunk_amount = kept]
    BY <1>1 DEF ChunkExtent, Extent
  <2> HIDE DEF extents
  <2>3. QED
    BY <1>1, <2>1, <2>2
<1>5. /\ \A g \in File, j \in Index : Occupied(g, j)' <=> Occupied(g, j)
      /\ \A g \in File, j \in Index : <<g, j>> # <<f, i>> => Extent(g, j)' = Extent(g, j)
      /\ Extent(f, i)' = [Extent(f, i) EXCEPT !.chunk_amount = kept]
  BY <1>1, <1>4 DEF Occupied, Extent, ChunkExtent
<1>6. /\ \A g \in File, j \in Index : <<g, j>> # <<f, i>> => ExtentSpan(g, j)' = ExtentSpan(g, j)
      /\ ExtentSpan(f, i)' = ExtentSpan(f, i) \ cut
      /\ cut \subseteq ExtentSpan(f, i)
  <2>1. ExtentSpan(f, i)' = Span(start, kept)
    BY <1>1, <1>5 DEF ChunkExtent, ExtentSpan
  <2>2. ExtentSpan(f, i) = Span(start, kept + amount)
    BY <1>1 DEF ExtentSpan
  <2>3. /\ Span(start, kept) = Span(start, kept + amount) \ cut
        /\ cut \subseteq Span(start, kept + amount)
    BY <1>1 DEF Span
  <2>4. QED
    BY <1>5, <2>1, <2>2, <2>3 DEF ExtentSpan
<1>7. \A g \in File, j \in Index :
        Occupied(g, j) /\ <<g, j>> # <<f, i>> => ExtentSpan(g, j) \cap cut = {}
  BY <1>6 DEF LayoutInv, NoSharedChunk
<1>8. /\ \A g \in File \ {f} : Owned(g)' = Owned(g) /\ Owned(g) \cap cut = {}
      /\ Owned(f)' = Owned(f) \ cut
      /\ cut \subseteq Owned(f)
  <2>1. \A g \in File : \A c :
          c \in Owned(g)' <=> \E j \in Index : Occupied(g, j)' /\ c \in ExtentSpan(g, j)'
    BY DEF Owned
  <2>2. \A g \in File \ {f} : \A c : c \in Owned(g)' <=> c \in Owned(g)
    BY <1>5, <1>6, <2>1, OwnedMember
  <2>3. \A g \in File \ {f} : \A c \in Owned(g) : c \notin cut
    BY <1>7, OwnedMember
  <2>4. \A c : c \in Owned(f)' <=> c \in Owned(f) /\ c \notin cut
    BY <1>5, <1>6, <1>7, <2>1, OwnedMember
  <2>5. cut \subseteq Owned(f)
    BY <1>6, OwnedMember
  <2>6. QED
    BY <2>2, <2>3, <2>4, <2>5
<1>9. \A g \in File : Owned(g) \subseteq Chunk /\ \A c \in Owned(g) : allocation_map[c]
  BY OwnedInChunks DEF LayoutInv
<1>10. StorageTypeOK' /\ FreeCountExact'
  <2>1. FreeChunks \subseteq Chunk /\ FreeChunks \cap cut = {}
    BY <1>8, <1>9 DEF FreeChunks
  <2>2. FreeChunks' = FreeChunks \cup cut
    BY <1>3, <1>8, <1>9 DEF FreeChunks
  <2>3. Cardinality(FreeChunks') = Cardinality(FreeChunks) + amount
    BY <1>1, <2>1, <2>2, AddSpan
  <2>4. Cardinality(FreeChunks) \in Nat
    BY <2>1, ChunksFinite
  <2>5. QED
    BY <1>3, <2>3, <2>4 DEF LayoutInv, FreeCountExact, StorageTypeOK
<1>11. SizeExact' /\ FilesTypeOK'
  <2>1. Cardinality(Owned(f)') = Cardinality(Owned(f)) - amount
    BY <1>1, <1>8, <1>9, RemoveSpan
  <2>2. Cardinality(Owned(f)') \in Nat
    BY <1>8, <1>9, ChunksFinite
  <2>3. files[f].allocated_size = Cardinality(Owned(f))
    BY DEF LayoutInv, SizeExact
  <2>4. files'[f].allocated_size = Cardinality(Owned(f)')
    BY <1>4, <2>1, <2>3
  <2>5. \A g \in File \ {f} : files'[g].allocated_size = Cardinality(Owned(g)')
    BY <1>4, <1>8 DEF LayoutInv, SizeExact
  <2>6. \A g \in File : files'[g].allocated_size \in Nat
    BY <1>1, <1>4, <2>2, <2>4
  <2>7. FilesTypeOK'
    BY <1>4, <2>6 DEF FilesTypeOK
  <2>8. QED
    BY <2>4, <2>5, <2>7 DEF SizeExact
<1>12. ExtentsNotVoid'
  BY <1>1, <1>5 DEF LayoutInv, ExtentsNotVoid, ChunkExtent
<1>13. ExtentsCompact'
  BY <1>5 DEF LayoutInv, ExtentsCompact
<1>14. NoSharedChunk'
  <2>1. \A g \in File, j \in Index : ExtentSpan(g, j)' \subseteq ExtentSpan(g, j)
    BY <1>6
  <2>2. QED
    BY <1>5, <2>1 DEF LayoutInv, NoSharedChunk
<1>15. AllocatedIffOwned'
  <2>1. UNION {Owned(g)' : g \in File} = (UNION {Owned(g) : g \in File}) \ cut
    BY <1>8
  <2>2. {c \in Chunk : allocation_map'[c]} = {c \in Chunk : allocation_map[c]} \ cut
    BY <1>3
  <2>3. QED
    BY <2>1, <2>2 DEF LayoutInv, AllocatedIffOwned
<1>16. \A g \in File : Owned(g)' \subseteq Owned(g)
  BY <1>8
<1>17. QED
  BY <1>10, <1>11, <1>12, <1>13, <1>14, <1>15, <1>16 DEF LayoutInv

-----------------------------------------------------------------------------
(* Data and chunks *)

\* Data that is not empty needs at least one chunk.
LEMMA ChunksAmountPositive ==
  ASSUME NEW n \in Nat \ {0}
  PROVE  ChunksAmount(n) \in Nat \ {0}
<1>1. /\ CHUNK_SIZE \in Nat \ {0}
      /\ n + CHUNK_SIZE - 1 >= CHUNK_SIZE
  BY StorageAssumption
<1>2. (n + CHUNK_SIZE - 1) \div CHUNK_SIZE >= 1
  BY <1>1
<1>3. QED
  BY <1>1, <1>2 DEF ChunksAmount

\* What append writes into a chunk, and what chtrunc leaves in one, are bytes.
LEMMA BlockBytes ==
  ASSUME NEW data \in Data, NEW k \in Nat
  PROVE  Block(data, k) \in [Offset -> Byte]
<1>1. data \in Seq(Byte) /\ CHUNK_SIZE \in Nat /\ EOC_OPERATOR \in Byte
  BY FileLogicAssumption, StorageAssumption
<1>2. ASSUME NEW b \in Offset, k * CHUNK_SIZE + b <= Len(data)
      PROVE  data[k * CHUNK_SIZE + b] \in Byte
  <2>1. k * CHUNK_SIZE \in Nat
    BY <1>1
  <2>2. k * CHUNK_SIZE + b \in 1 .. Len(data)
    BY <1>1, <1>2, <2>1 DEF Offset
  <2>3. QED
    BY <1>1, <2>2
<1>3. QED
  BY <1>1, <1>2 DEF Block

\* The layout does not depend on the bytes.
LEMMA BytesDoNotMatter ==
  ASSUME LayoutInv, UNCHANGED <<allocation_map, free_chunk_count, files>>,
         storage' \in [Chunk -> [Offset -> Byte \cup {Uninitialised}]]
  PROVE  LayoutInv'
<1>1. \A f : Owned(f)' = Owned(f)
  BY DEF Owned, Extent, Occupied, ExtentSpan
<1>2. FreeChunks' = FreeChunks
  BY DEF FreeChunks
<1>3. StorageTypeOK' /\ FilesTypeOK'
  BY DEF LayoutInv, StorageTypeOK, FilesTypeOK
<1>4. ExtentsNotVoid' /\ ExtentsCompact' /\ NoSharedChunk'
  <2>1. ExtentsNotVoid'
    BY DEF LayoutInv, ExtentsNotVoid, Occupied, Extent
  <2>2. ExtentsCompact'
    BY DEF LayoutInv, ExtentsCompact, Occupied, Extent
  <2>3. NoSharedChunk'
    BY DEF LayoutInv, NoSharedChunk, ExtentSpan, Occupied, Extent
  <2>4. QED
    BY <2>1, <2>2, <2>3
<1>5. AllocatedIffOwned' /\ FreeCountExact' /\ SizeExact'
  <2>1. UNION {Owned(f)' : f \in File} = UNION {Owned(f) : f \in File}
    BY <1>1
  <2>2. AllocatedIffOwned'
    BY <2>1 DEF LayoutInv, AllocatedIffOwned
  <2>3. QED
    BY <1>1, <1>2, <2>2 DEF LayoutInv, FreeCountExact, SizeExact
<1>6. QED
  BY <1>3, <1>4, <1>5 DEF LayoutInv

\* A slot without extents can be taken for another file, whose array file_init
\* clears (files.c:30): nothing is allocated for it.
LEMMA NewFileKeepsLayout ==
  ASSUME LayoutInv, NEW f \in File, \A i \in Index : ~Occupied(f, i),
         UNCHANGED storageVars,
         files' = [files EXCEPT ![f] =
                     [allocated_size |-> 0,
                      data_chunk_extents |-> [i \in Index |-> EmptyExtent]]]
  PROVE  LayoutInv'
<1>1. files'[f] = [allocated_size |-> 0, data_chunk_extents |-> [i \in Index |-> EmptyExtent]]
  BY DEF LayoutInv, FilesTypeOK
<1>2. \A g \in File : g # f => files'[g] = files[g]
  BY DEF LayoutInv, FilesTypeOK
<1>3. \A i \in Index : ~Occupied(f, i)'
  BY <1>1 DEF Occupied, Extent, EmptyExtent
<1>4. \A g \in File, i \in Index :
        /\ Occupied(g, i)' <=> Occupied(g, i)
        /\ Occupied(g, i) => Extent(g, i)' = Extent(g, i)
                             /\ ExtentSpan(g, i)' = ExtentSpan(g, i)
  BY <1>2, <1>3 DEF Occupied, Extent, ExtentSpan
<1>5. \A g \in File : Owned(g)' = Owned(g)
  <2> SUFFICES ASSUME NEW g \in File PROVE Owned(g)' = Owned(g)
    OBVIOUS
  <2>1. \A c : c \in Owned(g)' <=> \E i \in Index : Occupied(g, i)' /\ c \in ExtentSpan(g, i)'
    BY DEF Owned
  <2>2. QED
    BY <1>4, <2>1, OwnedMember
<1>6. Owned(f) = {}
  BY OwnedMember
<1>7. UNCHANGED <<allocation_map, free_chunk_count, storage>>
  BY DEF storageVars
<1>8. StorageTypeOK' /\ FilesTypeOK'
  <2>1. EmptyExtent \in ChunkExtent
    BY DEF EmptyExtent, ChunkExtent
  <2>2. QED
    BY <1>7, <2>1 DEF LayoutInv, StorageTypeOK, FilesTypeOK
<1>9. ExtentsNotVoid'
  BY <1>4 DEF LayoutInv, ExtentsNotVoid
<1>10. ExtentsCompact'
  BY <1>4 DEF LayoutInv, ExtentsCompact
<1>11. NoSharedChunk'
  BY <1>4 DEF LayoutInv, NoSharedChunk
<1>12. AllocatedIffOwned'
  <2>1. UNION {Owned(g)' : g \in File} = UNION {Owned(g) : g \in File}
    BY <1>5
  <2>2. QED
    BY <1>7, <2>1 DEF LayoutInv, AllocatedIffOwned
<1>13. FreeCountExact'
  BY <1>7 DEF LayoutInv, FreeCountExact, FreeChunks
<1>14. SizeExact'
  <2>1. files'[f].allocated_size = Cardinality(Owned(f)')
    BY <1>1, <1>5, <1>6, FS_EmptySet
  <2>2. QED
    BY <1>2, <1>5, <2>1 DEF LayoutInv, SizeExact
<1>15. QED
  BY <1>8, <1>9, <1>10, <1>11, <1>12, <1>13, <1>14 DEF LayoutInv

-----------------------------------------------------------------------------
(* The inductive invariant holds *)

\* A storage without files satisfies the invariant.
LEMMA InitEstablishes == Init => IInv
<1> SUFFICES ASSUME Init PROVE IInv
  OBVIOUS
<1> USE StorageAssumption, FileStorageAssumption
<1>1. StorageTypeOK
  BY DEF Init, StorageInit, StorageTypeOK
<1>2. FilesTypeOK
  BY DEF Init, FilesInit, FilesTypeOK, EmptyExtent, ChunkExtent
<1>3. \A f \in File, i \in Index : ~Occupied(f, i)
  BY DEF Init, FilesInit, Occupied, Extent, EmptyExtent
<1>4. \A f \in File : Owned(f) = {}
  BY <1>3, OwnedMember
<1>5. ExtentsNotVoid /\ ExtentsCompact /\ NoSharedChunk
  BY <1>3 DEF ExtentsNotVoid, ExtentsCompact, NoSharedChunk
<1>6. AllocatedIffOwned
  BY <1>4 DEF Init, StorageInit, AllocatedIffOwned
<1>7. FreeCountExact
  <2>1. FreeChunks = Span(0, CHUNKS_AMOUNT)
    BY DEF Init, StorageInit, FreeChunks, Chunk, Span
  <2>2. QED
    BY <2>1, SpanCardinality DEF Init, StorageInit, FreeCountExact
<1>8. SizeExact
  BY <1>4, FS_EmptySet DEF Init, FilesInit, SizeExact
<1>9. call \in Call /\ status \in Status /\ CallInv
  BY DEF Init, Call, Idle, Status, CallInv
<1>10. QED
  BY <1>1, <1>2, <1>5, <1>6, <1>7, <1>8, <1>9 DEF IInv, LayoutInv

\* The extent an append writes into is found by file_owns_chunk, and its chunks
\* are allocated.
LEMMA OwnWritesAllowed ==
  ASSUME IInv, call.op = "append"
  PROVE  /\ call \in AppendCall
         /\ CurChunk \in ExtentSpan(call.file, call.extent)
         /\ WriteAllowed
<1>1. call \in AppendCall
  BY DEF IInv, Call, Idle, AppendCall, TruncateCall, DeleteCall
<1>2. /\ call.file \in File /\ call.extent \in Index /\ call.written \in Nat
      /\ Occupied(call.file, call.extent)
      /\ call.written < Extent(call.file, call.extent).chunk_amount
  BY <1>1 DEF IInv, CallInv, AppendCall
<1>3. /\ Extent(call.file, call.extent).start \in Nat
      /\ Extent(call.file, call.extent).chunk_amount \in Nat
  BY <1>2 DEF IInv, LayoutInv, FilesTypeOK, Extent, ChunkExtent
<1>4. CurChunk \in ExtentSpan(call.file, call.extent)
  BY <1>2, <1>3 DEF CurChunk, ExtentSpan, Span
<1>5. CurChunk \in Owned(call.file)
  BY <1>2, <1>4, OwnedMember
<1>6. CurChunk \in Chunk /\ allocation_map[CurChunk]
  BY <1>2, <1>5, OwnedInChunks DEF IInv, LayoutInv
<1>7. \A j \in 0 .. call.extent : Occupied(call.file, j)
  BY <1>2, FileStorageAssumption DEF IInv, LayoutInv, ExtentsCompact, Index, LastIndex
<1>8. QED
  BY <1>1, <1>2, <1>4, <1>6, <1>7 DEF WriteAllowed, FileOwnsChunk, ChwriteAllowed

\* What the last step of a truncation works on.
LEMMA TailFits ==
  ASSUME IInv, call.op = "truncate", call.extent >= 0, ~GoesWhole
  PROVE  /\ call.file \in File /\ call.extent \in Index
         /\ Occupied(call.file, call.extent)
         /\ FullChunks - call.deleted_chunks_count \in Nat
         /\ FullChunks - call.deleted_chunks_count < Extent(call.file, call.extent).chunk_amount
<1>1. call \in TruncateCall
  BY DEF IInv, Call, Idle, AppendCall, TruncateCall, DeleteCall
<1>2. /\ call.file \in File /\ call.extent \in Index /\ call.amount \in Nat
      /\ call.deleted_chunks_count \in Nat
  <2>1. call.file \in File /\ call.deleted_chunks_count \in Nat
    BY <1>1 DEF TruncateCall
  <2>2. call.amount \in Nat
    BY <1>1, FileLogicAssumption DEF TruncateCall
  <2>3. call.extent \in -1 .. LastIndex
    BY <1>1 DEF TruncateCall
  <2>4. call.extent \in Index
    BY <2>3, FileStorageAssumption DEF Index, LastIndex
  <2>5. QED
    BY <2>1, <2>2, <2>3, <2>4
<1>3. FullChunks \in Nat
  BY <1>2, StorageAssumption DEF FullChunks
<1>4. LastExtent(call.file, call.extent) /\ call.deleted_chunks_count <= FullChunks
  BY DEF IInv, CallInv
<1>5. Extent(call.file, call.extent).chunk_amount \in Nat
  BY <1>2 DEF IInv, LayoutInv, FilesTypeOK, Extent, ChunkExtent
<1>6. QED
  BY <1>2, <1>3, <1>4, <1>5 DEF GoesWhole, LastExtent, Index

\* Every step of every operation preserves the invariant.
LEMMA StepPreserves == IInv /\ [Next]_vars => IInv'
<1> SUFFICES ASSUME IInv, [Next]_vars PROVE IInv'
  OBVIOUS
<1> USE StorageAssumption, FileStorageAssumption, FileLogicAssumption
<1>1. ASSUME UNCHANGED <<storageVars, files>>
      PROVE  LayoutInv'
  BY <1>1, BytesDoNotMatter DEF IInv, LayoutInv, StorageTypeOK, storageVars
<1>2. ASSUME NEW code \in Status, Return(code), LayoutInv'
      PROVE  IInv'
  BY <1>2 DEF IInv, Return, Idle, Call, CallInv
<1>3. ASSUME NEW f \in File, NEW data \in Data, AppendRefused(f, data)
      PROVE  IInv'
  BY <1>1, <1>2, <1>3 DEF AppendRefused, Refuse, AppendStatus, ChallocStatus, Status
<1>4. ASSUME NEW f \in File, NEW data \in Data, AppendStart(f, data)
      PROVE  IInv'
  <2> DEFINE amount == ChunksAmount(Len(data))
  <2>1. PICK i \in Index, start \in Chunk :
          /\ FirstEmptyExtent(f, i)
          /\ FileAllocateChunks(f, i, amount, start)
          /\ call' = [op |-> "append", file |-> f, data |-> data, extent |-> i, written |-> 0]
    BY <1>4 DEF AppendStart
  <2>2. Len(data) \in Nat \ {0}
    BY <1>4 DEF AppendStart, AppendStatus
  <2>3. amount \in Nat \ {0}
    BY <2>2, ChunksAmountPositive
  <2> HIDE DEF amount
  <2>4. LayoutInv' /\ Occupied(f, i)' /\ Extent(f, i)'.chunk_amount = amount
    BY <2>1, <2>3, AllocateKeepsLayout DEF IInv
  <2>5. call' \in Call
    BY <2>1 DEF Call, AppendCall
  <2>6. CallInv'
    BY <2>1, <2>3, <2>4 DEF CallInv, amount, Occupied, Extent
  <2>7. QED
    BY <1>4, <2>4, <2>5, <2>6 DEF IInv, AppendStart
<1>5. ASSUME AppendWrite
      PROVE  IInv'
  <2>1. WriteAllowed /\ call \in AppendCall
    BY <1>5, OwnWritesAllowed DEF AppendWrite
  <2>2. /\ Chwrite(CurChunk, Block(call.data, call.written))
        /\ UNCHANGED <<allocation_map, free_chunk_count, files>>
        /\ IF call.written + 1 = ChunksAmount(Len(call.data))
           THEN Return("SUCCESS")
           ELSE call' = [call EXCEPT !.written = @ + 1] /\ UNCHANGED status
    BY <1>5, <2>1 DEF AppendWrite
  <2>3. Block(call.data, call.written) \in [Offset -> Byte]
    BY <2>1, BlockBytes DEF AppendCall
  <2>4. storage' \in [Chunk -> [Offset -> Byte \cup {Uninitialised}]]
    BY <2>2, <2>3 DEF Chwrite, IInv, LayoutInv, StorageTypeOK
  <2>5. LayoutInv'
    BY <2>2, <2>4, BytesDoNotMatter DEF IInv
  <2>6. CASE call.written + 1 = ChunksAmount(Len(call.data))
    BY <1>2, <2>2, <2>5, <2>6 DEF Status
  <2>7. CASE call.written + 1 # ChunksAmount(Len(call.data))
    <3>1. call' = [call EXCEPT !.written = @ + 1] /\ UNCHANGED <<status, files>>
      BY <2>2, <2>7
    <3>2. call' \in AppendCall /\ call'.file = call.file /\ call'.extent = call.extent
          /\ call'.data = call.data /\ call'.written = call.written + 1
      BY <2>1, <3>1 DEF AppendCall
    <3>3. /\ Occupied(call.file, call.extent)
          /\ call.written < ChunksAmount(Len(call.data))
          /\ Extent(call.file, call.extent).chunk_amount = ChunksAmount(Len(call.data))
      BY <1>5 DEF AppendWrite, IInv, CallInv
    <3>4. /\ call.written \in Nat
          /\ Extent(call.file, call.extent).chunk_amount \in Nat
      BY <2>1 DEF IInv, LayoutInv, FilesTypeOK, Extent, ChunkExtent, AppendCall
    <3>5. call'.written < ChunksAmount(Len(call'.data))
      BY <2>7, <3>2, <3>3, <3>4
    <3>6. CallInv'
      BY <3>1, <3>2, <3>3, <3>5 DEF CallInv, AppendCall, Occupied, Extent
    <3>7. QED
      BY <2>5, <3>1, <3>2, <3>6 DEF IInv, Call
  <2>8. QED
    BY <2>6, <2>7
<1>6. ASSUME NEW f \in File, NEW amount \in Amount, TruncateRefused(f, amount)
      PROVE  IInv'
  BY <1>1, <1>2, <1>6 DEF TruncateRefused, Refuse, TruncateStatus, Status
<1>7. ASSUME NEW f \in File, NEW amount \in Amount, TruncateStart(f, amount)
      PROVE  IInv'
  <2>1. PICK i \in Index :
          /\ LastExtent(f, i)
          /\ call' = [op |-> "truncate", file |-> f, amount |-> amount, extent |-> i,
                      deleted_chunks_count |-> 0]
    BY <1>7 DEF TruncateStart
  <2>2. UNCHANGED <<storageVars, files, status>>
    BY <1>7 DEF TruncateStart
  <2>3. LastExtent(f, i)'
    BY <2>1, <2>2 DEF LastExtent, Occupied, Extent
  <2>4. 0 <= amount \div CHUNK_SIZE
    OBVIOUS
  <2>5. call' \in Call
    BY <2>1 DEF Call, TruncateCall, Index
  <2>6. CallInv'
    BY <2>1, <2>3, <2>4 DEF CallInv, FullChunks, LastExtent, Occupied, Extent
  <2>7. QED
    BY <1>1, <2>2, <2>5, <2>6 DEF IInv
<1>8. ASSUME TruncateWholeExtent
      PROVE  IInv'
  <2>1. call \in TruncateCall /\ call.extent >= 0 /\ GoesWhole
    BY <1>8 DEF TruncateWholeExtent, IInv, Call, Idle, AppendCall, TruncateCall, DeleteCall
  <2>2. PICK f \in File, i \in Index : f = call.file /\ i = call.extent
    BY <2>1 DEF TruncateCall, Index, LastIndex
  <2>3. call.deleted_chunks_count \in Nat /\ call.amount \in Nat
    BY <2>1 DEF TruncateCall
  <2>4. LastExtent(f, i)
    BY <2>1, <2>2 DEF IInv, CallInv, TruncateCall
  <2>5. Occupied(f, i) /\ (i < LastIndex => ~Occupied(f, i + 1))
    BY <2>4 DEF LastExtent, Index
  <2>6. /\ LayoutInv'
        /\ \A j \in Index : j < i => Occupied(f, j)'
        /\ \A j \in Index : j >= i => (Occupied(f, j)' <=> j < LastIndex /\ Occupied(f, j + 1))
    BY <1>8, <2>2, <2>5, FreeKeepsLayout DEF IInv, TruncateWholeExtent
  <2>7. AmountAfterShift(f, i) = Extent(f, i).chunk_amount /\ Extent(f, i).chunk_amount \in Nat
    BY <2>5 DEF AmountAfterShift, IInv, LayoutInv, FilesTypeOK, Extent, ChunkExtent
  <2>8. call' = [call EXCEPT
                  !.extent = i - 1,
                  !.deleted_chunks_count = call.deleted_chunks_count + Extent(f, i).chunk_amount]
    BY <1>8, <2>2, <2>7 DEF TruncateWholeExtent
  <2>9. /\ call' \in TruncateCall /\ call'.file = f /\ call'.extent = i - 1
        /\ call'.amount = call.amount
        /\ call'.deleted_chunks_count = call.deleted_chunks_count + Extent(f, i).chunk_amount
    <3>1. i - 1 \in -1 .. LastIndex
      BY DEF Index, LastIndex
    <3>2. call.deleted_chunks_count + Extent(f, i).chunk_amount \in Nat
      BY <2>3, <2>7
    <3>3. QED
      BY <2>1, <2>2, <2>8, <3>1, <3>2 DEF TruncateCall
  <2>10. call'.deleted_chunks_count <= call'.amount \div CHUNK_SIZE
    BY <2>1, <2>2, <2>9 DEF GoesWhole, FullChunks
  <2>11. i - 1 >= 0 => LastExtent(f, i - 1)'
    <3>1. \A j \in 0 .. i - 1 : Occupied(f, j)'
      BY <2>6 DEF Index, LastIndex
    <3>2. ~Occupied(f, i)'
      BY <2>5, <2>6 DEF Index, LastIndex
    <3>3. (i - 1) + 1 = i
      BY DEF Index
    <3>4. QED
      BY <3>1, <3>2, <3>3 DEF LastExtent
  <2>12. CallInv'
    BY <2>9, <2>10, <2>11 DEF CallInv, TruncateCall, FullChunks
  <2>13. QED
    BY <1>8, <2>6, <2>9, <2>12 DEF IInv, Call, TruncateWholeExtent
<1>9. ASSUME TruncateBelowArray
      PROVE  IInv'
  BY <1>1, <1>2, <1>9 DEF TruncateBelowArray, Refuse, Status
<1>10. ASSUME TruncateTail
       PROVE  IInv'
  <2> DEFINE f == call.file
             i == call.extent
             rest == FullChunks - call.deleted_chunks_count
             last == Extent(f, i).start + Extent(f, i).chunk_amount - rest - 1
  <2>1. /\ call.op = "truncate" /\ i >= 0 /\ ~GoesWhole
        /\ FileTruncateChunkExtent(f, i, rest)
        /\ Chtrunc(last, call.amount % CHUNK_SIZE)
        /\ Return("SUCCESS")
    BY <1>10 DEF TruncateTail
  <2>2. /\ f \in File /\ i \in Index /\ Occupied(f, i)
        /\ rest \in Nat /\ rest < Extent(f, i).chunk_amount
    BY <2>1, TailFits
  <2>3. storage' \in [Chunk -> [Offset -> Byte \cup {Uninitialised}]]
    BY <2>1 DEF Chtrunc, IInv, LayoutInv, StorageTypeOK
  <2> HIDE DEF f, i, rest, last
  <2>4. LayoutInv'
    BY <2>1, <2>2, <2>3, ShortenKeepsLayout DEF IInv
  <2>5. QED
    BY <1>2, <2>1, <2>4 DEF Status
<1>11. ASSUME NEW f \in File, DeleteStart(f)
       PROVE  IInv'
  <2>1. call' \in Call /\ CallInv'
    BY <1>11 DEF DeleteStart, Call, DeleteCall, CallInv, Index, LastIndex
  <2>2. QED
    BY <1>1, <1>11, <2>1 DEF IInv, DeleteStart
<1>12. ASSUME DeleteExtent
       PROVE  IInv'
  <2>1. call \in DeleteCall
    BY <1>12 DEF DeleteExtent, IInv, Call, Idle, AppendCall, TruncateCall, DeleteCall
  <2>2. call.file \in File /\ call.extent \in Index
    BY <2>1 DEF DeleteCall
  <2>3. LayoutInv'
    BY <1>12, <2>2, FreeKeepsLayout DEF DeleteExtent, IInv
  <2>4. CallInv'
    BY <1>12, <2>1 DEF DeleteExtent, CallInv, DeleteCall
  <2>5. QED
    BY <1>12, <2>3, <2>4 DEF DeleteExtent, IInv
<1>13. ASSUME DeleteSkipEmpty
       PROVE  IInv'
  <2>1. call \in DeleteCall
    BY <1>13 DEF DeleteSkipEmpty, IInv, Call, Idle, AppendCall, TruncateCall, DeleteCall
  <2>2. LayoutInv'
    BY <1>1, <1>13 DEF DeleteSkipEmpty
  <2>3. CASE call.extent = LastIndex
    BY <1>2, <1>13, <2>2, <2>3 DEF DeleteSkipEmpty, Status
  <2>4. CASE call.extent # LastIndex
    <3>1. call' = [call EXCEPT !.extent = @ + 1] /\ UNCHANGED status
      BY <1>13, <2>4 DEF DeleteSkipEmpty
    <3>2. call' \in DeleteCall
      BY <2>1, <2>4, <3>1 DEF DeleteCall, Index, LastIndex
    <3>3. QED
      BY <2>2, <3>1, <3>2 DEF IInv, Call, CallInv, DeleteCall
  <2>5. QED
    BY <2>3, <2>4
<1>14. CASE UNCHANGED vars
  <2>1. LayoutInv'
    BY <1>1, <1>14 DEF vars
  <2>2. QED
    BY <1>14, <2>1 DEF vars, IInv, CallInv, FullChunks, LastExtent, Occupied, Extent
<1>15. QED
  BY <1>3, <1>4, <1>5, <1>6, <1>7, <1>8, <1>9, <1>10, <1>11, <1>12, <1>13, <1>14
     DEF Next, Start, Continue

\* The inductive invariant holds in every state, between two steps of an
\* operation too.
THEOREM LayoutInvariant == Spec => []IInv
BY InitEstablishes, StepPreserves, PTL DEF Spec

-----------------------------------------------------------------------------
(* What follows *)

\* The variables of the storage, the files and the running call keep their types:
\* no counter goes below zero (size_t would wrap there).
THEOREM TypeCorrect == Spec => []TypeOK
<1>1. IInv => TypeOK
  BY DEF IInv, LayoutInv, TypeOK
<1>2. QED
  BY <1>1, LayoutInvariant, PTL

\* The counter of free chunks agrees with the allocation map.
THEOREM FreeCountAlwaysExact == Spec => []FreeCountExact
<1>1. IInv => FreeCountExact
  BY DEF IInv, LayoutInv
<1>2. QED
  BY <1>1, LayoutInvariant, PTL

\* The array of extents of every file is compact.
THEOREM ExtentsAlwaysCompact == Spec => []ExtentsCompact
<1>1. IInv => ExtentsCompact
  BY DEF IInv, LayoutInv
<1>2. QED
  BY <1>1, LayoutInvariant, PTL

\* No chunk is in two extents.
THEOREM NeverSharedChunk == Spec => []NoSharedChunk
<1>1. IInv => NoSharedChunk
  BY DEF IInv, LayoutInv
<1>2. QED
  BY <1>1, LayoutInvariant, PTL

\* The allocated chunks are exactly the owned ones: none leaks, none is freed
\* under its owner.
THEOREM AlwaysAllocatedIffOwned == Spec => []AllocatedIffOwned
<1>1. IInv => AllocatedIffOwned
  BY DEF IInv, LayoutInv
<1>2. QED
  BY <1>1, LayoutInvariant, PTL

\* allocated_size is the number of chunks the file owns.
THEOREM SizeAlwaysExact == Spec => []SizeExact
<1>1. IInv => SizeExact
  BY DEF IInv, LayoutInv
<1>2. QED
  BY <1>1, LayoutInvariant, PTL

\* The rollback of file_append is never taken.
THEOREM AppendNeverRollsBack == Spec => []WritesNeverRefused
<1>1. IInv => WritesNeverRefused
  BY OwnWritesAllowed DEF WritesNeverRefused
<1>2. QED
  BY <1>1, LayoutInvariant, PTL

\* Two files own different chunks.
LEMMA OwnersDiffer ==
  ASSUME LayoutInv, NEW f \in File, NEW g \in File, f # g, NEW i \in Index, Occupied(f, i)
  PROVE  ExtentSpan(f, i) \cap Owned(g) = {}
<1>1. ASSUME NEW c \in Owned(g)
      PROVE  c \notin ExtentSpan(f, i)
  <2>1. PICK j \in Index : Occupied(g, j) /\ c \in ExtentSpan(g, j)
    BY OwnedMember
  <2>2. ExtentSpan(f, i) \cap ExtentSpan(g, j) = {}
    BY <2>1 DEF LayoutInv, NoSharedChunk
  <2>3. QED
    BY <2>1, <2>2
<1>2. QED
  BY <1>1

\* What a step of an operation does to the chunks of the other files: nothing.
LEMMA OthersKept ==
  IInv /\ [Next]_vars =>
    \A g \in File : call = Idle \/ call.file # g =>
      \A c \in Owned(g) : storage'[c] = storage[c] /\ allocation_map'[c]
<1> USE StorageAssumption, FileStorageAssumption, FileLogicAssumption
<1> SUFFICES ASSUME IInv, [Next]_vars, NEW g \in File, call = Idle \/ call.file # g,
                    NEW c \in Owned(g)
             PROVE  storage'[c] = storage[c] /\ allocation_map'[c]
  OBVIOUS
<1>2. c \in Chunk /\ allocation_map[c]
  BY OwnedInChunks DEF IInv, LayoutInv
<1>3. CASE UNCHANGED storageVars
  BY <1>2, <1>3 DEF storageVars
<1>4. ASSUME NEW f \in File, NEW i \in Index, f # g, Occupied(f, i),
             FileFreeChunkExtent(f, i)
      PROVE  storage'[c] = storage[c] /\ allocation_map'[c]
  <2>1. c \notin ExtentSpan(f, i)
    BY <1>4, OwnersDiffer DEF IInv
  <2>2. QED
    BY <1>2, <1>4, <2>1 DEF FileFreeChunkExtent, ChfreeSpan, ExtentSpan
<1>5. ASSUME NEW f \in File, NEW data \in Data, AppendStart(f, data)
      PROVE  storage'[c] = storage[c] /\ allocation_map'[c]
  BY <1>2, <1>5 DEF AppendStart, FileAllocateChunks, Challoc
<1>6. ASSUME AppendWrite
      PROVE  storage'[c] = storage[c] /\ allocation_map'[c]
  <2>1. /\ call \in AppendCall /\ WriteAllowed
        /\ CurChunk \in ExtentSpan(call.file, call.extent)
    BY <1>6, OwnWritesAllowed DEF AppendWrite
  <2>2. /\ call.file \in File /\ call.extent \in Index /\ call.file # g
        /\ Occupied(call.file, call.extent)
    BY <1>6, <2>1 DEF AppendCall, AppendWrite, Idle, IInv, CallInv
  <2>3. c # CurChunk
    BY <2>1, <2>2, OwnersDiffer DEF IInv
  <2>4. Chwrite(CurChunk, Block(call.data, call.written)) /\ UNCHANGED allocation_map
    BY <1>6, <2>1 DEF AppendWrite
  <2>5. QED
    BY <1>2, <2>3, <2>4 DEF Chwrite, IInv, LayoutInv, StorageTypeOK
<1>7. ASSUME TruncateWholeExtent
      PROVE  storage'[c] = storage[c] /\ allocation_map'[c]
  <2>1. call \in TruncateCall /\ call.extent >= 0 /\ call.file # g
    BY <1>7
       DEF TruncateWholeExtent, IInv, Call, Idle, AppendCall, TruncateCall, DeleteCall
  <2>2. call.file \in File /\ call.extent \in Index
    BY <2>1 DEF TruncateCall, Index, LastIndex
  <2>3. Occupied(call.file, call.extent)
    BY <2>1, <2>2 DEF IInv, CallInv, LastExtent, TruncateCall, Index
  <2>4. QED
    BY <1>4, <1>7, <2>1, <2>2, <2>3 DEF TruncateWholeExtent
<1>8. ASSUME TruncateTail
      PROVE  storage'[c] = storage[c] /\ allocation_map'[c]
  <2> DEFINE f == call.file
             i == call.extent
             rest == FullChunks - call.deleted_chunks_count
             last == Extent(f, i).start + Extent(f, i).chunk_amount - rest - 1
  <2>1. /\ f # g
        /\ f \in File /\ i \in Index /\ Occupied(f, i)
        /\ rest \in Nat /\ rest < Extent(f, i).chunk_amount
    BY <1>8, TailFits DEF TruncateTail, Idle
  <2>2. /\ FileTruncateChunkExtent(f, i, rest)
        /\ Chtrunc(last, call.amount % CHUNK_SIZE)
    BY <1>8 DEF TruncateTail
  <2>3. Extent(f, i).start \in Nat /\ Extent(f, i).chunk_amount \in Nat
    BY <2>1 DEF IInv, LayoutInv, FilesTypeOK, Extent, ChunkExtent
  <2> HIDE DEF f, i, rest
  <2>4. /\ last \in ExtentSpan(f, i)
        /\ Span(Extent(f, i).start + Extent(f, i).chunk_amount - rest, rest)
             \subseteq ExtentSpan(f, i)
    BY <2>1, <2>3 DEF ExtentSpan, Span
  <2>5. c \notin ExtentSpan(f, i)
    BY <2>1, OwnersDiffer DEF IInv
  <2> HIDE DEF last
  <2>6. storage'[c] = storage[c]
    BY <1>2, <2>2, <2>4, <2>5 DEF Chtrunc, IInv, LayoutInv, StorageTypeOK
  <2>7. allocation_map'[c]
    BY <1>2, <2>2, <2>4, <2>5 DEF FileTruncateChunkExtent, ChfreeSpan
  <2>8. QED
    BY <2>6, <2>7
<1>9. ASSUME DeleteExtent
      PROVE  storage'[c] = storage[c] /\ allocation_map'[c]
  <2>1. call \in DeleteCall /\ call.file # g
    BY <1>9
       DEF DeleteExtent, IInv, Call, Idle, AppendCall, TruncateCall, DeleteCall
  <2>2. QED
    BY <1>4, <1>9, <2>1 DEF DeleteExtent, DeleteCall
<1>10. CASE Start
  <2>1. ASSUME NEW f \in File, NEW data \in Data, AppendRefused(f, data)
        PROVE  UNCHANGED storageVars
    BY <2>1 DEF AppendRefused, Refuse
  <2>2. ASSUME NEW f \in File, NEW amount \in Amount,
               TruncateRefused(f, amount) \/ TruncateStart(f, amount)
        PROVE  UNCHANGED storageVars
    BY <2>2 DEF TruncateRefused, TruncateStart, Refuse
  <2>3. ASSUME NEW f \in File, DeleteStart(f)
        PROVE  UNCHANGED storageVars
    BY <2>3 DEF DeleteStart
  <2>4. QED
    BY <1>3, <1>5, <1>10, <2>1, <2>2, <2>3 DEF Start
<1>11. CASE Continue
  <2>1. ASSUME TruncateBelowArray \/ DeleteSkipEmpty
        PROVE  UNCHANGED storageVars
    BY <2>1 DEF TruncateBelowArray, DeleteSkipEmpty, Refuse
  <2>2. QED
    BY <1>3, <1>6, <1>7, <1>8, <1>9, <1>11, <2>1 DEF Continue
<1>12. CASE UNCHANGED vars
  BY <1>3, <1>12 DEF vars
<1>13. QED
  BY <1>10, <1>11, <1>12 DEF Next

\* No step of an operation frees or overwrites a chunk of another file.
THEOREM OtherFilesAlwaysUntouched == Spec => OtherFilesUntouched
<1> DEFINE Untouched ==
      \A g \in File : call = Idle \/ call.file # g =>
        \A c \in Owned(g) : storage'[c] = storage[c] /\ allocation_map'[c]
<1>1. IInv /\ [Next]_vars => Untouched
  BY OthersKept
<1>2. Untouched => [\A g \in File : \A c \in Owned(g) :
                     call = Idle \/ call.file # g
                     => storage'[c] = storage[c] /\ allocation_map'[c]]_vars
  OBVIOUS
<1>3. QED
  BY <1>1, <1>2, LayoutInvariant, PTL DEF Spec, OtherFilesUntouched

-----------------------------------------------------------------------------
(* What a caller of the operations may rely on *)

\* A step of the call that runs changes the extents of its own file only, and the
\* call returns SUCCESS, or in a step that leaves the extents alone.
LEMMA CallKeepsToItsFile ==
  ASSUME IInv, Continue
  PROVE  /\ call.op # "idle" /\ call.file \in File
         /\ \A g \in File : g # call.file => files'[g] = files[g]
         /\ call' # Idle => call'.file = call.file /\ call'.op = call.op
         /\ call' = Idle => status' = "SUCCESS" \/ files' = files
<1>1. files \in [File -> [allocated_size : Nat, data_chunk_extents : [Index -> ChunkExtent]]]
  BY DEF IInv, LayoutInv, FilesTypeOK
<1>2. call.op \in {"append", "truncate", "delete"}
  BY DEF Continue, AppendWrite, TruncateWholeExtent, TruncateBelowArray, TruncateTail,
         DeleteExtent, DeleteSkipEmpty
<1>3. call \in AppendCall \cup TruncateCall \cup DeleteCall
  BY <1>2 DEF IInv, Call, Idle
<1>4. call.file \in File
  BY <1>3 DEF AppendCall, TruncateCall, DeleteCall
<1>5. CASE AppendWrite
  <2>1. WriteAllowed /\ call \in AppendCall
    BY <1>5, OwnWritesAllowed DEF AppendWrite
  <2>2. UNCHANGED files
    BY <1>5, <2>1 DEF AppendWrite
  <2>3. call' = Idle \/ call' = [call EXCEPT !.written = @ + 1]
    BY <1>5, <2>1 DEF AppendWrite, Return
  <2>4. call' # Idle => call'.file = call.file /\ call'.op = call.op
    BY <2>1, <2>3 DEF AppendCall
  <2>5. QED
    BY <1>2, <1>4, <2>2, <2>4
<1>6. CASE TruncateWholeExtent
  <2>1. FileFreeChunkExtent(call.file, call.extent) /\ call \in TruncateCall
    BY <1>3, <1>6 DEF TruncateWholeExtent, AppendCall, DeleteCall
  <2>2. call'.file = call.file /\ call'.op = call.op /\ call' # Idle
    BY <1>6, <2>1 DEF TruncateWholeExtent, TruncateCall, Idle
  <2>3. QED
    BY <1>1, <1>2, <1>4, <2>1, <2>2 DEF FileFreeChunkExtent
<1>7. CASE TruncateBelowArray
  BY <1>2, <1>4, <1>7 DEF TruncateBelowArray, Refuse, Return
<1>8. CASE TruncateTail
  <2>1. Return("SUCCESS") /\ \E rest : FileTruncateChunkExtent(call.file, call.extent, rest)
    BY <1>8 DEF TruncateTail
  <2>2. QED
    BY <1>1, <1>2, <1>4, <2>1 DEF FileTruncateChunkExtent, Return
<1>9. CASE DeleteExtent
  <2>1. FileFreeChunkExtent(call.file, call.extent) /\ UNCHANGED call
    BY <1>9 DEF DeleteExtent
  <2>2. call' # Idle
    BY <1>2, <2>1 DEF Idle
  <2>3. QED
    BY <1>1, <1>2, <1>4, <2>1, <2>2 DEF FileFreeChunkExtent
<1>10. CASE DeleteSkipEmpty
  <2>1. UNCHANGED files /\ call \in DeleteCall
    BY <1>3, <1>10 DEF DeleteSkipEmpty, AppendCall, TruncateCall
  <2>2. call' = Idle \/ call' = [call EXCEPT !.extent = @ + 1]
    BY <1>10 DEF DeleteSkipEmpty, Return
  <2>3. call' # Idle => call'.file = call.file /\ call'.op = call.op
    BY <2>1, <2>2 DEF DeleteCall
  <2>4. QED
    BY <1>2, <1>4, <2>1, <2>3
<1>11. QED
  BY <1>5, <1>6, <1>7, <1>8, <1>9, <1>10 DEF Continue

\* file_delete_data leaves only empty slots behind its index, so that the file holds
\* nothing when it returns (file_logic.c:565-585).
LEMMA DeleteEmpties ==
  ASSUME IInv, Continue, call.op = "delete", NEW f, f = call.file,
         \A i \in 0 .. call.extent - 1 : ~Occupied(f, i)
  PROVE  /\ call' = Idle => \A i \in Index : ~Occupied(f, i)'
         /\ call' # Idle => \A i \in 0 .. call'.extent - 1 : ~Occupied(f, i)'
<1>1. call \in DeleteCall
  BY DEF IInv, Call, Idle, AppendCall, TruncateCall
<1>2. f \in File /\ call.extent \in Index /\ call # Idle
  BY <1>1 DEF DeleteCall, Idle
<1>3. CASE DeleteExtent
  <2>1. FileFreeChunkExtent(f, call.extent) /\ UNCHANGED call
    BY <1>3 DEF DeleteExtent
  <2>2. ASSUME NEW i \in 0 .. call.extent - 1 PROVE ~Occupied(f, i)'
    <3>1. i \in Index /\ i < call.extent
      BY <1>2, FileStorageAssumption DEF Index, LastIndex
    <3>2. ~InRun(files[f].data_chunk_extents, call.extent, i)
      BY <1>2, <3>1 DEF InRun, Index
    <3>3. files'[f].data_chunk_extents = LeftShift(files[f].data_chunk_extents, call.extent)
      BY <1>2, <2>1 DEF FileFreeChunkExtent, IInv, LayoutInv, FilesTypeOK
    <3>4. files'[f].data_chunk_extents[i] = files[f].data_chunk_extents[i]
      BY <3>1, <3>2, <3>3 DEF LeftShift
    <3>5. QED
      BY <2>2, <3>4 DEF Occupied, Extent
  <2>3. QED
    BY <1>2, <2>1, <2>2
<1>4. CASE DeleteSkipEmpty
  <2>1. /\ ~Occupied(f, call.extent) /\ UNCHANGED files
        /\ IF call.extent = LastIndex THEN call' = Idle
           ELSE call' = [call EXCEPT !.extent = @ + 1]
    BY <1>4 DEF DeleteSkipEmpty, Return
  <2>2. \A i \in 0 .. call.extent : ~Occupied(f, i)'
    BY <1>2, <2>1 DEF Index, Occupied, Extent
  <2>3. CASE call.extent = LastIndex
    BY <2>1, <2>2, <2>3 DEF Index
  <2>4. CASE call.extent # LastIndex
    <3>1. call'.extent = call.extent + 1 /\ call' # Idle
      BY <1>1, <2>1, <2>4 DEF DeleteCall, Idle
    <3>2. \A i \in 0 .. call'.extent - 1 : i \in 0 .. call.extent
      BY <1>2, <3>1 DEF Index
    <3>3. QED
      BY <2>2, <3>1, <3>2
  <2>5. QED
    BY <2>3, <2>4
<1>5. QED
  BY <1>3, <1>4 DEF Continue, AppendWrite, TruncateWholeExtent, TruncateBelowArray,
                    TruncateTail
=============================================================================
