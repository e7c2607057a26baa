--------------------------- MODULE FileSystemProofs ---------------------------
(***************************************************************************)
(* The tree and the data together do what EntryStore promises, for every   *)
(* size of either. What is proved of FileLogic and of EntryStore alone is  *)
(* taken over: the data keep FileLogic's invariant because every step that *)
(* touches them is one of FileLogic's or the creation of a file, and the   *)
(* tree, as EntryStore sees it, keeps EntryStore's because each step is    *)
(* one of EntryStore's or leaves it alone.                                 *)
(***************************************************************************)
EXTENDS FileSystem, SequenceTheorems, TLAPS

LogicProofs == INSTANCE FileLogicProofs WITH files <- extents

TreeProofs == INSTANCE EntryStoreProofs WITH
  files_allocation_map <- AbstractMap,
  files <- AbstractNodes,
  stored <- AbstractStored,
  status <- AbstractAnswer

-----------------------------------------------------------------------------
(* What is proved of FileLogic *)

\* Both instances of FileLogic say the same.
LEMMA SameLogic ==
  /\ LogicProofs!Init <=> Logic!Init
  /\ LogicProofs!Continue <=> Logic!Continue
  /\ LogicProofs!Idle = Logic!Idle /\ LogicProofs!Index = Logic!Index
  /\ [LogicProofs!Next]_(LogicProofs!vars) <=> [Logic!Next]_(Logic!vars)
  /\ (LogicProofs!IInv <=> Logic!IInv) /\ (LogicProofs!IInv' <=> Logic!IInv')
  /\ (LogicProofs!LayoutInv <=> Logic!LayoutInv) /\ (LogicProofs!LayoutInv' <=> Logic!LayoutInv')
  /\ \A f, i : LogicProofs!Occupied(f, i) <=> Logic!Occupied(f, i)
  /\ \A f, i : LogicProofs!Occupied(f, i)' <=> Logic!Occupied(f, i)'
  /\ \A f : LogicProofs!Owned(f) = Logic!Owned(f)
BY DEF
       Logic!storageVars, LogicProofs!storageVars, Logic!Chunk, LogicProofs!Chunk,
       Logic!Offset, LogicProofs!Offset, Logic!StorageTypeOK, LogicProofs!StorageTypeOK,
       Logic!StorageInit, LogicProofs!StorageInit, Logic!Span, LogicProofs!Span,
       Logic!FreeChunks, LogicProofs!FreeChunks, Logic!FreeRuns, LogicProofs!FreeRuns,
       Logic!FirstFit, LogicProofs!FirstFit, Logic!ChallocStatus,
       LogicProofs!ChallocStatus, Logic!Challoc, LogicProofs!Challoc, Logic!ChfreeSpan,
       LogicProofs!ChfreeSpan, Logic!ChwriteAllowed, LogicProofs!ChwriteAllowed,
       Logic!Chwrite, LogicProofs!Chwrite, Logic!Chtrunc, LogicProofs!Chtrunc,
       Logic!FreeCountExact, LogicProofs!FreeCountExact, Logic!LastIndex,
       LogicProofs!LastIndex, Logic!Index, LogicProofs!Index, Logic!ChunkExtent,
       LogicProofs!ChunkExtent, Logic!EmptyExtent, LogicProofs!EmptyExtent,
       Logic!FilesTypeOK, LogicProofs!FilesTypeOK, Logic!FilesInit, LogicProofs!FilesInit,
       Logic!Extent, LogicProofs!Extent, Logic!Occupied, LogicProofs!Occupied,
       Logic!ExtentSpan, LogicProofs!ExtentSpan, Logic!FirstEmptyExtent,
       LogicProofs!FirstEmptyExtent, Logic!LastExtent, LogicProofs!LastExtent,
       Logic!FileOwnsChunk, LogicProofs!FileOwnsChunk, Logic!FileAllocateChunks,
       LogicProofs!FileAllocateChunks, Logic!InRun, LogicProofs!InRun, Logic!LeftShift,
       LogicProofs!LeftShift, Logic!FileFreeChunkExtent, LogicProofs!FileFreeChunkExtent,
       Logic!FileTruncateChunkExtent, LogicProofs!FileTruncateChunkExtent,
       Logic!ExtentsCompact, LogicProofs!ExtentsCompact, Logic!NoSharedChunk,
       LogicProofs!NoSharedChunk, Logic!Owned, LogicProofs!Owned, Logic!AllocatedIffOwned,
       LogicProofs!AllocatedIffOwned, Logic!SizeExact, LogicProofs!SizeExact, Logic!vars,
       LogicProofs!vars, Logic!Idle, LogicProofs!Idle, Logic!AppendCall,
       LogicProofs!AppendCall, Logic!TruncateCall, LogicProofs!TruncateCall,
       Logic!DeleteCall, LogicProofs!DeleteCall, Logic!Call, LogicProofs!Call,
       Logic!Status, LogicProofs!Status, Logic!Init, LogicProofs!Init, Logic!Return,
       LogicProofs!Return, Logic!Refuse, LogicProofs!Refuse, Logic!ChunksAmount,
       LogicProofs!ChunksAmount, Logic!AppendStatus, LogicProofs!AppendStatus,
       Logic!AppendRefused, LogicProofs!AppendRefused, Logic!AppendStart,
       LogicProofs!AppendStart, Logic!Block, LogicProofs!Block, Logic!CurChunk,
       LogicProofs!CurChunk, Logic!WriteAllowed, LogicProofs!WriteAllowed,
       Logic!AppendWrite, LogicProofs!AppendWrite, Logic!TruncateStatus,
       LogicProofs!TruncateStatus, Logic!TruncateRefused, LogicProofs!TruncateRefused,
       Logic!TruncateStart, LogicProofs!TruncateStart, Logic!FullChunks,
       LogicProofs!FullChunks, Logic!GoesWhole, LogicProofs!GoesWhole,
       Logic!AmountAfterShift, LogicProofs!AmountAfterShift, Logic!TruncateWholeExtent,
       LogicProofs!TruncateWholeExtent, Logic!TruncateBelowArray,
       LogicProofs!TruncateBelowArray, Logic!TruncateTail, LogicProofs!TruncateTail,
       Logic!DeleteStart, LogicProofs!DeleteStart, Logic!DeleteExtent,
       LogicProofs!DeleteExtent, Logic!DeleteSkipEmpty, LogicProofs!DeleteSkipEmpty,
       Logic!Start, LogicProofs!Start, Logic!Continue, LogicProofs!Continue, Logic!Next,
       LogicProofs!Next, Logic!ExtentsNotVoid, LogicProofs!ExtentsNotVoid, Logic!LayoutInv,
       LogicProofs!LayoutInv, Logic!CallInv, LogicProofs!CallInv, Logic!IInv,
       LogicProofs!IInv, Logic!Cardinality, LogicProofs!Cardinality, Logic!IsFiniteSet,
       LogicProofs!IsFiniteSet

\* A storage without files, and every step of FileLogic, keep its invariant.
LEMMA DataKept ==
  /\ Logic!Init => Logic!IInv
  /\ Logic!IInv /\ [Logic!Next]_(Logic!vars) => Logic!IInv'
BY LogicProofs!InitEstablishes, LogicProofs!StepPreserves, SameLogic, FileSystemAssumption

\* FileLogic leaves the chunks of the other files alone.
LEMMA OthersKept ==
  ASSUME Logic!IInv, [Logic!Next]_(Logic!vars), NEW g \in File,
         call = Logic!Idle \/ call.file # g, NEW c \in Logic!Owned(g)
  PROVE  storage'[c] = storage[c] /\ allocation_map'[c]
BY LogicProofs!OthersKept, SameLogic, FileSystemAssumption

\* A call changes the extents of its own file only, and never fails half way.
LEMMA CallKeepsToItsFile ==
  ASSUME Logic!IInv, Logic!Continue
  PROVE  /\ call # Logic!Idle /\ call.file \in File
         /\ \A g \in File : g # call.file => extents'[g] = extents[g]
         /\ call' # Logic!Idle => call'.file = call.file /\ call'.op = call.op
         /\ call' = Logic!Idle => status' = "SUCCESS" \/ extents' = extents
<1>1. call.op # "idle"
  BY LogicProofs!CallKeepsToItsFile, SameLogic, FileSystemAssumption
<1>2. call # Logic!Idle
  BY <1>1 DEF Logic!Idle
<1>3. QED
  BY <1>2, LogicProofs!CallKeepsToItsFile, SameLogic, FileSystemAssumption

\* The deletion of data leaves nothing behind its index, and nothing when it returns.
LEMMA DeleteEmpties ==
  ASSUME Logic!IInv, Logic!Continue, call.op = "delete", NEW f, f = call.file,
         \A i \in 0 .. call.extent - 1 : ~Logic!Occupied(f, i)
  PROVE  /\ call' = Logic!Idle => \A i \in Logic!Index : ~Logic!Occupied(f, i)'
         /\ call' # Logic!Idle => \A i \in 0 .. call'.extent - 1 : ~Logic!Occupied(f, i)'
BY LogicProofs!DeleteEmpties, SameLogic, FileSystemAssumption

\* A file that is created in a slot without extents changes nothing for the data.
LEMMA NewFileKeepsData ==
  ASSUME Logic!IInv, NEW f \in File, f \notin Stored, call = Logic!Idle,
         extents' = [extents EXCEPT ![f] = NoExtents],
         UNCHANGED <<allocation_map, free_chunk_count, storage, call, status>>
  PROVE  Logic!IInv'
<1>1. \A i \in Logic!Index : ~Logic!Occupied(f, i)
  BY FileSystemAssumption
     DEF Stored, Logic!IInv, Logic!LayoutInv, Logic!ExtentsCompact, Logic!Index,
         Logic!LastIndex
<1>2. Logic!LayoutInv'
  <2>1. extents' = [extents EXCEPT ![f] =
                      [allocated_size |-> 0,
                       data_chunk_extents |->
                         [i \in LogicProofs!Index |-> LogicProofs!EmptyExtent]]]
    BY DEF NoExtents, Logic!Index, Logic!LastIndex, Logic!EmptyExtent,
           LogicProofs!Index, LogicProofs!LastIndex, LogicProofs!EmptyExtent
  <2>2. UNCHANGED LogicProofs!storageVars
    BY DEF LogicProofs!storageVars
  <2>3. LogicProofs!LayoutInv
    BY SameLogic DEF Logic!IInv
  <2>4. \A i \in LogicProofs!Index : ~LogicProofs!Occupied(f, i)
    BY <1>1, SameLogic
  <2>5. LogicProofs!LayoutInv'
    BY <2>1, <2>2, <2>3, <2>4, LogicProofs!NewFileKeepsLayout, FileSystemAssumption
  <2>6. QED
    BY <2>5, SameLogic
<1>3. QED
  BY <1>2 DEF Logic!IInv, Logic!CallInv, Logic!Idle

-----------------------------------------------------------------------------
(* What is proved of EntryStore *)

\* Both instances of EntryStore say the same.
LEMMA SameTree ==
  /\ TreeProofs!TreeInit <=> Abstract!TreeInit
  /\ [TreeProofs!TreeNext]_(TreeProofs!treeVars) <=> [Abstract!TreeNext]_(Abstract!treeVars)
  /\ UNCHANGED TreeProofs!entries <=> UNCHANGED Abstract!entries
  /\ TreeProofs!TypeOK <=> Abstract!TypeOK
  /\ TreeProofs!BothEndsAgree <=> Abstract!BothEndsAgree
  /\ TreeProofs!NoOrphanData <=> Abstract!NoOrphanData
BY DEF
       Abstract!MAX_FOLDER_DEPTH, TreeProofs!MAX_FOLDER_DEPTH, Abstract!entries,
       TreeProofs!entries, Abstract!treeVars, TreeProofs!treeVars, Abstract!Node,
       TreeProofs!Node, Abstract!NullableNode, TreeProofs!NullableNode,
       Abstract!NullableName, TreeProofs!NullableName, Abstract!FreeFile,
       TreeProofs!FreeFile, Abstract!FreeFolder, TreeProofs!FreeFolder, Abstract!TreeInit,
       TreeProofs!TreeInit, Abstract!Established, TreeProofs!Established,
       Abstract!EstablishedFolders, TreeProofs!EstablishedFolders,
       Abstract!EstablishedFiles, TreeProofs!EstablishedFiles, Abstract!SubEntryNames,
       TreeProofs!SubEntryNames, Abstract!NameAvailable, TreeProofs!NameAvailable,
       Abstract!HasSubEntries, TreeProofs!HasSubEntries, Abstract!RoomForFile,
       TreeProofs!RoomForFile, Abstract!RoomForFolder, TreeProofs!RoomForFolder,
       Abstract!FileListed, TreeProofs!FileListed, Abstract!FolderListed,
       TreeProofs!FolderListed, Abstract!Subtree, TreeProofs!Subtree, Abstract!HasChain,
       TreeProofs!HasChain, Abstract!CyclicMoveExcluded, TreeProofs!CyclicMoveExcluded,
       Abstract!WithoutFile, TreeProofs!WithoutFile, Abstract!WithoutFolder,
       TreeProofs!WithoutFolder, Abstract!DeleteVfsFile, TreeProofs!DeleteVfsFile,
       Abstract!DeleteFlatFolder, TreeProofs!DeleteFlatFolder, Abstract!CanCreateFile,
       TreeProofs!CanCreateFile, Abstract!CreateFile, TreeProofs!CreateFile,
       Abstract!CanCreateFolder, TreeProofs!CanCreateFolder, Abstract!CreateFolder,
       TreeProofs!CreateFolder, Abstract!RenameFile, TreeProofs!RenameFile,
       Abstract!CanRenameFolder, TreeProofs!CanRenameFolder, Abstract!RenameFolder,
       TreeProofs!RenameFolder, Abstract!CanMoveFile, TreeProofs!CanMoveFile,
       Abstract!MoveFile, TreeProofs!MoveFile, Abstract!CanMoveFolder,
       TreeProofs!CanMoveFolder, Abstract!MoveFolder, TreeProofs!MoveFolder,
       Abstract!StoreData, TreeProofs!StoreData, Abstract!ClearData, TreeProofs!ClearData,
       Abstract!RemoveFile, TreeProofs!RemoveFile, Abstract!CanRemoveFolder,
       TreeProofs!CanRemoveFolder, Abstract!RemoveFolder, TreeProofs!RemoveFolder,
       Abstract!RemoveTree, TreeProofs!RemoveTree, Abstract!Inside, TreeProofs!Inside,
       Abstract!Running, TreeProofs!Running, Abstract!RemoveSubFile,
       TreeProofs!RemoveSubFile, Abstract!RemoveSubFolder, TreeProofs!RemoveSubFolder,
       Abstract!RemovalTooDeep, TreeProofs!RemovalTooDeep, Abstract!RemoveInside,
       TreeProofs!RemoveInside, Abstract!RemovalOfRoot, TreeProofs!RemovalOfRoot,
       Abstract!RemovalStep, TreeProofs!RemovalStep, Abstract!Refuse, TreeProofs!Refuse,
       Abstract!Refused, TreeProofs!Refused, Abstract!Operation, TreeProofs!Operation,
       Abstract!TreeNext, TreeProofs!TreeNext, Abstract!FolderLinksAgree,
       TreeProofs!FolderLinksAgree, Abstract!FileLinksAgree, TreeProofs!FileLinksAgree,
       Abstract!BothEndsAgree, TreeProofs!BothEndsAgree, Abstract!Defined,
       TreeProofs!Defined, Abstract!RenameFileOverrun, TreeProofs!RenameFileOverrun,
       Abstract!NamesUnique,
       TreeProofs!NamesUnique, Abstract!NoOrphans, TreeProofs!NoOrphans,
       Abstract!NoOrphanData, TreeProofs!NoOrphanData, Abstract!CallsInEstablished,
       TreeProofs!CallsInEstablished, Abstract!Cardinality, TreeProofs!Cardinality,
       Abstract!IsFiniteSet, TreeProofs!IsFiniteSet, Abstract!TypeOK, TreeProofs!TypeOK

\* The empty tree and every step of EntryStore keep its invariant, up to the step that
\* damages something, and so does a step that EntryStore does not see, whatever answer
\* it gives.
LEMMA TreeKept ==
  /\ Abstract!TreeInit => TreeProofs!IInv
  /\ TreeProofs!IInv /\ AbstractAnswer # "UNDEFINED" /\ Abstract!TreeNext
     => IF AbstractAnswer' # "UNDEFINED" THEN TreeProofs!IInv' ELSE TreeProofs!Damaged'
  /\ /\ TreeProofs!IInv /\ UNCHANGED Abstract!entries
     /\ AbstractAnswer' \in {"SUCCESS", "FAILURE", "RUNNING"}
     => TreeProofs!IInv'
  /\ /\ TreeProofs!Damaged /\ AbstractAnswer = "UNDEFINED"
     /\ UNCHANGED Abstract!entries /\ UNCHANGED AbstractAnswer
     => TreeProofs!Damaged'
<1>1. TreeProofs!IsFiniteSet(Folder) /\ TreeProofs!IsFiniteSet(File)
  BY FileSystemAssumption DEF TreeProofs!IsFiniteSet, IsFiniteSet
<1>2. Abstract!TreeInit => TreeProofs!IInv
  BY <1>1, TreeProofs!InitEstablishes, SameTree, FileSystemAssumption
<1>3. TreeProofs!SafeInv /\ [TreeProofs!TreeNext]_(TreeProofs!treeVars) => TreeProofs!SafeInv'
  BY <1>1, TreeProofs!SafeStep, FileSystemAssumption
<1>4. TreeProofs!IInv /\ AbstractAnswer # "UNDEFINED" /\ Abstract!TreeNext
      => IF AbstractAnswer' # "UNDEFINED" THEN TreeProofs!IInv' ELSE TreeProofs!Damaged'
  BY <1>3, SameTree DEF TreeProofs!SafeInv, TreeProofs!Defined
<1>5. /\ TreeProofs!IInv /\ UNCHANGED Abstract!entries
      /\ AbstractAnswer' \in {"SUCCESS", "FAILURE", "RUNNING"}
      => TreeProofs!IInv'
  BY <1>1, TreeProofs!AnswerDoesNotMatter, SameTree, FileSystemAssumption
<1>6. /\ TreeProofs!Damaged /\ AbstractAnswer = "UNDEFINED"
      /\ UNCHANGED Abstract!entries /\ UNCHANGED AbstractAnswer
      => TreeProofs!Damaged'
  BY <1>3, SameTree DEF TreeProofs!SafeInv, TreeProofs!Defined, TreeProofs!treeVars
<1>7. QED
  BY <1>2, <1>4, <1>5, <1>6

-----------------------------------------------------------------------------
(* The inductive invariant *)

SlotsOK ==
  /\ files_allocation_map \in [File -> BOOLEAN]
  /\ nodes \in [File -> [parent_folder : Tree!NullableNode, name : Tree!NullableName]]
  /\ answer \in {"SUCCESS", "FAILURE", "RUNNING"}

\* A file that is being deleted is the one file_delete_data works on, or holds nothing
\* any more.
DeletionInv ==
  /\ \A f \in Deleting : IF call = Logic!Idle THEN f \notin Stored
                         ELSE call.op = "delete" /\ call.file = f
  /\ call.op = "delete" =>
       \A i \in 0 .. call.extent - 1 : ~Logic!Occupied(call.file, i)

\* A call works on a file in use, and outside a deletion it is the command's own.
CommandInv ==
  call # Logic!Idle =>
    /\ call.file \in Tree!EstablishedFiles
    /\ Deleting = {} => removal = <<>> /\ answer = "RUNNING"

\* Until something is damaged the data keep FileLogic's invariant and the tree, as
\* EntryStore sees it, keeps EntryStore's.
FSInv ==
  /\ Logic!IInv
  /\ TreeProofs!IInv
  /\ SlotsOK
  /\ DeletionInv
  /\ CommandInv

\* What FileLogic's invariant says between two commands, but for the size of a file.
LayoutButSizes ==
  /\ Logic!StorageTypeOK /\ Logic!FilesTypeOK
  /\ Logic!ExtentsNotVoid /\ Logic!ExtentsCompact
  /\ Logic!NoSharedChunk /\ Logic!AllocatedIffOwned /\ Logic!FreeCountExact

\* A rename that wrote behind its slot was the last step. It may have cleared the low
\* byte of a size, and nothing else of the data.
FSDamaged ==
  /\ answer = "UNDEFINED" /\ removal = <<>> /\ call = Logic!Idle /\ Deleting = {}
  /\ TreeProofs!Damaged
  /\ LayoutButSizes
  /\ \A f \in File : extents[f].allocated_size \in
       {Cardinality(Logic!Owned(f)), LowByteCleared(Cardinality(Logic!Owned(f)))}

SystemInv == IF Tree!Defined THEN FSInv ELSE FSDamaged

-----------------------------------------------------------------------------
(* Without an unfinished deletion EntryStore sees the tree as it is *)

LEMMA SeenAsItIs ==
  ASSUME SlotsOK, Deleting = {}
  PROVE  /\ AbstractMap = files_allocation_map
         /\ AbstractNodes = nodes
         /\ AbstractStored = Stored
         /\ answer # "RUNNING" \/ removal # <<>> => AbstractAnswer = answer
         /\ AbstractAnswer \in {"SUCCESS", "FAILURE", "RUNNING"}
BY DEF SlotsOK, AbstractMap, AbstractNodes, AbstractStored, AbstractAnswer

LEMMA SeenAsItWillBe ==
  ASSUME SlotsOK', Deleting' = {}
  PROVE  /\ AbstractMap' = files_allocation_map'
         /\ AbstractNodes' = nodes'
         /\ AbstractStored' = Stored'
         /\ answer' # "RUNNING" \/ removal' # <<>> => AbstractAnswer' = answer'
         /\ AbstractAnswer' \in {"SUCCESS", "FAILURE", "RUNNING"}
BY DEF SlotsOK, AbstractMap, AbstractNodes, AbstractStored, AbstractAnswer

\* The folders are the same for both, at any time.
LEMMA SameFolders ==
  /\ Tree!Node = Abstract!Node
  /\ Tree!EstablishedFolders = Abstract!EstablishedFolders
  /\ Tree!Running <=> Abstract!Running
  /\ Tree!Inside = Abstract!Inside
  /\ \A d : Tree!Established(d) <=> Abstract!Established(d)
  /\ \A d : Tree!RoomForFile(d) <=> Abstract!RoomForFile(d)
  /\ \A d : Tree!RoomForFolder(d) <=> Abstract!RoomForFolder(d)
  /\ \A d : Tree!HasSubEntries(d) <=> Abstract!HasSubEntries(d)
  /\ \A d, e : Tree!CyclicMoveExcluded(d, e) <=> Abstract!CyclicMoveExcluded(d, e)
  /\ \A d : Tree!FolderListed(d) <=> Abstract!FolderListed(d)
  /\ \A d : Tree!WithoutFolder(d) = Abstract!WithoutFolder(d)
BY DEF Tree!Node, Tree!EstablishedFolders, Tree!Running, Tree!Inside, Tree!Established,
       Tree!RoomForFile, Tree!RoomForFolder, Tree!HasSubEntries, Tree!CyclicMoveExcluded,
       Tree!FolderListed, Tree!WithoutFolder, Tree!Subtree, Tree!HasChain,
       Tree!MAX_FOLDER_DEPTH, Tree!Cardinality,
       Abstract!Node, Abstract!EstablishedFolders, Abstract!Running, Abstract!Inside,
       Abstract!Established, Abstract!RoomForFile, Abstract!RoomForFolder,
       Abstract!HasSubEntries, Abstract!CyclicMoveExcluded, Abstract!FolderListed,
       Abstract!WithoutFolder, Abstract!Subtree, Abstract!HasChain,
       Abstract!MAX_FOLDER_DEPTH, Abstract!Cardinality

\* What is asked of the files is the same as long as none is being deleted.
LEMMA SameFiles ==
  ASSUME AbstractMap = files_allocation_map, AbstractNodes = nodes
  PROVE  /\ Tree!EstablishedFiles = Abstract!EstablishedFiles
         /\ \A d, name : Tree!NameAvailable(d, name) <=> Abstract!NameAvailable(d, name)
         /\ \A f : Tree!FileListed(f) <=> Abstract!FileListed(f)
         /\ \A f : Tree!WithoutFile(f) = Abstract!WithoutFile(f)
<1>1. Tree!EstablishedFiles = Abstract!EstablishedFiles
  BY DEF Tree!EstablishedFiles, Abstract!EstablishedFiles
<1>2. \A d : Tree!SubEntryNames(d) = Abstract!SubEntryNames(d)
  BY DEF Tree!SubEntryNames, Abstract!SubEntryNames
<1>3. \A d, name : Tree!NameAvailable(d, name) <=> Abstract!NameAvailable(d, name)
  BY <1>2 DEF Tree!NameAvailable, Abstract!NameAvailable
<1>4. \A f : Tree!FileListed(f) <=> Abstract!FileListed(f)
  BY DEF Tree!FileListed, Abstract!FileListed
<1>5. \A f : Tree!WithoutFile(f) = Abstract!WithoutFile(f)
  BY DEF Tree!WithoutFile, Abstract!WithoutFile
<1>6. QED
  BY <1>1, <1>3, <1>4, <1>5

\* So are the tests of the operations.
LEMMA SameTests ==
  ASSUME AbstractMap = files_allocation_map, AbstractNodes = nodes
  PROVE  /\ \A d, name : Tree!CanCreateFile(d, name) <=> Abstract!CanCreateFile(d, name)
         /\ \A d, name : Tree!CanCreateFolder(d, name) <=> Abstract!CanCreateFolder(d, name)
         /\ \A d, name : Tree!CanRenameFolder(d, name) <=> Abstract!CanRenameFolder(d, name)
         /\ \A f, d : Tree!CanMoveFile(f, d) <=> Abstract!CanMoveFile(f, d)
         /\ \A e, d : Tree!CanMoveFolder(e, d) <=> Abstract!CanMoveFolder(e, d)
         /\ \A d : Tree!CanRemoveFolder(d) <=> Abstract!CanRemoveFolder(d)
<1> USE SameFolders, SameFiles
<1>1. \A d, name : Tree!CanCreateFile(d, name) <=> Abstract!CanCreateFile(d, name)
  BY DEF Tree!CanCreateFile, Abstract!CanCreateFile
<1>2. \A d, name : Tree!CanCreateFolder(d, name) <=> Abstract!CanCreateFolder(d, name)
  BY DEF Tree!CanCreateFolder, Abstract!CanCreateFolder
<1>3. \A d, name : Tree!CanRenameFolder(d, name) <=> Abstract!CanRenameFolder(d, name)
  BY DEF Tree!CanRenameFolder, Abstract!CanRenameFolder
<1>4. \A f, d : Tree!CanMoveFile(f, d) <=> Abstract!CanMoveFile(f, d)
  BY DEF Tree!CanMoveFile, Abstract!CanMoveFile
<1>5. \A e, d : Tree!CanMoveFolder(e, d) <=> Abstract!CanMoveFolder(e, d)
  BY DEF Tree!CanMoveFolder, Abstract!CanMoveFolder
<1>6. \A d : Tree!CanRemoveFolder(d) <=> Abstract!CanRemoveFolder(d)
  BY DEF Tree!CanRemoveFolder, Abstract!CanRemoveFolder
<1>7. QED
  BY <1>1, <1>2, <1>3, <1>4, <1>5, <1>6

\* What EntryStore does on the tree as it is, it does on what it sees of it.
OperationsCarryOver ==
  /\ \A d, n : Tree!CreateFile(d, n) => Abstract!CreateFile(d, n)
  /\ \A d, n : Tree!CreateFolder(d, n) => Abstract!CreateFolder(d, n)
  /\ \A f, n : Tree!RenameFile(f, n) => Abstract!RenameFile(f, n)
  /\ \A f, n : Tree!RenameFileOverrun(f, n) => Abstract!RenameFileOverrun(f, n)
  /\ \A d, n : Tree!RenameFolder(d, n) => Abstract!RenameFolder(d, n)
  /\ \A f, d : Tree!MoveFile(f, d) => Abstract!MoveFile(f, d)
  /\ \A e, d : Tree!MoveFolder(e, d) => Abstract!MoveFolder(e, d)
  /\ \A d : Tree!RemoveFolder(d) => Abstract!RemoveFolder(d)
  /\ \A d : Tree!RemoveTree(d) => Abstract!RemoveTree(d)
  /\ Tree!Refused => Abstract!Refused

RemovalCarriesOver ==
  /\ Tree!RemovalTooDeep => Abstract!RemovalTooDeep
  /\ Tree!RemovalOfRoot => Abstract!RemovalOfRoot
  /\ AbstractAnswer = answer =>
       /\ Tree!RemoveSubFolder => Abstract!RemoveSubFolder
       /\ Tree!RemoveInside => Abstract!RemoveInside

LEMMA SameSteps ==
  ASSUME AbstractMap = files_allocation_map, AbstractNodes = nodes, AbstractStored = Stored,
         AbstractMap' = files_allocation_map', AbstractNodes' = nodes',
         AbstractStored' = Stored', AbstractAnswer' = answer'
  PROVE  OperationsCarryOver /\ RemovalCarriesOver
<1> USE SameFolders, SameFiles, SameTests
<1>1. \A d : Tree!DeleteFlatFolder(d) => Abstract!DeleteFlatFolder(d)
  BY DEF Tree!DeleteFlatFolder, Abstract!DeleteFlatFolder
<1>2. \A d, n : Tree!CreateFile(d, n) => Abstract!CreateFile(d, n)
  BY DEF Tree!CreateFile, Abstract!CreateFile
<1>3. \A d, n : Tree!CreateFolder(d, n) => Abstract!CreateFolder(d, n)
  BY DEF Tree!CreateFolder, Abstract!CreateFolder
<1>4. /\ \A f, n : Tree!RenameFile(f, n) => Abstract!RenameFile(f, n)
      /\ \A f, n : Tree!RenameFileOverrun(f, n) => Abstract!RenameFileOverrun(f, n)
  BY DEF Tree!RenameFile, Abstract!RenameFile, Tree!RenameFileOverrun,
         Abstract!RenameFileOverrun, Tree!NullableNode, Abstract!NullableNode
<1>5. \A d, n : Tree!RenameFolder(d, n) => Abstract!RenameFolder(d, n)
  BY DEF Tree!RenameFolder, Abstract!RenameFolder
<1>6. \A f, d : Tree!MoveFile(f, d) => Abstract!MoveFile(f, d)
  BY DEF Tree!MoveFile, Abstract!MoveFile
<1>7. \A e, d : Tree!MoveFolder(e, d) => Abstract!MoveFolder(e, d)
  BY DEF Tree!MoveFolder, Abstract!MoveFolder
<1>8. \A d : Tree!RemoveFolder(d) => Abstract!RemoveFolder(d)
  BY <1>1 DEF Tree!RemoveFolder, Abstract!RemoveFolder
<1>9. \A d : Tree!RemoveTree(d) => Abstract!RemoveTree(d)
  BY DEF Tree!RemoveTree, Abstract!RemoveTree
<1>10. Tree!Refused => Abstract!Refused
  BY DEF Tree!Refused, Abstract!Refused, Tree!Refuse, Abstract!Refuse,
         Tree!entries, Abstract!entries
<1>11. Tree!RemovalTooDeep => Abstract!RemovalTooDeep
  BY DEF Tree!RemovalTooDeep, Abstract!RemovalTooDeep, Tree!MAX_FOLDER_DEPTH,
         Abstract!MAX_FOLDER_DEPTH
<1>12. Tree!RemovalOfRoot => Abstract!RemovalOfRoot
  BY DEF Tree!RemovalOfRoot, Abstract!RemovalOfRoot
<1>13. AbstractAnswer = answer /\ Tree!RemoveSubFolder => Abstract!RemoveSubFolder
  BY DEF Tree!RemoveSubFolder, Abstract!RemoveSubFolder, Tree!MAX_FOLDER_DEPTH,
         Abstract!MAX_FOLDER_DEPTH
<1>14. AbstractAnswer = answer /\ Tree!RemoveInside => Abstract!RemoveInside
  BY <1>1 DEF Tree!RemoveInside, Abstract!RemoveInside
<1>15. QED
  BY <1>2, <1>3, <1>4, <1>5, <1>6, <1>7, <1>8, <1>9, <1>10, <1>11, <1>12, <1>13, <1>14
     DEF OperationsCarryOver, RemovalCarriesOver

-----------------------------------------------------------------------------
(* What the invariant says of the tree *)

\* Extents are only in slots that are taken.
LEMMA StoredInUse ==
  ASSUME Abstract!NoOrphanData
  PROVE  Stored \subseteq Tree!EstablishedFiles /\ Deleting \subseteq Tree!EstablishedFiles
<1>1. \A f \in AbstractStored : f \in File /\ AbstractMap[f]
  BY DEF Abstract!NoOrphanData, Abstract!EstablishedFiles
<1>2. QED
  BY <1>1 DEF AbstractMap, AbstractStored, Deleting, Tree!EstablishedFiles

LEMMA TreeFacts ==
  ASSUME FSInv
  PROVE  /\ removal \in Seq(Tree!Node)
         /\ Stored \subseteq Tree!EstablishedFiles
         /\ \A p \in Tree!Node : \A f \in folders[p].sub_files :
              f \in Tree!EstablishedFiles /\ f \notin Deleting
         /\ Tree!Running => Tree!Inside \in Tree!Node
         /\ NULL \notin Tree!Node
         /\ Abstract!Defined
<1>1. Abstract!TypeOK /\ Abstract!BothEndsAgree /\ Abstract!NoOrphanData
  BY SameTree DEF FSInv, TreeProofs!IInv, TreeProofs!TreeInv
<1>2. removal \in Seq(Tree!Node)
  BY <1>1, SameFolders DEF Abstract!TypeOK
<1>3. ASSUME NEW p \in Tree!Node, NEW f \in folders[p].sub_files
      PROVE  f \in Tree!EstablishedFiles /\ f \notin Deleting
  <2>1. f \in File
    BY <1>1, SameFolders DEF Abstract!TypeOK
  <2>2. AbstractMap[f]
    BY <1>1, <2>1, SameFolders DEF Abstract!BothEndsAgree, Abstract!FileLinksAgree
  <2>3. QED
    BY <2>1, <2>2 DEF AbstractMap, Tree!EstablishedFiles
<1>4. Tree!Running => Tree!Inside \in Tree!Node
  BY <1>2 DEF Tree!Running, Tree!Inside
<1>5. NULL \notin Tree!Node
  BY FileSystemAssumption DEF Tree!Node
<1>6. Abstract!Defined
  BY DEF FSInv, SlotsOK, AbstractAnswer, Abstract!Defined
<1>7. QED
  BY <1>1, <1>2, <1>3, <1>4, <1>5, <1>6, StoredInUse

\* Between two calls there is nothing to say of the data.
LEMMA NoCallRuns ==
  ASSUME call' = Logic!Idle, Deleting' = {}
  PROVE  DeletionInv' /\ CommandInv'
BY DEF DeletionInv, CommandInv, Logic!Idle

\* A step that is told by EntryStore alone.
LEMMA TreeStepKeeps ==
  ASSUME FSInv, Quiet, UNCHANGED dataVars, SlotsOK', Deleting' = {}
  PROVE  /\ Logic!IInv' /\ DeletionInv' /\ CommandInv'
         /\ AbstractMap = files_allocation_map /\ AbstractMap' = files_allocation_map'
         /\ AbstractNodes = nodes /\ AbstractNodes' = nodes'
         /\ AbstractStored = Stored /\ AbstractStored' = Stored'
         /\ answer' # "RUNNING" \/ removal' # <<>> => AbstractAnswer' = answer'
<1>1. UNCHANGED Logic!vars
  BY DEF dataVars, Logic!vars, Logic!storageVars
<1>2. Logic!IInv'
  BY <1>1, DataKept DEF FSInv
<1>3. DeletionInv' /\ CommandInv'
  BY NoCallRuns DEF Quiet, dataVars
<1>4. QED
  BY <1>2, <1>3, SeenAsItIs, SeenAsItWillBe DEF FSInv, Quiet

\* Files whose slots and links stay are not being deleted when they were not before.
LEMMA NobodyDeleted ==
  ASSUME Deleting = {}, UNCHANGED files_allocation_map,
         \A f \in File : nodes[f].parent_folder # NULL => nodes'[f].parent_folder # NULL
  PROVE  Deleting' = {}
BY DEF Deleting

-----------------------------------------------------------------------------
(* Commands *)

LEMMA TreeCommandRefines ==
  ASSUME FSInv, TreeCommand
  PROVE  /\ Abstract!TreeNext
         /\ Logic!IInv' /\ SlotsOK' /\ DeletionInv' /\ CommandInv'
<1>1. Quiet /\ Deleting = {} /\ ~Tree!Running /\ UNCHANGED dataVars /\ SlotsOK
  BY DEF TreeCommand, Ready, Quiet, FSInv
<1>2. /\ AbstractMap = files_allocation_map /\ AbstractNodes = nodes
      /\ Tree!EstablishedFiles = Abstract!EstablishedFiles
      /\ Tree!EstablishedFolders = Abstract!EstablishedFolders
      /\ Tree!Node = Abstract!Node /\ ~Abstract!Running /\ Abstract!Defined
  BY <1>1, SeenAsItIs, SameFolders, SameFiles, TreeFacts
<1>3. ASSUME SlotsOK', Deleting' = {}, answer' # "RUNNING" \/ removal' # <<>>,
             OperationsCarryOver => Abstract!TreeNext
      PROVE  /\ Abstract!TreeNext
             /\ Logic!IInv' /\ SlotsOK' /\ DeletionInv' /\ CommandInv'
  BY <1>1, <1>3, TreeStepKeeps, SameSteps
<1>4. ASSUME UNCHANGED <<files_allocation_map, nodes>>,
             answer' \in {"SUCCESS", "FAILURE", "RUNNING"}
      PROVE  SlotsOK' /\ Deleting' = {}
  BY <1>1, <1>4, NobodyDeleted DEF SlotsOK
<1>5. ASSUME NEW d \in Tree!Node, NEW n \in Name, Tree!CreateFolder(d, n)
      PROVE  /\ Abstract!TreeNext
             /\ Logic!IInv' /\ SlotsOK' /\ DeletionInv' /\ CommandInv'
  <2>1. UNCHANGED <<files_allocation_map, nodes>> /\ answer' = "SUCCESS"
    BY <1>5 DEF Tree!CreateFolder
  <2>2. Abstract!CreateFolder(d, n) => Abstract!TreeNext
    BY <1>2 DEF Abstract!TreeNext, Abstract!Operation
  <2>3. QED
    BY <1>3, <1>4, <1>5, <2>1, <2>2 DEF OperationsCarryOver
<1>6. ASSUME NEW d \in Tree!EstablishedFolders, NEW n \in Name, Tree!RenameFolder(d, n)
      PROVE  /\ Abstract!TreeNext
             /\ Logic!IInv' /\ SlotsOK' /\ DeletionInv' /\ CommandInv'
  <2>1. UNCHANGED <<files_allocation_map, nodes>> /\ answer' = "SUCCESS"
    BY <1>6 DEF Tree!RenameFolder
  <2>2. Abstract!RenameFolder(d, n) => Abstract!TreeNext
    BY <1>2 DEF Abstract!TreeNext, Abstract!Operation
  <2>3. QED
    BY <1>3, <1>4, <1>6, <2>1, <2>2 DEF OperationsCarryOver
<1>7. ASSUME NEW f \in Tree!EstablishedFiles, NEW d \in Tree!EstablishedFolders,
             Tree!MoveFile(f, d)
      PROVE  /\ Abstract!TreeNext
             /\ Logic!IInv' /\ SlotsOK' /\ DeletionInv' /\ CommandInv'
  <2>1. /\ UNCHANGED files_allocation_map /\ answer' = "SUCCESS"
        /\ nodes' = [nodes EXCEPT ![f].parent_folder = d] /\ f \in File
        /\ d \in Tree!Node /\ d # NULL
    BY <1>7, TreeFacts DEF Tree!MoveFile, Tree!EstablishedFiles, Tree!EstablishedFolders
  <2>2. Abstract!MoveFile(f, d) => Abstract!TreeNext
    BY <1>2 DEF Abstract!TreeNext, Abstract!Operation
  <2>3. SlotsOK'
    BY <1>1, <2>1 DEF SlotsOK, Tree!NullableNode
  <2>4. Deleting' = {}
    BY <1>1, <2>1, NobodyDeleted DEF SlotsOK
  <2>5. QED
    BY <1>3, <1>7, <2>1, <2>2, <2>3, <2>4 DEF OperationsCarryOver
<1>8. ASSUME NEW d \in Tree!EstablishedFolders, NEW e \in Tree!EstablishedFolders,
             Tree!MoveFolder(d, e)
      PROVE  /\ Abstract!TreeNext
             /\ Logic!IInv' /\ SlotsOK' /\ DeletionInv' /\ CommandInv'
  <2>1. UNCHANGED <<files_allocation_map, nodes>> /\ answer' = "SUCCESS"
    BY <1>8 DEF Tree!MoveFolder
  <2>2. Abstract!MoveFolder(d, e) => Abstract!TreeNext
    BY <1>2 DEF Abstract!TreeNext, Abstract!Operation
  <2>3. QED
    BY <1>3, <1>4, <1>8, <2>1, <2>2 DEF OperationsCarryOver
<1>9. ASSUME NEW d \in Tree!EstablishedFolders, Tree!RemoveFolder(d)
       PROVE  /\ Abstract!TreeNext
              /\ Logic!IInv' /\ SlotsOK' /\ DeletionInv' /\ CommandInv'
  <2>1. UNCHANGED <<files_allocation_map, nodes>> /\ answer' = "SUCCESS"
    BY <1>9 DEF Tree!RemoveFolder, Tree!DeleteFlatFolder
  <2>2. Abstract!RemoveFolder(d) => Abstract!TreeNext
    BY <1>2 DEF Abstract!TreeNext, Abstract!Operation
  <2>3. QED
    BY <1>3, <1>4, <1>9, <2>1, <2>2 DEF OperationsCarryOver
<1>10. ASSUME NEW d \in Tree!EstablishedFolders, Tree!RemoveTree(d)
       PROVE  /\ Abstract!TreeNext
              /\ Logic!IInv' /\ SlotsOK' /\ DeletionInv' /\ CommandInv'
  <2>1. /\ UNCHANGED <<files_allocation_map, nodes>> /\ answer' = "RUNNING"
        /\ removal' = <<d>>
    BY <1>10 DEF Tree!RemoveTree
  <2>2. Abstract!RemoveTree(d) => Abstract!TreeNext
    BY <1>2 DEF Abstract!TreeNext, Abstract!Operation
  <2>3. removal' # <<>>
    BY <2>1
  <2>4. QED
    BY <1>3, <1>4, <1>10, <2>1, <2>2, <2>3 DEF OperationsCarryOver
<1>11. ASSUME Tree!Refused
       PROVE  /\ Abstract!TreeNext
              /\ Logic!IInv' /\ SlotsOK' /\ DeletionInv' /\ CommandInv'
  <2>1. UNCHANGED <<files_allocation_map, nodes>> /\ answer' = "FAILURE"
    BY <1>11 DEF Tree!Refused, Tree!Refuse, Tree!entries
  <2>2. Abstract!Refused => Abstract!TreeNext
    BY <1>2 DEF Abstract!TreeNext, Abstract!Operation
  <2>3. QED
    BY <1>3, <1>4, <1>11, <2>1, <2>2 DEF OperationsCarryOver
<1>12. QED
  BY <1>5, <1>6, <1>7, <1>8, <1>9, <1>10, <1>11 DEF TreeCommand

\* A size that another part of the program writes over leaves the layout alone.
LEMMA SizeWrittenOver ==
  ASSUME Logic!LayoutInv, NEW g \in File,
         extents' = [extents EXCEPT ![g].allocated_size = LowByteCleared(@)],
         UNCHANGED <<allocation_map, free_chunk_count, storage>>
  PROVE  /\ LayoutButSizes'
         /\ Stored' = Stored
         /\ \A f \in File :
              /\ extents'[f].data_chunk_extents = extents[f].data_chunk_extents
              /\ Logic!Owned(f)' = Logic!Owned(f)
              /\ extents'[f].allocated_size =
                   IF f = g THEN LowByteCleared(extents[f].allocated_size)
                   ELSE extents[f].allocated_size
<1>1. extents \in [File -> [allocated_size : Nat,
                            data_chunk_extents : [Logic!Index -> Logic!ChunkExtent]]]
  BY DEF Logic!LayoutInv, Logic!FilesTypeOK
<1>2. \A n \in Nat : LowByteCleared(n) \in Nat
  BY DEF LowByteCleared
<1>3. \A f \in File :
        /\ extents'[f].data_chunk_extents = extents[f].data_chunk_extents
        /\ extents'[f].allocated_size =
             IF f = g THEN LowByteCleared(extents[f].allocated_size)
             ELSE extents[f].allocated_size
  BY <1>1
<1>4. Logic!FilesTypeOK'
  BY <1>1, <1>2 DEF Logic!FilesTypeOK
<1>5. \A f \in File : Logic!Owned(f)' = Logic!Owned(f)
  BY <1>3 DEF Logic!Owned, Logic!Extent, Logic!Occupied, Logic!ExtentSpan
<1>6. Logic!StorageTypeOK' /\ Logic!FreeCountExact'
  BY DEF Logic!LayoutInv, Logic!StorageTypeOK, Logic!FreeCountExact, Logic!FreeChunks
<1>7. Logic!ExtentsNotVoid' /\ Logic!ExtentsCompact' /\ Logic!NoSharedChunk'
  <2>1. Logic!ExtentsNotVoid'
    BY <1>3 DEF Logic!LayoutInv, Logic!ExtentsNotVoid, Logic!Extent, Logic!Occupied
  <2>2. Logic!ExtentsCompact'
    BY <1>3 DEF Logic!LayoutInv, Logic!ExtentsCompact, Logic!Extent, Logic!Occupied
  <2>3. Logic!NoSharedChunk'
    BY <1>3 DEF Logic!LayoutInv, Logic!NoSharedChunk, Logic!Extent, Logic!Occupied,
                Logic!ExtentSpan
  <2>4. QED
    BY <2>1, <2>2, <2>3
<1>8. Logic!AllocatedIffOwned'
  BY <1>5 DEF Logic!LayoutInv, Logic!AllocatedIffOwned
<1>9. Stored' = Stored
  BY <1>3 DEF Stored, Logic!Extent, Logic!Occupied
<1>10. QED
  BY <1>3, <1>4, <1>5, <1>6, <1>7, <1>8, <1>9 DEF LayoutButSizes

\* A rename is one for EntryStore, with or without damage.
LEMMA RenameFileRefines ==
  ASSUME FSInv, RenameFile
  PROVE  /\ Abstract!TreeNext
         /\ \/ Logic!IInv' /\ SlotsOK' /\ DeletionInv' /\ CommandInv'
            \/ /\ answer' = "UNDEFINED" /\ AbstractAnswer' = "UNDEFINED" /\ removal' = <<>>
               /\ call' = Logic!Idle /\ Deleting' = {} /\ LayoutButSizes'
               /\ (\A f \in File : extents[f].allocated_size \in
                     {Cardinality(Logic!Owned(f)), LowByteCleared(Cardinality(Logic!Owned(f)))})'
<1>1. /\ Deleting = {} /\ call = Logic!Idle /\ ~Tree!Running /\ SlotsOK /\ Quiet
      /\ UNCHANGED <<allocation_map, free_chunk_count, storage, call, status>>
      /\ Logic!LayoutInv
  BY DEF RenameFile, Ready, Quiet, FSInv, Logic!IInv
<1>2. PICK f \in Tree!EstablishedFiles, n \in Name :
        /\ extents' = Terminated(f, n)
        /\ \/ extents' = extents /\ Tree!RenameFile(f, n)
           \/ Tree!RenameFileOverrun(f, n)
  BY DEF RenameFile, Terminated, Tree!RenameFile
<1>3. /\ AbstractMap = files_allocation_map /\ AbstractNodes = nodes /\ AbstractStored = Stored
      /\ f \in File /\ f \in Abstract!EstablishedFiles /\ ~Abstract!Running /\ Abstract!Defined
  BY <1>1, SeenAsItIs, SameFolders, SameFiles, TreeFacts DEF Tree!EstablishedFiles
<1>4. /\ UNCHANGED <<files_allocation_map, removal>>
      /\ nodes' = [nodes EXCEPT ![f].name = n]
  BY <1>2 DEF Tree!RenameFile, Tree!RenameFileOverrun
<1>5. /\ nodes' \in [File -> [parent_folder : Tree!NullableNode, name : Tree!NullableName]]
      /\ Deleting' = {}
  <2>1. nodes' \in [File -> [parent_folder : Tree!NullableNode, name : Tree!NullableName]]
    BY <1>1, <1>4 DEF SlotsOK, Tree!NullableName
  <2>2. Deleting' = {}
    BY <1>1, <1>3, <1>4, NobodyDeleted DEF SlotsOK
  <2>3. QED
    BY <2>1, <2>2
<1>6. CASE extents' = extents /\ Tree!RenameFile(f, n)
  <2>1. answer' = "SUCCESS"
    BY <1>6 DEF Tree!RenameFile
  <2>2. SlotsOK' /\ UNCHANGED dataVars
    BY <1>1, <1>4, <1>5, <1>6, <2>1 DEF SlotsOK, dataVars
  <2>3. Abstract!RenameFile(f, n)
    BY <1>1, <1>5, <1>6, <2>1, <2>2, TreeStepKeeps, SameSteps DEF OperationsCarryOver
  <2>4. Abstract!TreeNext
    BY <1>3, <2>3 DEF Abstract!TreeNext, Abstract!Operation
  <2>5. QED
    BY <1>1, <1>5, <2>2, <2>4, TreeStepKeeps
<1>7. CASE Tree!RenameFileOverrun(f, n)
  <2>1. answer' = "UNDEFINED" /\ AbstractAnswer' = "UNDEFINED" /\ removal' = <<>>
    BY <1>1, <1>4, <1>7 DEF Tree!RenameFileOverrun, AbstractAnswer, Tree!Running
  <2>2. /\ LayoutButSizes' /\ Stored' = Stored
        /\ (\A h \in File : extents[h].allocated_size \in
              {Cardinality(Logic!Owned(h)), LowByteCleared(Cardinality(Logic!Owned(h)))})'
    <3>1. \A h \in File : extents[h].allocated_size = Cardinality(Logic!Owned(h))
      BY <1>1 DEF Logic!LayoutInv, Logic!SizeExact, Logic!Cardinality, Cardinality
    <3>2. CASE n \in LongName /\ SlotAfter[f] # NULL
      <4>1. SlotAfter[f] \in File
        BY <1>3, <3>2, FileSystemAssumption
      <4>2. extents' = [extents EXCEPT ![SlotAfter[f]].allocated_size = LowByteCleared(@)]
        BY <1>2, <3>2 DEF Terminated
      <4>3. /\ LayoutButSizes' /\ Stored' = Stored
            /\ \A h \in File : /\ Logic!Owned(h)' = Logic!Owned(h)
                              /\ extents'[h].allocated_size \in
                                   {extents[h].allocated_size,
                                    LowByteCleared(extents[h].allocated_size)}
        BY <1>1, <4>1, <4>2, SizeWrittenOver
      <4>4. QED
        BY <3>1, <4>3
    <3>3. CASE ~(n \in LongName /\ SlotAfter[f] # NULL)
      <4>1. UNCHANGED <<allocation_map, free_chunk_count, storage, extents>>
        BY <1>1, <1>2, <3>3 DEF Terminated
      <4>2. UNCHANGED Logic!vars
        BY <1>1, <4>1 DEF Logic!vars, Logic!storageVars
      <4>3. Logic!LayoutInv'
        BY <4>2, DataKept DEF FSInv, Logic!IInv
      <4>4. Stored' = Stored /\ \A h \in File : Logic!Owned(h)' = Logic!Owned(h)
        BY <4>1 DEF Stored, Logic!Owned, Logic!ExtentSpan, Logic!Occupied, Logic!Extent
      <4>5. QED
        BY <3>1, <4>1, <4>3, <4>4 DEF Logic!LayoutInv, LayoutButSizes
    <3>4. QED
      BY <3>2, <3>3
  <2>3. /\ AbstractMap' = files_allocation_map' /\ AbstractNodes' = nodes'
        /\ AbstractStored' = Stored'
    BY <1>1, <1>4, <1>5 DEF SlotsOK, AbstractMap, AbstractNodes, AbstractStored
  <2>4. Abstract!RenameFileOverrun(f, n)
    BY <1>3, <1>7, <2>1, <2>3, SameSteps DEF OperationsCarryOver
  <2>5. Abstract!TreeNext
    BY <1>3, <2>4 DEF Abstract!TreeNext, Abstract!Operation
  <2>6. QED
    BY <1>1, <1>5, <2>1, <2>2, <2>5
<1>8. QED
  BY <1>2, <1>6, <1>7

\* The slot that is taken holds no extents, so clearing it loses no chunk.
LEMMA CreateFileRefines ==
  ASSUME FSInv, Ready, NEW parent \in Tree!Node, NEW name \in Name,
         CreateFile(parent, name)
  PROVE  /\ Abstract!TreeNext
         /\ Logic!IInv' /\ SlotsOK' /\ DeletionInv' /\ CommandInv'
<1>1. Quiet /\ Deleting = {} /\ call = Logic!Idle /\ ~Tree!Running /\ SlotsOK
  BY DEF Ready, Quiet, FSInv
<1>2. PICK f \in File :
        /\ ~files_allocation_map[f]
        /\ extents' = [extents EXCEPT ![f] = NoExtents]
        /\ UNCHANGED <<allocation_map, free_chunk_count, storage, call, status>>
        /\ Tree!CreateFile(parent, name)
        /\ files_allocation_map'[f]
  BY DEF CreateFile
<1>3. PICK g \in File :
        /\ ~files_allocation_map[g]
        /\ files_allocation_map' = [files_allocation_map EXCEPT ![g] = TRUE]
        /\ nodes' = [nodes EXCEPT ![g] = [parent_folder |-> parent, name |-> name]]
  BY <1>2 DEF Tree!CreateFile
<1>4. answer' = "SUCCESS"
  BY <1>2 DEF Tree!CreateFile
<1>5. f \notin Stored
  BY <1>2, TreeFacts DEF Tree!EstablishedFiles
<1>6. Logic!IInv'
  BY <1>1, <1>2, <1>5, NewFileKeepsData DEF FSInv
<1>7. SlotsOK'
  BY <1>1, <1>3, <1>4 DEF SlotsOK, Tree!NullableNode, Tree!NullableName
<1>8. Deleting' = {}
  <2>1. parent # NULL
    BY TreeFacts
  <2>2. ASSUME NEW h \in File, files_allocation_map'[h] PROVE nodes'[h].parent_folder # NULL
    <3>1. CASE h = g
      BY <1>1, <1>3, <2>1, <3>1 DEF SlotsOK
    <3>2. CASE h # g
      <4>1. files_allocation_map[h] /\ nodes'[h] = nodes[h]
        BY <1>1, <1>3, <2>2, <3>2 DEF SlotsOK
      <4>2. QED
        BY <1>1, <4>1 DEF Deleting
    <3>3. QED
      BY <3>1, <3>2
  <2>3. QED
    BY <2>2 DEF Deleting
<1>9. DeletionInv' /\ CommandInv'
  BY <1>1, <1>2, <1>8, NoCallRuns
<1>10. Abstract!CreateFile(parent, name)
  BY <1>1, <1>2, <1>4, <1>7, <1>8, SeenAsItIs, SeenAsItWillBe, SameSteps
     DEF OperationsCarryOver
<1>11. Abstract!TreeNext
  BY <1>1, <1>10, SameFolders, TreeFacts DEF Abstract!TreeNext, Abstract!Operation
<1>12. QED
  BY <1>6, <1>7, <1>9, <1>11

\* A command on data starts a call, which may put the first chunks into its file, or
\* changes nothing.
LEMMA DataCommandRefines ==
  ASSUME FSInv, DataCommand
  PROVE  /\ Abstract!TreeNext \/ UNCHANGED Abstract!entries
         /\ Logic!IInv' /\ SlotsOK' /\ DeletionInv' /\ CommandInv'
<1>1. Deleting = {} /\ call = Logic!Idle /\ ~Tree!Running /\ removal = <<>> /\ SlotsOK
  BY DEF DataCommand, Ready, Quiet, FSInv, Tree!Running
<1>2. /\ UNCHANGED <<folders_allocation_map, files_allocation_map, folders, removal, nodes>>
      /\ answer' \in {"RUNNING", "FAILURE"}
  BY DEF DataCommand, nodeVars
<1>3. SlotsOK'
  BY <1>1, <1>2 DEF SlotsOK
<1>4. Deleting' = {}
  BY <1>1, <1>2, NobodyDeleted
<1>5. /\ AbstractMap = files_allocation_map /\ AbstractNodes = nodes /\ AbstractStored = Stored
      /\ AbstractMap' = AbstractMap /\ AbstractNodes' = AbstractNodes
      /\ AbstractStored' = Stored'
  BY <1>1, <1>2, <1>3, <1>4, SeenAsItIs, SeenAsItWillBe
<1>6. ASSUME UNCHANGED extents
      PROVE  UNCHANGED Abstract!entries
  <2>1. Stored' = Stored
    BY <1>6 DEF Stored, Logic!Occupied, Logic!Extent
  <2>2. QED
    BY <1>2, <1>5, <2>1 DEF Abstract!entries
<1>7. PICK f \in Tree!EstablishedFiles :
        \/ /\ \/ \E data \in Data : Logic!AppendStart(f, data)
              \/ \E amount \in Amount : Logic!TruncateStart(f, amount)
              \/ Logic!DeleteStart(f)
           /\ answer' = "RUNNING"
        \/ /\ \/ \E data \in Data : Logic!AppendRefused(f, data)
              \/ \E amount \in Amount : Logic!TruncateRefused(f, amount)
           /\ answer' = "FAILURE"
  BY DEF DataCommand
<1>8. f \in File /\ f \in Tree!EstablishedFiles'
  BY <1>2 DEF Tree!EstablishedFiles
<1>9. Logic!IInv'
  <2>1. Logic!Start
    BY <1>7, <1>8 DEF Logic!Start
  <2>2. QED
    BY <2>1, DataKept DEF FSInv, Logic!Next
<1>10. ASSUME call' # Logic!Idle, call'.file = f, call'.op \in {"append", "truncate", "delete"},
              call'.op = "delete" => call'.extent = 0, answer' = "RUNNING"
       PROVE  DeletionInv' /\ CommandInv'
  <2>1. DeletionInv'
    BY <1>4, <1>10 DEF DeletionInv
  <2>2. CommandInv'
    BY <1>1, <1>2, <1>8, <1>10 DEF CommandInv
  <2>3. QED
    BY <2>1, <2>2
<1>11. ASSUME NEW data \in Data, Logic!AppendStart(f, data), answer' = "RUNNING"
       PROVE  Abstract!TreeNext /\ DeletionInv' /\ CommandInv'
  <2>1. PICK k \in Logic!Index, start \in Logic!Chunk :
          /\ Logic!FileAllocateChunks(f, k, Logic!ChunksAmount(Len(data)), start)
          /\ Logic!FirstEmptyExtent(f, k)
          /\ call' = [op |-> "append", file |-> f, data |-> data, extent |-> k, written |-> 0]
    BY <1>11 DEF Logic!AppendStart
  <2>2. extents \in [File -> [allocated_size : Nat,
                              data_chunk_extents : [Logic!Index -> Logic!ChunkExtent]]]
    BY DEF FSInv, Logic!IInv, Logic!LayoutInv, Logic!FilesTypeOK
  <2>3. \A g \in File : g # f => extents'[g] = extents[g]
    BY <1>8, <2>1, <2>2 DEF Logic!FileAllocateChunks
  <2>4. Logic!Occupied(f, 0)'
    BY <1>8, <2>1, <2>2, FileSystemAssumption
       DEF Logic!FileAllocateChunks, Logic!Occupied, Logic!Extent, Logic!FirstEmptyExtent,
           Logic!Index, Logic!LastIndex
  <2>5. Stored' = Stored \cup {f}
    BY <1>8, <2>3, <2>4 DEF Stored, Logic!Occupied, Logic!Extent
  <2>6. AbstractAnswer' = "SUCCESS"
    BY <1>1, <1>2, <1>11 DEF AbstractAnswer
  <2>7. Abstract!StoreData(f)
    BY <1>2, <1>5, <2>5, <2>6 DEF Abstract!StoreData
  <2>8. f \in Abstract!EstablishedFiles /\ ~Abstract!Running /\ Abstract!Defined
    BY <1>1, <1>5, SameFiles, SameFolders, TreeFacts
  <2>9. Abstract!TreeNext
    BY <2>7, <2>8 DEF Abstract!TreeNext, Abstract!Operation
  <2>10. DeletionInv' /\ CommandInv'
    BY <1>10, <1>11, <2>1 DEF Logic!Idle
  <2>11. QED
    BY <2>9, <2>10
<1>12. ASSUME NEW amount \in Amount, Logic!TruncateStart(f, amount), answer' = "RUNNING"
       PROVE  UNCHANGED extents /\ DeletionInv' /\ CommandInv'
  BY <1>10, <1>12 DEF Logic!TruncateStart, Logic!Idle
<1>13. ASSUME Logic!DeleteStart(f), answer' = "RUNNING"
       PROVE  UNCHANGED extents /\ DeletionInv' /\ CommandInv'
  BY <1>10, <1>13 DEF Logic!DeleteStart, Logic!Idle
<1>14. ASSUME \/ \E data \in Data : Logic!AppendRefused(f, data)
              \/ \E amount \in Amount : Logic!TruncateRefused(f, amount)
       PROVE  UNCHANGED extents /\ DeletionInv' /\ CommandInv'
  BY <1>4, <1>14, NoCallRuns
     DEF Logic!AppendRefused, Logic!TruncateRefused, Logic!Refuse, Logic!Return
<1>15. QED
  BY <1>3, <1>6, <1>7, <1>9, <1>11, <1>12, <1>13, <1>14

-----------------------------------------------------------------------------
(* Deletions and removals *)

\* Once a file is unlinked EntryStore sees nothing of it any more, its data included.
LEMMA UnlinkRefines ==
  ASSUME FSInv, Quiet, NEW f \in Tree!EstablishedFiles, Unlink(f),
         answer' \in {"SUCCESS", "FAILURE", "RUNNING"}
  PROVE  /\ Abstract!DeleteVfsFile(f)
         /\ Logic!IInv' /\ SlotsOK' /\ DeletionInv' /\ CommandInv'
<1>1. /\ Deleting = {} /\ SlotsOK /\ f \in File /\ files_allocation_map[f]
      /\ AbstractMap = files_allocation_map /\ AbstractNodes = nodes
      /\ AbstractStored = Stored
  BY SeenAsItIs DEF Quiet, FSInv, Tree!EstablishedFiles
<1>2. /\ Tree!Established(nodes[f].parent_folder) /\ Tree!FileListed(f)
      /\ folders' = Tree!WithoutFile(f)
      /\ nodes' = [nodes EXCEPT ![f].parent_folder = NULL]
      /\ UNCHANGED <<folders_allocation_map, files_allocation_map, removal>>
      /\ call' = [op |-> "delete", file |-> f, extent |-> 0]
      /\ UNCHANGED extents
  BY DEF Unlink, Logic!DeleteStart
<1>3. SlotsOK'
  BY <1>1, <1>2 DEF SlotsOK, Tree!NullableNode
<1>4. Deleting' = {f}
  <2>1. ASSUME NEW h \in File, h # f PROVE nodes'[h] = nodes[h]
    BY <1>1, <1>2, <2>1 DEF SlotsOK
  <2>2. nodes'[f].parent_folder = NULL /\ files_allocation_map'[f]
    BY <1>1, <1>2 DEF SlotsOK
  <2>3. QED
    BY <1>1, <1>2, <2>1, <2>2 DEF Deleting
<1>5. Stored' = Stored
  BY <1>2 DEF Stored, Logic!Occupied, Logic!Extent
<1>6. /\ AbstractMap' = [AbstractMap EXCEPT ![f] = FALSE]
      /\ AbstractNodes' = [AbstractNodes EXCEPT ![f] = Abstract!FreeFile]
      /\ AbstractStored' = AbstractStored \ {f}
  <2>1. AbstractMap' = [AbstractMap EXCEPT ![f] = FALSE]
    BY <1>1, <1>2, <1>4 DEF AbstractMap, SlotsOK
  <2>2. AbstractNodes' = [AbstractNodes EXCEPT ![f] = Abstract!FreeFile]
    BY <1>1, <1>2, <1>4 DEF AbstractNodes, SlotsOK, Abstract!FreeFile, Tree!FreeFile
  <2>3. QED
    BY <1>1, <1>4, <1>5, <2>1, <2>2 DEF AbstractStored
<1>7. Abstract!DeleteVfsFile(f)
  <2>1. /\ Abstract!Established(AbstractNodes[f].parent_folder)
        /\ Abstract!FileListed(f)
    BY <1>1, <1>2, SameFolders, SameFiles
  <2>2. folders' = Abstract!WithoutFile(f)
    BY <1>1, <1>2, SameFiles
  <2>3. QED
    BY <1>2, <1>6, <2>1, <2>2 DEF Abstract!DeleteVfsFile
<1>8. DeletionInv'
  <2>1. call' # Logic!Idle /\ call'.op = "delete" /\ call'.file = f
    BY <1>2 DEF Logic!Idle
  <2>2. 0 .. call'.extent - 1 = {}
    BY <1>2
  <2>3. QED
    BY <1>4, <2>1, <2>2 DEF DeletionInv
<1>9. CommandInv'
  BY <1>2, <1>4 DEF CommandInv, Tree!EstablishedFiles
<1>10. Logic!IInv'
  <2>1. Logic!Next
    BY <1>1 DEF Unlink, Logic!Next, Logic!Start
  <2>2. QED
    BY <2>1, DataKept DEF FSInv
<1>11. QED
  BY <1>3, <1>7, <1>8, <1>9, <1>10

\* A file that is deleted on its own is gone for EntryStore at once.
LEMMA RemoveFileRefines ==
  ASSUME FSInv, RemoveFile
  PROVE  /\ Abstract!TreeNext
         /\ Logic!IInv' /\ SlotsOK' /\ DeletionInv' /\ CommandInv'
<1>1. PICK f \in Tree!EstablishedFiles : Unlink(f)
  BY DEF RemoveFile
<1>2. Quiet /\ ~Tree!Running /\ answer' = "RUNNING"
  BY DEF RemoveFile, Ready
<1>3. UNCHANGED removal
  BY <1>1 DEF Unlink
<1>4. AbstractAnswer' = "SUCCESS"
  BY <1>2, <1>3 DEF AbstractAnswer, Tree!Running
<1>5. /\ Abstract!DeleteVfsFile(f)
      /\ Logic!IInv' /\ SlotsOK' /\ DeletionInv' /\ CommandInv'
  BY <1>1, <1>2, UnlinkRefines
<1>6. f \in Abstract!EstablishedFiles /\ ~Abstract!Running /\ Abstract!Defined
  BY <1>2, SeenAsItIs, SameFiles, SameFolders, TreeFacts DEF Quiet, FSInv
<1>7. Abstract!RemoveFile(f)
  BY <1>3, <1>4, <1>5 DEF Abstract!RemoveFile
<1>8. QED
  BY <1>5, <1>6, <1>7 DEF Abstract!TreeNext, Abstract!Operation

\* So is one that goes with the folder around it.
LEMMA RemoveSubFileRefines ==
  ASSUME FSInv, RemoveSubFile
  PROVE  /\ Abstract!TreeNext
         /\ Logic!IInv' /\ SlotsOK' /\ DeletionInv' /\ CommandInv'
<1>1. PICK f \in folders[Tree!Inside].sub_files : Unlink(f)
  BY DEF RemoveSubFile
<1>2. Quiet /\ Tree!Running /\ UNCHANGED answer
  BY DEF RemoveSubFile
<1>3. UNCHANGED removal
  BY <1>1 DEF Unlink
<1>4. AbstractAnswer' = AbstractAnswer
  BY <1>2, <1>3 DEF AbstractAnswer
<1>5. f \in Tree!EstablishedFiles
  BY <1>2, TreeFacts
<1>6. /\ Abstract!DeleteVfsFile(f)
      /\ Logic!IInv' /\ SlotsOK' /\ DeletionInv' /\ CommandInv'
  BY <1>1, <1>2, <1>5, UnlinkRefines DEF FSInv, SlotsOK
<1>7. Abstract!RemoveSubFile
  BY <1>1, <1>2, <1>3, <1>4, <1>6, SameFolders DEF Abstract!RemoveSubFile
<1>8. QED
  BY <1>6, <1>7 DEF Abstract!TreeNext, Abstract!RemovalStep

\* Giving the slot back is nothing new for EntryStore: the data are gone.
LEMMA ReturnSlotRefines ==
  ASSUME FSInv, ReturnSlot
  PROVE  /\ UNCHANGED Abstract!entries
         /\ Logic!IInv' /\ SlotsOK' /\ DeletionInv' /\ CommandInv'
<1>1. PICK f \in Deleting :
        /\ files_allocation_map' = [files_allocation_map EXCEPT ![f] = FALSE]
        /\ nodes' = [nodes EXCEPT ![f] = Tree!FreeFile]
  BY DEF ReturnSlot
<1>2. /\ call = Logic!Idle /\ UNCHANGED dataVars
      /\ UNCHANGED <<folders_allocation_map, folders, removal>>
      /\ answer' \in {"SUCCESS", answer}
  BY DEF ReturnSlot
<1>3. f \in File /\ f \notin Stored /\ SlotsOK
  BY <1>1, <1>2 DEF FSInv, DeletionInv, Deleting
<1>4. SlotsOK'
  BY <1>1, <1>2, <1>3
     DEF SlotsOK, Tree!FreeFile, Tree!NullableNode, Tree!NullableName
<1>5. Deleting' = Deleting \ {f}
  <2>1. ~files_allocation_map'[f]
    BY <1>1, <1>3 DEF SlotsOK
  <2>2. ASSUME NEW h \in File, h # f
        PROVE  files_allocation_map'[h] = files_allocation_map[h] /\ nodes'[h] = nodes[h]
    BY <1>1, <1>3, <2>2 DEF SlotsOK
  <2>3. QED
    BY <2>1, <2>2 DEF Deleting
<1>6. Stored' = Stored
  BY <1>2 DEF dataVars, Stored, Logic!Occupied, Logic!Extent
<1>7. UNCHANGED <<AbstractMap, AbstractNodes, AbstractStored>>
  <2>1. AbstractMap' = AbstractMap
    BY <1>1, <1>3, <1>5 DEF AbstractMap, SlotsOK
  <2>2. AbstractNodes' = AbstractNodes
    BY <1>1, <1>3, <1>5 DEF AbstractNodes, SlotsOK, Tree!FreeFile
  <2>3. AbstractStored' = AbstractStored
    BY <1>3, <1>5, <1>6 DEF AbstractStored
  <2>4. QED
    BY <2>1, <2>2, <2>3
<1>8. DeletionInv' /\ CommandInv'
  BY <1>2, <1>5, <1>6 DEF FSInv, DeletionInv, CommandInv, dataVars, Logic!Idle
<1>9. Logic!IInv'
  <2>1. UNCHANGED Logic!vars
    BY <1>2 DEF dataVars, Logic!vars, Logic!storageVars
  <2>2. QED
    BY <2>1, DataKept DEF FSInv
<1>10. QED
  BY <1>2, <1>4, <1>7, <1>8, <1>9 DEF Abstract!entries

\* The rest of the removal of a tree leaves files alone.
LEMMA RemovalGoesOnRefines ==
  ASSUME FSInv, RemovalGoesOn
  PROVE  /\ Abstract!TreeNext
         /\ Logic!IInv' /\ SlotsOK' /\ DeletionInv' /\ CommandInv'
<1>1. Quiet /\ Deleting = {} /\ UNCHANGED dataVars /\ SlotsOK
  BY DEF RemovalGoesOn, Quiet, FSInv
<1>2. /\ Tree!Running /\ UNCHANGED <<files_allocation_map, nodes>>
      /\ answer' \in {"SUCCESS", "FAILURE", answer}
  BY DEF RemovalGoesOn, Tree!RemoveSubFolder, Tree!RemovalTooDeep, Tree!RemoveInside,
         Tree!RemovalOfRoot, Tree!DeleteFlatFolder
<1>3. SlotsOK' /\ Deleting' = {}
  BY <1>1, <1>2, NobodyDeleted DEF SlotsOK
<1>4. removal \in Seq(Tree!Node) /\ removal # <<>> /\ AbstractAnswer = answer
  BY <1>1, <1>2, TreeFacts, SeenAsItIs DEF Tree!Running
<1>5. answer' # "RUNNING" \/ removal' # <<>>
  <2>1. CASE Tree!RemoveSubFolder
    BY <1>4, <2>1 DEF Tree!RemoveSubFolder
  <2>2. CASE Tree!RemovalTooDeep \/ Tree!RemovalOfRoot
    BY <2>2 DEF Tree!RemovalTooDeep, Tree!RemovalOfRoot
  <2>3. CASE Tree!RemoveInside
    <3>1. /\ removal' = SubSeq(removal, 1, Len(removal) - 1)
          /\ Len(removal) = 1 => answer' = "SUCCESS"
      BY <2>3 DEF Tree!RemoveInside
    <3>2. Len(removal) \in Nat \ {0}
      BY <1>4
    <3>3. CASE Len(removal) = 1
      BY <3>1, <3>3
    <3>4. CASE Len(removal) # 1
      <4>1. \A i \in 1 .. Len(removal) - 1 : removal[i] \in Tree!Node
        BY <1>4, <3>2
      <4>2. Len(removal) - 1 \in Int /\ 1 \in Int
        BY <3>2
      <4>3. Len(removal') = IF 1 <= Len(removal) - 1 THEN Len(removal) - 1 - 1 + 1 ELSE 0
        BY ONLY <3>1, <4>1, <4>2, SubSeqProperties
      <4>4. Len(removal') # Len(<<>>)
        <5> DEFINE length == Len(removal)
                   length_left == Len(removal')
        <5>1. length \in Nat \ {0} /\ length # 1
          BY <3>2, <3>4
        <5>2. length_left = IF 1 <= length - 1 THEN length - 1 - 1 + 1 ELSE 0
          BY <4>3
        <5> HIDE DEF length, length_left
        <5>3. length_left # 0
          BY <5>1, <5>2
        <5>4. Len(<<>>) = 0
          OBVIOUS
        <5>5. QED
          BY <5>3, <5>4 DEF length_left
      <4>5. QED
        BY <4>4
    <3>5. QED
      BY <3>3, <3>4
  <2>4. QED
    BY <2>1, <2>2, <2>3 DEF RemovalGoesOn
<1>6. /\ Logic!IInv' /\ DeletionInv' /\ CommandInv'
      /\ RemovalCarriesOver
  BY <1>1, <1>3, <1>5, TreeStepKeeps, SameSteps
<1>7. Abstract!RemovalStep
  BY <1>4, <1>6 DEF RemovalGoesOn, RemovalCarriesOver, Abstract!RemovalStep
<1>8. QED
  BY <1>3, <1>6, <1>7 DEF Abstract!TreeNext

-----------------------------------------------------------------------------
(* The loops of file_logic.c *)

\* A step of a loop puts the first chunks into its own file, takes away the last, or
\* is not seen by EntryStore; inside a deletion it never is.
LEMMA DataStepRefines ==
  ASSUME FSInv, DataStep
  PROVE  /\ Abstract!TreeNext \/ UNCHANGED Abstract!entries
         /\ Logic!IInv' /\ SlotsOK' /\ DeletionInv' /\ CommandInv'
<1>0. PICK f : f = call.file
  OBVIOUS
<1>1. /\ Logic!IInv /\ SlotsOK /\ DeletionInv /\ Logic!Continue
      /\ UNCHANGED <<folders_allocation_map, files_allocation_map, folders, removal, nodes>>
      /\ answer' = IF call' # Logic!Idle \/ Deleting # {} THEN answer
                   ELSE IF status' = "SUCCESS" THEN "SUCCESS" ELSE "FAILURE"
  BY DEF FSInv, DataStep, nodeVars
<1>2. /\ call # Logic!Idle /\ f \in File
      /\ \A g \in File : g # f => extents'[g] = extents[g]
      /\ call' # Logic!Idle => call'.file = f /\ call'.op = call.op
      /\ call' = Logic!Idle => status' = "SUCCESS" \/ extents' = extents
  BY <1>0, <1>1, CallKeepsToItsFile
<1>3. /\ f \in Tree!EstablishedFiles
      /\ Deleting = {} => removal = <<>> /\ answer = "RUNNING"
  BY <1>0, <1>2 DEF FSInv, CommandInv
<1>4. Logic!IInv'
  BY <1>1, DataKept DEF Logic!Next
<1>5. SlotsOK'
  BY <1>1 DEF SlotsOK
<1>6. Deleting' = Deleting /\ Deleting \subseteq {f}
  BY <1>0, <1>1, <1>2 DEF Deleting, DeletionInv
<1>7. CommandInv'
  BY <1>1, <1>2, <1>3, <1>6 DEF CommandInv, Tree!EstablishedFiles
<1>8. DeletionInv'
  <2>1. CASE call.op # "delete"
    <3>1. Deleting' = {}
      BY <1>1, <1>2, <1>6, <2>1 DEF DeletionInv
    <3>2. call'.op # "delete"
      BY <1>2, <2>1 DEF Logic!Idle
    <3>3. QED
      BY <3>1, <3>2 DEF DeletionInv
  <2>2. CASE call.op = "delete"
    <3>1. /\ call' = Logic!Idle => \A i \in Logic!Index : ~Logic!Occupied(f, i)'
          /\ call' # Logic!Idle => \A i \in 0 .. call'.extent - 1 : ~Logic!Occupied(f, i)'
      BY <1>0, <1>1, <2>2, DeleteEmpties DEF DeletionInv
    <3>2. 0 \in Logic!Index
      BY FileSystemAssumption DEF Logic!Index, Logic!LastIndex
    <3>3. CASE call' = Logic!Idle
      <4>1. f \notin Stored'
        BY <3>1, <3>2, <3>3 DEF Stored
      <4>2. QED
        BY <1>6, <3>3, <4>1 DEF DeletionInv, Logic!Idle
    <3>4. CASE call' # Logic!Idle
      <4>1. call'.op = "delete" /\ call'.file = f
        BY <1>2, <2>2, <3>4
      <4>2. (\A i \in 0 .. call.extent - 1 : ~Logic!Occupied(call.file, i))'
        BY <3>1, <3>4, <4>1 DEF Logic!Occupied, Logic!Extent
      <4>3. QED
        BY <1>6, <3>4, <4>1, <4>2 DEF DeletionInv
    <3>5. QED
      BY <3>3, <3>4
  <2>3. QED
    BY <2>1, <2>2
<1>9. Stored' \in {Stored, Stored \cup {f}, Stored \ {f}}
  <2>1. ASSUME NEW g \in File, g # f PROVE g \in Stored' <=> g \in Stored
    BY <1>2, <2>1 DEF Stored, Logic!Occupied, Logic!Extent
  <2>2. Stored \subseteq File /\ Stored' \subseteq File
    BY DEF Stored
  <2>3. CASE f \in Stored'
    BY <2>1, <2>2, <2>3
  <2>4. CASE f \notin Stored'
    BY <2>1, <2>2, <2>4
  <2>5. QED
    BY <2>3, <2>4
<1>10. AbstractMap' = AbstractMap /\ AbstractNodes' = AbstractNodes
  BY <1>1, <1>6 DEF AbstractMap, AbstractNodes
<1>11. CASE AbstractStored' = AbstractStored
  <2>1. UNCHANGED Abstract!entries
    BY <1>1, <1>10, <1>11 DEF Abstract!entries
  <2>2. QED
    BY <1>4, <1>5, <1>7, <1>8, <2>1
<1>12. CASE AbstractStored' # AbstractStored
  <2>1. Deleting = {} /\ AbstractStored = Stored /\ AbstractStored' = Stored'
    BY <1>6, <1>9, <1>12 DEF AbstractStored
  <2>2. extents' # extents
    BY <1>12, <2>1 DEF Stored, Logic!Occupied, Logic!Extent
  <2>3. AbstractAnswer' = "SUCCESS"
    BY <1>1, <1>2, <1>3, <2>1, <2>2 DEF AbstractAnswer
  <2>4. Abstract!StoreData(f) \/ Abstract!ClearData(f)
    BY <1>1, <1>9, <1>10, <1>12, <2>1, <2>3 DEF Abstract!StoreData, Abstract!ClearData
  <2>5. f \in Abstract!EstablishedFiles /\ ~Abstract!Running /\ Abstract!Defined
    BY <1>1, <1>3, <2>1, SeenAsItIs, SameFiles, SameFolders, TreeFacts DEF Tree!Running
  <2>6. Abstract!TreeNext
    BY <2>4, <2>5 DEF Abstract!TreeNext, Abstract!Operation
  <2>7. QED
    BY <1>4, <1>5, <1>7, <1>8, <2>6
<1>13. QED
  BY <1>11, <1>12

-----------------------------------------------------------------------------
(* The invariant is inductive, and every step one of EntryStore or none *)

LEMMA InitEstablishes == Init => Abstract!TreeInit /\ FSInv
<1> SUFFICES ASSUME Init
             PROVE  Abstract!TreeInit /\ FSInv
  OBVIOUS
<1>1. /\ files_allocation_map = [f \in File |-> FALSE]
      /\ nodes = [f \in File |-> Tree!FreeFile]
      /\ removal = <<>> /\ answer = "SUCCESS" /\ call = Logic!Idle
  BY DEF Init, Logic!Init
<1>2. Deleting = {}
  BY <1>1 DEF Deleting
<1>3. SlotsOK
  BY <1>1 DEF SlotsOK, Tree!FreeFile, Tree!NullableNode, Tree!NullableName
<1>4. Stored = {}
  <2>1. 0 \in Logic!Index
    BY FileSystemAssumption DEF Logic!Index, Logic!LastIndex
  <2>2. QED
    BY <2>1 DEF Stored, Init, Logic!Init, Logic!FilesInit, Logic!Occupied, Logic!Extent,
                Logic!EmptyExtent
<1>5. Abstract!TreeInit
  <2>1. /\ AbstractMap = [f \in File |-> FALSE]
        /\ AbstractNodes = [f \in File |-> Abstract!FreeFile]
        /\ AbstractStored = {} /\ AbstractAnswer = "SUCCESS"
    BY <1>1, <1>2, <1>3, <1>4, SeenAsItIs DEF Tree!FreeFile, Abstract!FreeFile
  <2>2. folders = [d \in Abstract!Node |->
                     IF d = ROOT THEN [Abstract!FreeFolder EXCEPT !.name = ROOT_NAME]
                     ELSE Abstract!FreeFolder]
    BY DEF Init, Tree!Node, Abstract!Node, Tree!FreeFolder, Abstract!FreeFolder
  <2>3. folders_allocation_map = [d \in Folder |-> FALSE]
    BY DEF Init
  <2>4. QED
    BY <1>1, <2>1, <2>2, <2>3 DEF Abstract!TreeInit
<1>6. Logic!IInv
  BY DataKept DEF Init
<1>7. DeletionInv /\ CommandInv
  BY <1>1, <1>2 DEF DeletionInv, CommandInv, Logic!Idle
<1>8. QED
  BY <1>3, <1>5, <1>6, <1>7, TreeKept DEF FSInv

\* A step that changes nothing is none for EntryStore, and keeps everything.
LEMMA StutterKeeps ==
  ASSUME UNCHANGED vars
  PROVE  /\ UNCHANGED Abstract!entries /\ UNCHANGED AbstractAnswer /\ UNCHANGED Deleting
         /\ FSInv => Logic!IInv' /\ SlotsOK' /\ DeletionInv' /\ CommandInv'
         /\ SystemInv => SystemInv'
<1>1. UNCHANGED <<nodeVars, answer, dataVars>>
  BY DEF vars
<1>2. Deleting' = Deleting /\ Stored' = Stored
  BY <1>1 DEF nodeVars, dataVars, Deleting, Stored, Logic!Occupied, Logic!Extent
<1>3. UNCHANGED Abstract!entries /\ UNCHANGED AbstractAnswer
  BY <1>1, <1>2 DEF Abstract!entries, nodeVars, AbstractMap, AbstractNodes,
                    AbstractStored, AbstractAnswer
<1>4. UNCHANGED Logic!vars
  BY <1>1 DEF dataVars, Logic!vars, Logic!storageVars
<1>5. FSInv => Logic!IInv' /\ SlotsOK' /\ DeletionInv' /\ CommandInv'
  <2>1. SlotsOK /\ CommandInv => SlotsOK' /\ CommandInv'
    BY <1>1, <1>2 DEF SlotsOK, CommandInv, nodeVars, dataVars, Tree!EstablishedFiles
  <2>2. DeletionInv => DeletionInv'
    BY <1>1, <1>2 DEF DeletionInv, dataVars, Logic!Occupied, Logic!Extent
  <2>3. QED
    BY <1>4, <2>1, <2>2, DataKept DEF FSInv
<1>6. FSInv => FSInv'
  <2>1. FSInv => AbstractAnswer' \in {"SUCCESS", "FAILURE", "RUNNING"}
    BY <1>3 DEF FSInv, SlotsOK, AbstractAnswer
  <2>2. QED
    BY <1>3, <1>5, <2>1, TreeKept DEF FSInv
<1>7. FSDamaged => FSDamaged'
  <2> SUFFICES ASSUME FSDamaged PROVE FSDamaged'
    OBVIOUS
  <2>1. /\ (answer = "UNDEFINED" /\ removal = <<>> /\ call = Logic!Idle /\ Deleting = {})'
        /\ AbstractAnswer = "UNDEFINED"
    BY <1>1, <1>2 DEF FSDamaged, AbstractAnswer, nodeVars, dataVars
  <2>2. TreeProofs!Damaged'
    BY <1>3, <2>1, TreeKept DEF FSDamaged
  <2>3. LayoutButSizes'
    <3>1. UNCHANGED <<allocation_map, free_chunk_count, storage, extents>>
      BY <1>1 DEF dataVars
    <3>2. Logic!StorageTypeOK' /\ Logic!FilesTypeOK' /\ Logic!FreeCountExact'
      BY <3>1 DEF FSDamaged, LayoutButSizes, Logic!StorageTypeOK, Logic!FilesTypeOK,
           Logic!FreeCountExact, Logic!FreeChunks
    <3>3. Logic!ExtentsNotVoid' /\ Logic!ExtentsCompact'
      BY <3>1 DEF FSDamaged, LayoutButSizes, Logic!ExtentsNotVoid, Logic!ExtentsCompact,
           Logic!Occupied, Logic!Extent
    <3>4. Logic!NoSharedChunk'
      BY <3>1 DEF FSDamaged, LayoutButSizes, Logic!NoSharedChunk, Logic!ExtentSpan,
           Logic!Occupied, Logic!Extent
    <3>5. Logic!AllocatedIffOwned'
      BY <3>1 DEF FSDamaged, LayoutButSizes, Logic!AllocatedIffOwned, Logic!Owned,
           Logic!ExtentSpan, Logic!Occupied, Logic!Extent
    <3>6. QED
      BY <3>2, <3>3, <3>4, <3>5 DEF LayoutButSizes
  <2>4. (\A f \in File : extents[f].allocated_size \in
          {Cardinality(Logic!Owned(f)), LowByteCleared(Cardinality(Logic!Owned(f)))})'
    <3>1. \A f : Logic!Owned(f)' = Logic!Owned(f)
      BY <1>1 DEF dataVars, Logic!Owned, Logic!ExtentSpan, Logic!Occupied, Logic!Extent
    <3>2. QED
      BY <1>1, <3>1 DEF FSDamaged, dataVars
  <2>5. QED
    BY <2>1, <2>2, <2>3, <2>4 DEF FSDamaged
<1>8. SystemInv => SystemInv'
  BY <1>1, <1>6, <1>7 DEF SystemInv, Tree!Defined
<1>9. QED
  BY <1>2, <1>3, <1>5, <1>8

\* After damage nothing happens any more.
LEMMA DamageIsTheEnd == FSDamaged => ~Next
BY DEF FSDamaged, Next, Command, Step, Ready, Tree!Defined, Tree!Running, TreeCommand,
       RenameFile, DataCommand, RemoveFile, DataStep, Logic!Continue, Logic!AppendWrite,
       Logic!TruncateWholeExtent, Logic!TruncateBelowArray, Logic!TruncateTail,
       Logic!DeleteExtent, Logic!DeleteSkipEmpty, Logic!Idle, ReturnSlot, RemoveSubFile,
       RemovalGoesOn, Tree!RemoveSubFolder, Tree!RemovalTooDeep, Tree!RemoveInside,
       Tree!RemovalOfRoot

LEMMA StepRefines ==
  SystemInv /\ [Next]_vars => (Abstract!TreeNext \/ UNCHANGED Abstract!entries) /\ SystemInv'
<1> SUFFICES ASSUME SystemInv, [Next]_vars
             PROVE  (Abstract!TreeNext \/ UNCHANGED Abstract!entries) /\ SystemInv'
  OBVIOUS
<1>1. CASE UNCHANGED vars
  BY <1>1, StutterKeeps
<1>2. CASE Next
  <2>1. FSInv
    BY <1>2, DamageIsTheEnd DEF SystemInv
  <2>2. AbstractAnswer # "UNDEFINED"
    BY <2>1 DEF FSInv, SlotsOK, AbstractAnswer
  <2>3. ASSUME Abstract!TreeNext \/ UNCHANGED Abstract!entries,
               Logic!IInv', SlotsOK', DeletionInv', CommandInv'
        PROVE  SystemInv'
    <3>1. AbstractAnswer' \in {"SUCCESS", "FAILURE", "RUNNING"}
      BY <2>3 DEF AbstractAnswer, SlotsOK
    <3>2. TreeProofs!IInv'
      BY <2>1, <2>2, <2>3, <3>1, TreeKept DEF FSInv
    <3>3. QED
      BY <2>3, <3>2 DEF SystemInv, FSInv, SlotsOK, Tree!Defined
  <2>4. CASE RenameFile
    <3>1. Abstract!TreeNext
      BY <2>1, <2>4, RenameFileRefines
    <3>2. CASE Logic!IInv' /\ SlotsOK' /\ DeletionInv' /\ CommandInv'
      BY <2>3, <3>1, <3>2
    <3>3. CASE ~(Logic!IInv' /\ SlotsOK' /\ DeletionInv' /\ CommandInv')
      <4>1. /\ answer' = "UNDEFINED" /\ AbstractAnswer' = "UNDEFINED" /\ removal' = <<>>
            /\ call' = Logic!Idle /\ Deleting' = {} /\ LayoutButSizes'
            /\ (\A f \in File : extents[f].allocated_size \in
                  {Cardinality(Logic!Owned(f)), LowByteCleared(Cardinality(Logic!Owned(f)))})'
        BY <2>1, <2>4, <3>3, RenameFileRefines
      <4>2. TreeProofs!Damaged'
        BY <2>1, <2>2, <3>1, <4>1, TreeKept DEF FSInv
      <4>3. Logic!Idle' = Logic!Idle
        BY DEF Logic!Idle
      <4>4. QED
        BY <3>1, <4>1, <4>2, <4>3 DEF SystemInv, FSDamaged, Tree!Defined
    <3>4. QED
      BY <3>1, <3>2, <3>3
  <2>5. CASE Ready /\ \E parent \in Tree!Node, name \in Name : CreateFile(parent, name)
    BY <2>1, <2>3, <2>5, CreateFileRefines
  <2>6. CASE TreeCommand
    BY <2>1, <2>3, <2>6, TreeCommandRefines
  <2>7. CASE DataCommand
    BY <2>1, <2>3, <2>7, DataCommandRefines
  <2>8. CASE RemoveFile
    BY <2>1, <2>3, <2>8, RemoveFileRefines
  <2>9. CASE DataStep
    BY <2>1, <2>3, <2>9, DataStepRefines
  <2>10. CASE ReturnSlot
    BY <2>1, <2>3, <2>10, ReturnSlotRefines
  <2>11. CASE RemoveSubFile
    BY <2>1, <2>3, <2>11, RemoveSubFileRefines
  <2>12. CASE RemovalGoesOn
    BY <2>1, <2>3, <2>12, RemovalGoesOnRefines
  <2>13. QED
    BY <1>2, <2>4, <2>5, <2>6, <2>7, <2>8, <2>9, <2>10, <2>11, <2>12
       DEF Next, Command, Step
<1>3. QED
  BY <1>1, <1>2

-----------------------------------------------------------------------------
(* The theorems *)

\* At every moment the data keep the invariant of file_logic.c's loops, the tree that
\* of vfs_entry_store.c, and a file whose deletion is unfinished is the one
\* file_delete_data works on (vfs_entry_store.c:346-358). A rename that writes behind
\* its slot (folders.c:290) ends that, and is the last step: then one size may have
\* lost its low byte, or one folder its parent, and all else is as it was.
THEOREM SystemInvariant == Spec => []SystemInv
<1>1. Init => SystemInv
  BY InitEstablishes DEF SystemInv, FSInv, SlotsOK, Tree!Defined
<1>2. SystemInv /\ [Next]_vars => SystemInv'
  BY StepRefines
<1>3. QED
  BY <1>1, <1>2, PTL DEF Spec

\* The loops over extents run to their end without the tree noticing: deleting a file
\* is one step for it, which leaves no chunk behind, and so is a command on data
\* (vfs_entry_store.c:346, file_logic.c:565).
THEOREM TreeAndDataImplementEntryStore == Spec => ImplementsEntryStore
<1>1. Init => Abstract!TreeInit
  BY InitEstablishes
<1>2. SystemInv /\ [Next]_vars => Abstract!TreeNext \/ UNCHANGED Abstract!entries
  BY StepRefines
<1>3. Abstract!TreeNext \/ UNCHANGED Abstract!entries
      => [Abstract!TreeNext]_(Abstract!entries)
  OBVIOUS
<1>4. QED
  BY <1>1, <1>2, <1>3, SystemInvariant, PTL DEF Spec, ImplementsEntryStore

\* No chunk is ever lost: what is allocated belongs to a file in use, through every
\* creation, deletion and removal (vfs_entry_store.c:351-358, files.c:30).
THEOREM ChunksNeverLost == Spec => []NoLostChunk
<1>1. SystemInv => NoLostChunk
  <2> SUFFICES ASSUME SystemInv, NEW c \in Logic!Chunk, allocation_map[c]
               PROVE  \E f \in File : files_allocation_map[f] /\ c \in Logic!Owned(f)
    BY DEF NoLostChunk
  <2>1. /\ {k \in Logic!Chunk : allocation_map[k]} = UNION {Logic!Owned(f) : f \in File}
        /\ Logic!ExtentsCompact
    BY DEF SystemInv, FSInv, FSDamaged, LayoutButSizes, Logic!IInv, Logic!LayoutInv,
           Logic!AllocatedIffOwned
  <2>2. PICK f \in File : c \in Logic!Owned(f)
    BY <2>1
  <2>3. PICK i \in Logic!Index : Logic!Occupied(f, i)
    BY <2>2 DEF Logic!Owned
  <2>4. Logic!Occupied(f, 0)
    BY <2>1, <2>3, FileSystemAssumption
       DEF Logic!ExtentsCompact, Logic!Index, Logic!LastIndex
  <2>5. files_allocation_map[f]
    <3>1. Abstract!NoOrphanData
      BY SameTree DEF SystemInv, FSInv, FSDamaged, TreeProofs!IInv, TreeProofs!TreeInv,
                      TreeProofs!Damaged
    <3>2. QED
      BY <2>4, <3>1, StoredInUse DEF Stored, Tree!EstablishedFiles
  <2>6. QED
    BY <2>2, <2>5
<1>2. QED
  BY <1>1, SystemInvariant, PTL

\* One step of the system leaves a file its bytes when neither call is on it.
LEMMA FileKept ==
  ASSUME FSInv, [Next]_vars, ~RenameFile, NEW f \in File, files_allocation_map[f],
         ~Busy(f), ~Busy(f)'
  PROVE  /\ extents'[f] = extents[f]
         /\ \A c \in Logic!Owned(f) : storage'[c] = storage[c] /\ allocation_map'[c]
<1>1. call = Logic!Idle \/ call.file # f
  BY DEF Busy
<1>2. ASSUME [Logic!Next]_(Logic!vars), extents'[f] = extents[f]
      PROVE  /\ extents'[f] = extents[f]
             /\ \A c \in Logic!Owned(f) : storage'[c] = storage[c] /\ allocation_map'[c]
  BY <1>1, <1>2, OthersKept DEF FSInv
<1>3. CASE UNCHANGED dataVars
  <2>1. UNCHANGED Logic!vars /\ UNCHANGED extents
    BY <1>3 DEF dataVars, Logic!vars, Logic!storageVars
  <2>2. QED
    BY <1>2, <2>1
<1>4. ASSUME NEW parent, NEW name, CreateFile(parent, name)
      PROVE  /\ extents'[f] = extents[f]
             /\ \A c \in Logic!Owned(f) : storage'[c] = storage[c] /\ allocation_map'[c]
  <2>1. PICK g \in File :
          /\ ~files_allocation_map[g]
          /\ extents' = [extents EXCEPT ![g] = NoExtents]
          /\ UNCHANGED <<allocation_map, storage>>
    BY <1>4 DEF CreateFile
  <2>2. extents'[f] = extents[f]
    <3>1. extents \in [File -> [allocated_size : Nat,
                                data_chunk_extents : [Logic!Index -> Logic!ChunkExtent]]]
      BY DEF FSInv, Logic!IInv, Logic!LayoutInv, Logic!FilesTypeOK
    <3>2. f # g
      BY <2>1
    <3>3. QED
      BY <2>1, <3>1, <3>2
  <2>3. \A c \in Logic!Owned(f) : allocation_map[c]
    BY DEF FSInv, Logic!IInv, Logic!LayoutInv, Logic!AllocatedIffOwned
  <2>4. QED
    BY <2>1, <2>2, <2>3
<1>5. ASSUME NEW g \in File, Logic!DeleteStart(g)
      PROVE  /\ extents'[f] = extents[f]
             /\ \A c \in Logic!Owned(f) : storage'[c] = storage[c] /\ allocation_map'[c]
  <2>1. Logic!Next /\ UNCHANGED extents
    BY <1>5 DEF Logic!Next, Logic!Start, Logic!DeleteStart
  <2>2. QED
    BY <1>2, <2>1
<1>6. CASE DataCommand
  <2>1. PICK g \in Tree!EstablishedFiles :
          \/ \E data \in Data : Logic!AppendStart(g, data) \/ Logic!AppendRefused(g, data)
          \/ \E amount \in Amount :
               Logic!TruncateStart(g, amount) \/ Logic!TruncateRefused(g, amount)
          \/ Logic!DeleteStart(g)
    BY <1>6 DEF DataCommand
  <2>2. g \in File
    BY DEF Tree!EstablishedFiles
  <2>3. Logic!Next
    BY <2>1, <2>2 DEF Logic!Next, Logic!Start
  <2>4. extents'[f] = extents[f]
    <3>1. ASSUME NEW data \in Data, Logic!AppendStart(g, data)
          PROVE  extents'[f] = extents[f]
      <4>1. PICK k \in Logic!Index, start \in Logic!Chunk :
              /\ Logic!FileAllocateChunks(g, k, Logic!ChunksAmount(Len(data)), start)
              /\ call' = [op |-> "append", file |-> g, data |-> data, extent |-> k,
                          written |-> 0]
        BY <3>1 DEF Logic!AppendStart
      <4>2. g # f
        BY <4>1 DEF Busy, Logic!Idle
      <4>3. extents \in [File -> [allocated_size : Nat,
                                  data_chunk_extents : [Logic!Index -> Logic!ChunkExtent]]]
        BY DEF FSInv, Logic!IInv, Logic!LayoutInv, Logic!FilesTypeOK
      <4>4. QED
        BY <4>1, <4>2, <4>3 DEF Logic!FileAllocateChunks
    <3>2. ASSUME ~ \E data \in Data : Logic!AppendStart(g, data)
          PROVE  UNCHANGED extents
      BY <2>1, <3>2 DEF Logic!AppendRefused, Logic!TruncateStart, Logic!TruncateRefused,
                        Logic!Refuse, Logic!DeleteStart
    <3>3. QED
      BY <3>1, <3>2
  <2>5. QED
    BY <1>2, <2>3, <2>4
<1>7. CASE DataStep
  <2>1. Logic!Continue
    BY <1>7 DEF DataStep
  <2>2. extents'[f] = extents[f]
    BY <1>1, <2>1, CallKeepsToItsFile DEF FSInv
  <2>3. QED
    BY <1>2, <2>1, <2>2 DEF Logic!Next
<1>8. CASE RemoveFile \/ RemoveSubFile
  <2>1. PICK g : Unlink(g) /\ g \in File
    BY <1>8, TreeFacts DEF RemoveFile, RemoveSubFile, Tree!EstablishedFiles
  <2>2. QED
    BY <1>5, <2>1 DEF Unlink
<1>9. QED
  BY <1>3, <1>4, <1>6, <1>7, <1>8
     DEF Next, Command, Step, TreeCommand, ReturnSlot, RemovalGoesOn, vars

\* A rename does too, and a size it changes is that of the file in the slot behind.
LEMMA RenameKeepsData ==
  ASSUME FSInv, RenameFile, NEW f \in File
  PROVE  /\ extents'[f].data_chunk_extents = extents[f].data_chunk_extents
         /\ extents'[f].allocated_size # extents[f].allocated_size =>
              /\ Overrun(f)'
              /\ extents'[f].allocated_size = LowByteCleared(extents[f].allocated_size)
         /\ \A c \in Logic!Owned(f) : storage'[c] = storage[c] /\ allocation_map'[c]
<1>1. PICK g \in Tree!EstablishedFiles, n \in Name :
        /\ extents' = Terminated(g, n)
        /\ \/ extents' = extents
           \/ Tree!RenameFileOverrun(g, n)
  BY DEF RenameFile, Terminated, Tree!RenameFile
<1>2. \A c \in Logic!Owned(f) : storage'[c] = storage[c] /\ allocation_map'[c]
  <2>1. UNCHANGED <<allocation_map, storage>>
    BY DEF RenameFile
  <2>2. \A c \in Logic!Owned(f) : allocation_map[c]
    BY DEF FSInv, Logic!IInv, Logic!LayoutInv, Logic!AllocatedIffOwned
  <2>3. QED
    BY <2>1, <2>2
<1>3. CASE extents' = extents
  BY <1>2, <1>3
<1>4. CASE extents' # extents
  <2>1. /\ n \in LongName /\ SlotAfter[g] # NULL
        /\ extents' = [extents EXCEPT ![SlotAfter[g]].allocated_size = LowByteCleared(@)]
    BY <1>1, <1>4 DEF Terminated
  <2>2. /\ Logic!LayoutInv /\ g \in File /\ files_allocation_map[g] /\ SlotsOK
        /\ UNCHANGED <<allocation_map, free_chunk_count, storage>>
    BY DEF FSInv, Logic!IInv, Tree!EstablishedFiles, RenameFile
  <2>3. SlotAfter[g] \in File
    BY <2>1, <2>2, FileSystemAssumption
  <2>4. /\ extents'[f].data_chunk_extents = extents[f].data_chunk_extents
        /\ extents'[f].allocated_size =
             IF f = SlotAfter[g] THEN LowByteCleared(extents[f].allocated_size)
             ELSE extents[f].allocated_size
    BY <2>1, <2>2, <2>3, SizeWrittenOver
  <2>5. /\ answer' = "UNDEFINED" /\ UNCHANGED files_allocation_map
        /\ nodes' = [nodes EXCEPT ![g].name = n]
    BY <1>1, <1>4 DEF Tree!RenameFileOverrun
  <2>6. f = SlotAfter[g] => Overrun(f)'
    <3>1. nodes'[g].name = n
      BY <2>2, <2>5 DEF SlotsOK
    <3>2. g \in Tree!EstablishedFiles'
      BY <2>2, <2>5 DEF Tree!EstablishedFiles
    <3>3. QED
      BY <2>1, <2>5, <3>1, <3>2 DEF Overrun
  <2>7. QED
    BY <1>2, <2>4, <2>6
<1>5. QED
  BY <1>3, <1>4

\* Whatever happens to the tree, and to the data of other files, a file keeps its bytes
\* in the same chunks unless a call is on it (files.c:30, storage.c:97-114), and its
\* size but for the low byte, which a rename of the file before it can clear
\* (folders.c:290).
THEOREM FilesAlwaysKeepData == Spec => FilesKeepData
<1> DEFINE Kept ==
      \A f \in File :
        files_allocation_map[f] /\ ~Busy(f) /\ ~Busy(f)'
        => /\ extents'[f].data_chunk_extents = extents[f].data_chunk_extents
           /\ extents'[f].allocated_size # extents[f].allocated_size =>
                /\ Overrun(f)'
                /\ extents'[f].allocated_size = LowByteCleared(extents[f].allocated_size)
           /\ \A c \in Logic!Owned(f) : storage'[c] = storage[c] /\ allocation_map'[c]
<1>1. SystemInv /\ Next => Kept
  <2> SUFFICES ASSUME SystemInv, Next PROVE Kept
    OBVIOUS
  <2>1. FSInv
    BY DamageIsTheEnd DEF SystemInv
  <2>2. CASE RenameFile
    BY <2>1, <2>2, RenameKeepsData
  <2>3. CASE ~RenameFile
    BY <2>1, <2>3, FileKept
  <2>4. QED
    BY <2>2, <2>3
<1>2. SystemInv /\ [Next]_vars => [Kept]_vars
  BY <1>1
<1>3. QED
  BY <1>2, SystemInvariant, PTL DEF Spec, FilesKeepData

\* What is promised of the tree alone holds for it with data and unfinished deletions
\* underneath: links that agree as long as no rename wrote over a parent, and no folder
\* cut off, ever (folders.c:219-260).
THEOREM TreeAlwaysConnected == Spec => [](Abstract!LinksAgree /\ Tree!NoOrphans)
<1>1. SystemInv => Abstract!LinksAgree
  <2>1. FSInv => Abstract!BothEndsAgree
    BY SameTree DEF FSInv, TreeProofs!IInv, TreeProofs!TreeInv
  <2>2. FSDamaged => ~Abstract!Defined
    BY DEF FSDamaged, Abstract!Defined, AbstractAnswer
  <2>3. QED
    BY <2>1, <2>2 DEF SystemInv, Abstract!LinksAgree
<1>2. SystemInv => Tree!NoOrphans
  <2>1. SystemInv => TreeProofs!NoOrphans
    BY DEF SystemInv, FSInv, FSDamaged, TreeProofs!IInv, TreeProofs!TreeInv,
           TreeProofs!Damaged
  <2>2. QED
    BY <2>1 DEF TreeProofs!NoOrphans, Tree!NoOrphans, TreeProofs!EstablishedFolders,
         Tree!EstablishedFolders, TreeProofs!Subtree, Tree!Subtree, TreeProofs!Node,
         Tree!Node, TreeProofs!Established, Tree!Established
<1>3. QED
  BY <1>1, <1>2, SystemInvariant, PTL
=============================================================================
