------------------------------ MODULE FileSystem ------------------------------
(***************************************************************************)
(* The tree of EntryStore and the file data of FileLogic in one system.    *)
(* Each module keeps to its own variables; what joins them is here: a file *)
(* slot is a node of the tree and an array of extents at once              *)
(* (struct File), creating a file forgets the extents its slot had, and    *)
(* deleting one unlinks it, then runs the loop of file_delete_data to its  *)
(* end, and only then gives the slot back. One such deletion can be a step *)
(* in the removal of a tree. And the slots lie side by side: a rename can   *)
(* write into the one behind.                                              *)
(***************************************************************************)
EXTENDS Integers, FiniteSets, Sequences

CONSTANTS
  CHUNKS_AMOUNT, CHUNK_SIZE, Byte, EOC_OPERATOR, Uninitialised,
  MAX_FILE_CHUNK_EXTENTS_AMOUNT, Data, Amount,
  Folder, File, ROOT, NULL, Name, ROOT_NAME, InvalidName, LongName,
  MAX_SUB_FILES_AMOUNT, MAX_SUB_FOLDERS_AMOUNT, MAX_PATH_NODES_AMOUNT,
  SlotAfter   \* the file slot behind each in the array, NULL behind the last

\* What FileLogic and EntryStore assume, for the constants of both.
ASSUME FileSystemAssumption ==
  /\ CHUNKS_AMOUNT \in Nat \ {0} /\ CHUNK_SIZE \in Nat \ {0}
  /\ EOC_OPERATOR \in Byte /\ Uninitialised \notin Byte
  /\ MAX_FILE_CHUNK_EXTENTS_AMOUNT \in Nat \ {0}
  /\ Data \subseteq Seq(Byte) /\ Amount \subseteq Nat
  /\ IsFiniteSet(Folder) /\ IsFiniteSet(File)
  /\ ROOT \notin Folder /\ NULL \notin Folder \cup File \cup {ROOT} \cup Name
  /\ (Folder \cup {ROOT}) \cap File = {}
  /\ ROOT_NAME \in Name /\ InvalidName \subseteq Name /\ LongName \subseteq Name
  /\ MAX_SUB_FILES_AMOUNT \in Nat \ {0} /\ MAX_SUB_FOLDERS_AMOUNT \in Nat \ {0}
  /\ MAX_PATH_NODES_AMOUNT \in Nat \ {0}
  /\ SlotAfter \in [File -> File \cup {NULL}]

VARIABLES
  folders_allocation_map, files_allocation_map, folders, removal,
  nodes,      \* the parent and the name of every file
  answer,     \* how the last command ended, or "RUNNING"; "UNDEFINED" as in EntryStore
  allocation_map, free_chunk_count, storage, call, status,
  extents     \* the allocated_size and the extents of every file

nodeVars == <<folders_allocation_map, files_allocation_map, folders, removal, nodes>>
dataVars == <<allocation_map, free_chunk_count, storage, call, status, extents>>
vars == <<nodeVars, answer, dataVars>>

Logic == INSTANCE FileLogic WITH files <- extents

\* The files whose slots hold extents.
Stored == {f \in File : Logic!Occupied(f, 0)}

Tree == INSTANCE EntryStore WITH files <- nodes, stored <- Stored, status <- answer

\* The file delete_vfs_file is in the middle of: unlinked, its slot still taken.
Deleting == {f \in File : files_allocation_map[f] /\ nodes[f].parent_folder = NULL}

\* No loop of file_logic.c runs, and no deletion is unfinished.
Quiet == call = Logic!Idle /\ Deleting = {}

\* The command loop reads the next command. The model ends where EntryStore's does.
Ready == Quiet /\ ~Tree!Running /\ Tree!Defined

Init ==
  /\ Logic!Init
  /\ folders_allocation_map = [d \in Folder |-> FALSE]
  /\ files_allocation_map = [f \in File |-> FALSE]
  /\ folders = [d \in Tree!Node |->
                  [Tree!FreeFolder EXCEPT !.name = IF d = ROOT THEN ROOT_NAME ELSE @]]
  /\ nodes = [f \in File |-> Tree!FreeFile]
  /\ removal = <<>>
  /\ answer = "SUCCESS"

-----------------------------------------------------------------------------
(* Commands that leave the data alone *)

\* What file_init makes of the extents of a slot.
NoExtents == [allocated_size |-> 0,
              data_chunk_extents |-> [i \in Logic!Index |-> Logic!EmptyExtent]]

CreateFile(parent, name) ==
  \E f \in File :
    /\ ~files_allocation_map[f]
    /\ extents' = [extents EXCEPT ![f] = NoExtents]
    /\ UNCHANGED <<allocation_map, free_chunk_count, storage, call, status>>
    /\ Tree!CreateFile(parent, name)
    /\ files_allocation_map'[f]

TreeCommand ==
  /\ Ready
  /\ UNCHANGED dataVars
  /\ \/ \E parent \in Tree!Node, name \in Name : Tree!CreateFolder(parent, name)
     \/ \E d \in Tree!EstablishedFolders, name \in Name : Tree!RenameFolder(d, name)
     \/ \E f \in Tree!EstablishedFiles, d \in Tree!EstablishedFolders : Tree!MoveFile(f, d)
     \/ \E d, e \in Tree!EstablishedFolders : Tree!MoveFolder(d, e)
     \/ \E d \in Tree!EstablishedFolders : Tree!RemoveFolder(d) \/ Tree!RemoveTree(d)
     \/ Tree!Refused

-----------------------------------------------------------------------------
(* Renaming a file *)

LowByteCleared(size) == size - (size % 256)

\* The terminator of a LongName makes the low byte of the size in the next slot zero.
Terminated(f, name) ==
  IF name \in LongName /\ SlotAfter[f] # NULL
  THEN [extents EXCEPT ![SlotAfter[f]].allocated_size = LowByteCleared(@)]
  ELSE extents

\* Behind the last file lie the folders.
RenameFile ==
  /\ Ready
  /\ \E f \in Tree!EstablishedFiles, name \in Name :
       /\ extents' = Terminated(f, name)
       /\ Tree!RenameFile(f, name) \/ Tree!RenameFileOverrun(f, name)
       /\ SlotAfter[f] # NULL => UNCHANGED folders
  /\ UNCHANGED <<allocation_map, free_chunk_count, storage, call, status>>

-----------------------------------------------------------------------------
(* Commands on the data of a file *)

DataCommand ==
  /\ Ready
  /\ \E f \in Tree!EstablishedFiles :
       \/ /\ \/ \E data \in Data : Logic!AppendStart(f, data)
             \/ \E amount \in Amount : Logic!TruncateStart(f, amount)
             \/ Logic!DeleteStart(f)
          /\ answer' = "RUNNING"
       \/ /\ \/ \E data \in Data : Logic!AppendRefused(f, data)
             \/ \E amount \in Amount : Logic!TruncateRefused(f, amount)
          /\ answer' = "FAILURE"
  /\ UNCHANGED nodeVars

\* The loop of file_logic.c that runs goes on. Inside delete_vfs_file its return
\* is not the end of the command.
DataStep ==
  /\ Logic!Continue
  /\ answer' = IF call' # Logic!Idle \/ Deleting # {} THEN answer
               ELSE IF status' = "SUCCESS" THEN "SUCCESS" ELSE "FAILURE"
  /\ UNCHANGED nodeVars

-----------------------------------------------------------------------------
(* delete_vfs_file *)

\* Faulty variant: the parent goes on listing the file.
UnlinkHalf(f) ==
  /\ Tree!Established(nodes[f].parent_folder)
  /\ Tree!FileListed(f)
  /\ Logic!DeleteStart(f)
  /\ nodes' = [nodes EXCEPT ![f].parent_folder = NULL]
  /\ UNCHANGED <<folders, folders_allocation_map, files_allocation_map, removal>>

\* The file is unlinked, and file_delete_data begins.
Unlink(f) ==
  /\ Tree!Established(nodes[f].parent_folder)
  /\ Tree!FileListed(f)
  /\ Logic!DeleteStart(f)
  /\ folders' = Tree!WithoutFile(f)
  /\ nodes' = [nodes EXCEPT ![f].parent_folder = NULL]
  /\ UNCHANGED <<folders_allocation_map, files_allocation_map, removal>>

RemoveFile ==
  /\ Ready
  /\ \E f \in Tree!EstablishedFiles : Unlink(f)
  /\ answer' = "RUNNING"

\* Faulty variant: the slot is given back before the data is gone.
ReturnSlotEarly ==
  /\ \E f \in Deleting :
       /\ files_allocation_map' = [files_allocation_map EXCEPT ![f] = FALSE]
       /\ nodes' = [nodes EXCEPT ![f] = Tree!FreeFile]
  /\ answer' = IF Tree!Running THEN answer ELSE "SUCCESS"
  /\ UNCHANGED <<folders_allocation_map, folders, removal, dataVars>>

\* file_delete_data has returned, and the slot is given back.
ReturnSlot ==
  /\ call = Logic!Idle
  /\ \E f \in Deleting :
       /\ files_allocation_map' = [files_allocation_map EXCEPT ![f] = FALSE]
       /\ nodes' = [nodes EXCEPT ![f] = Tree!FreeFile]
  /\ answer' = IF Tree!Running THEN answer ELSE "SUCCESS"
  /\ UNCHANGED <<folders_allocation_map, folders, removal, dataVars>>

-----------------------------------------------------------------------------
(* delete_children_recursive *)

RemoveSubFile ==
  /\ Quiet /\ Tree!Running
  /\ \E f \in folders[Tree!Inside].sub_files : Unlink(f)
  /\ UNCHANGED answer

RemovalGoesOn ==
  /\ Quiet
  /\ UNCHANGED dataVars
  /\ \/ Tree!RemoveSubFolder
     \/ Tree!RemovalTooDeep
     \/ Tree!RemoveInside
     \/ Tree!RemovalOfRoot

-----------------------------------------------------------------------------
Command ==
  \/ Ready /\ \E parent \in Tree!Node, name \in Name : CreateFile(parent, name)
  \/ TreeCommand
  \/ RenameFile
  \/ DataCommand
  \/ RemoveFile

\* What the program does once it was given a command.
Step == DataStep \/ ReturnSlot \/ RemoveSubFile \/ RemovalGoesOn

Next == Command \/ Step

\* A command that was given is carried on with: there is one thread, and it waits
\* for nothing before it reads the next command.
Spec == Init /\ [][Next]_vars /\ WF_vars(Step)

-----------------------------------------------------------------------------
(* Properties *)

\* Seen from the tree a deletion is done as soon as the file is unlinked, and a
\* command on data has the answer it is going to get.
AbstractMap == [f \in File |-> files_allocation_map[f] /\ f \notin Deleting]
AbstractNodes == [f \in File |-> IF f \in Deleting THEN Tree!FreeFile ELSE nodes[f]]
AbstractStored == Stored \ Deleting
AbstractAnswer == IF answer = "RUNNING" /\ removal = <<>> THEN "SUCCESS" ELSE answer

Abstract == INSTANCE EntryStore WITH
  files_allocation_map <- AbstractMap,
  files <- AbstractNodes,
  stored <- AbstractStored,
  status <- AbstractAnswer

\* EntryStore takes it that deleting a file is one step, that a deletion leaves no
\* chunk behind, and that only commands on its data change whether a file holds
\* any. The loops over extents that run underneath, inside the removal of a tree
\* too, keep all of that: nothing is seen of the states between.
ImplementsEntryStore == Abstract!TreeInit /\ [][Abstract!TreeNext]_(Abstract!entries)

\* A chunk that is allocated belongs to a file in use, one that is just being
\* deleted included. Were a slot given back, or taken again, with extents in it,
\* its chunks would be lost for good (vfs_entry_store.c:351-358, files.c:30).
NoLostChunk ==
  \A c \in Logic!Chunk : allocation_map[c] =>
    \E f \in File : files_allocation_map[f] /\ c \in Logic!Owned(f)

\* A loop of file_logic.c runs for f.
Busy(f) == call # Logic!Idle /\ call.file = f

\* The last command was a rename that wrote into the slot of f.
Overrun(f) ==
  /\ answer = "UNDEFINED"
  /\ \E g \in Tree!EstablishedFiles : nodes[g].name \in LongName /\ SlotAfter[g] = f

\* Whatever happens to the tree, a file keeps its bytes, in the same chunks, unless
\* the command is on its own data or deletes it: a creation in the slot beside it,
\* moves, renames and the removal of the folders around it included. Its size is kept
\* as well, but for the low byte when the slot before gets a name that is too long
\* (folders.c:290).
FilesKeepData ==
  [][\A f \in File :
       files_allocation_map[f] /\ ~Busy(f) /\ ~Busy(f)'
       => /\ extents'[f].data_chunk_extents = extents[f].data_chunk_extents
          /\ extents'[f].allocated_size # extents[f].allocated_size =>
               /\ Overrun(f)'
               /\ extents'[f].allocated_size = LowByteCleared(extents[f].allocated_size)
          /\ \A c \in Logic!Owned(f) : storage'[c] = storage[c] /\ allocation_map'[c]]_vars

\* Every command comes to an end, the nested loops of a removal over files with
\* data included.
CommandsReturn == answer = "RUNNING" ~> answer # "RUNNING"

\* A file's size is "tracked at allocation and deallocation" (files.h:23), so it is the
\* number of chunks the file has, whatever is done to the tree: a name is "null
\* terminated" in its field (files.h:28), for "entry.name is of size
\* MAX_NAME_LENGTH + 1" (folders.c:288).
SizesTracked == Logic!SizeExact
=============================================================================
