------------------------------ MODULE EntryStore ------------------------------
(***************************************************************************)
(* The folder tree: the fixed pools of files and folders of                *)
(* src/system/vfs_entry_store.c, the links of folders.c between them, and  *)
(* the moves and renames of entry_relocation.c.                            *)
(*                                                                         *)
(* The operations take the entries their callers have already found by     *)
(* path (Workspace models that). Every one is a single step but the        *)
(* removal of a whole tree, which recurses over the links it is taking     *)
(* apart and can fail half way: there each deletion and each call of the   *)
(* recursion is a step.                                                    *)
(***************************************************************************)
EXTENDS Integers, FiniteSets, Sequences

CONSTANTS
  Folder,                   \* the folder slots of the entry store
  File,                     \* its file slots
  ROOT,                     \* the root folder, kept outside the slots
  NULL,
  Name,                     \* the names users give
  ROOT_NAME,                \* "root", which nothing else may be called
  InvalidName,              \* empty, too long, or holding a '/'
  LongName,                 \* names of exactly MAX_NAME_LENGTH characters
  MAX_SUB_FILES_AMOUNT,     \* files in a folder (10)
  MAX_SUB_FOLDERS_AMOUNT,   \* folders in a folder (10)
  MAX_PATH_NODES_AMOUNT     \* names in a path (10)

ASSUME EntryStoreAssumption ==
  /\ IsFiniteSet(Folder) /\ IsFiniteSet(File)
  /\ ROOT \notin Folder /\ NULL \notin Folder \cup File \cup {ROOT} \cup Name
  /\ (Folder \cup {ROOT}) \cap File = {}
  /\ ROOT_NAME \in Name /\ InvalidName \subseteq Name /\ LongName \subseteq Name
  /\ MAX_SUB_FILES_AMOUNT \in Nat \ {0} /\ MAX_SUB_FOLDERS_AMOUNT \in Nat \ {0}
  /\ MAX_PATH_NODES_AMOUNT \in Nat \ {0}

MAX_FOLDER_DEPTH == MAX_PATH_NODES_AMOUNT

VARIABLES
  folders_allocation_map,   \* which folder slots are taken
  files_allocation_map,     \* which file slots are taken
  folders,                  \* parent, name and sub entries of every folder
  files,                    \* parent and name of every file
  stored,                   \* the files whose extents hold chunks of storage
  removal,                  \* the folders delete_children_recursive is inside of
  status                    \* how the last operation ended; "UNDEFINED" once it has
                            \* written behind an array

\* The tree itself, and with it what the last operation answered.
entries == <<folders_allocation_map, files_allocation_map, folders, files, stored, removal>>
treeVars == <<entries, status>>

Node == Folder \cup {ROOT}
NullableNode == Node \cup {NULL}
NullableName == Name \cup {NULL}

\* Nothing was written behind an array so far. The model ends with the write.
Defined == status # "UNDEFINED"

TypeOK ==
  /\ folders_allocation_map \in [Folder -> BOOLEAN]
  /\ files_allocation_map \in [File -> BOOLEAN]
  /\ folders \in [Node -> [parent_folder : NullableNode, name : NullableName,
                           sub_files : SUBSET File, sub_folders : SUBSET Folder]]
  /\ files \in [File -> [parent_folder : NullableNode, name : NullableName]]
  /\ \A d \in Node : /\ Cardinality(folders[d].sub_files) <= MAX_SUB_FILES_AMOUNT
                     /\ Cardinality(folders[d].sub_folders) <= MAX_SUB_FOLDERS_AMOUNT
  /\ stored \subseteq File
  /\ removal \in Seq(Node)
  /\ status \in {"SUCCESS", "FAILURE", "RUNNING", "UNDEFINED"}

\* What a free slot holds is never read; the model keeps it at these values.
FreeFile == [parent_folder |-> NULL, name |-> NULL]
FreeFolder == [parent_folder |-> NULL, name |-> NULL, sub_files |-> {}, sub_folders |-> {}]

\* vfs_entry_store_init and root_folder_init.
TreeInit ==
  /\ folders_allocation_map = [d \in Folder |-> FALSE]
  /\ files_allocation_map = [f \in File |-> FALSE]
  /\ folders = [d \in Node |-> IF d = ROOT THEN [FreeFolder EXCEPT !.name = ROOT_NAME]
                               ELSE FreeFolder]
  /\ files = [f \in File |-> FreeFile]
  /\ stored = {}
  /\ removal = <<>>
  /\ status = "SUCCESS"

-----------------------------------------------------------------------------
(* Looking at the tree *)

\* validate_vfs_folder: the root, or a folder whose slot is taken.
Established(d) == d = ROOT \/ (d \in Folder /\ folders_allocation_map[d])

EstablishedFolders == {d \in Node : Established(d)}
EstablishedFiles == {f \in File : files_allocation_map[f]}

\* Faulty variant: only the files of the folder are looked at.
SubFileNames(d) == {files[f].name : f \in folders[d].sub_files}

SubEntryNames(d) ==
  {files[f].name : f \in folders[d].sub_files} \cup
  {folders[e].name : e \in folders[d].sub_folders}

\* validate_sub_entry_name
NameAvailable(parent, name) ==
  /\ name \notin InvalidName \cup {ROOT_NAME}
  /\ name \notin SubEntryNames(parent)

\* Faulty variant: only the first loop looks for entries.
HasSubFiles(d) == folders[d].sub_files # {}

HasSubEntries(d) == folders[d].sub_files # {} \/ folders[d].sub_folders # {}

\* Faulty variant: one file too many fits.
RoomForOneMoreFile(d) == Cardinality(folders[d].sub_files) <= MAX_SUB_FILES_AMOUNT

\* get_available_sub_file_position, get_available_sub_folder_position
RoomForFile(d) == Cardinality(folders[d].sub_files) < MAX_SUB_FILES_AMOUNT
RoomForFolder(d) == Cardinality(folders[d].sub_folders) < MAX_SUB_FOLDERS_AMOUNT

\* find_sub_file_index, find_sub_folder_index: the parent lists the entry.
FileListed(f) == f \in folders[files[f].parent_folder].sub_files
FolderListed(d) == d \in folders[folders[d].parent_folder].sub_folders

\* d and everything below it: the least set with d that is closed under links.
Subtree(d) ==
  {e \in Node : \A S \in SUBSET Node :
     (d \in S /\ \A x \in S : folders[x].sub_folders \subseteq S) => e \in S}

\* Some chain of length links leads down from d.
HasChain(d, length) ==
  \E p \in [0 .. length -> Folder \cup {d}] :
    /\ p[0] = d
    /\ \A i \in 1 .. length : p[i] \in folders[p[i - 1]].sub_folders

\* Faulty variant: the search does not descend.
CyclicMoveToItselfExcluded(new_parent, folder) == new_parent # folder

\* validate_no_cyclic_move searches folder and below for new_parent, and gives
\* up with an error as soon as it is MAX_FOLDER_DEPTH links down.
CyclicMoveExcluded(new_parent, folder) ==
  /\ new_parent \notin Subtree(folder)
  /\ ~HasChain(folder, MAX_FOLDER_DEPTH)

-----------------------------------------------------------------------------
(* Links *)

\* Faulty variant: the parent goes on listing the file.
WithFile(f) == folders

\* unlink_sub_file, unlink_sub_folder: both ends of the link are cleared.
WithoutFile(f) ==
  [folders EXCEPT ![files[f].parent_folder].sub_files = @ \ {f}]

WithoutFolder(d) ==
  [folders EXCEPT ![folders[d].parent_folder].sub_folders = @ \ {d},
                  ![d].parent_folder = NULL]

\* Faulty variant: the chunks are not released.
DeleteVfsFileOnly(f) ==
  /\ Established(files[f].parent_folder)
  /\ FileListed(f)
  /\ folders' = WithoutFile(f)
  /\ files' = [files EXCEPT ![f] = FreeFile]
  /\ files_allocation_map' = [files_allocation_map EXCEPT ![f] = FALSE]
  /\ UNCHANGED <<folders_allocation_map, stored>>

\* delete_vfs_file: unlinked, its chunks released by file_delete_data, and
\* only then its slot given back.
DeleteVfsFile(f) ==
  /\ Established(files[f].parent_folder)
  /\ FileListed(f)
  /\ folders' = WithoutFile(f)
  /\ files' = [files EXCEPT ![f] = FreeFile]
  /\ stored' = stored \ {f}
  /\ files_allocation_map' = [files_allocation_map EXCEPT ![f] = FALSE]
  /\ UNCHANGED folders_allocation_map

\* delete_flat_folder: d has no sub entries and is not the root.
DeleteFlatFolder(d) ==
  /\ d # ROOT
  /\ ~HasSubEntries(d)
  /\ FolderListed(d)
  /\ folders' = [WithoutFolder(d) EXCEPT ![d].name = NULL]
  /\ folders_allocation_map' = [folders_allocation_map EXCEPT ![d] = FALSE]
  /\ UNCHANGED <<files, files_allocation_map, stored>>

-----------------------------------------------------------------------------
(* Creating *)

\* Faulty variant: the parent is not validated.
CanCreateFileAnywhere(parent, name) ==
  /\ \E f \in File : ~files_allocation_map[f]
  /\ name \notin LongName
  /\ NameAvailable(parent, name)
  /\ RoomForFile(parent)

\* vfs_sub_file_init, whose file_init leaves no room for a LongName.
CanCreateFile(parent, name) ==
  /\ Established(parent)
  /\ \E f \in File : ~files_allocation_map[f]
  /\ name \notin LongName
  /\ NameAvailable(parent, name)
  /\ RoomForFile(parent)

\* A free slot is taken (the lowest; nothing here depends on which). file_init
\* forgets whatever extents the slot still had.
CreateFile(parent, name) ==
  /\ CanCreateFile(parent, name)
  /\ \E f \in File :
       /\ ~files_allocation_map[f]
       /\ files_allocation_map' = [files_allocation_map EXCEPT ![f] = TRUE]
       /\ files' = [files EXCEPT ![f] = [parent_folder |-> parent, name |-> name]]
       /\ folders' = [folders EXCEPT ![parent].sub_files = @ \cup {f}]
       /\ stored' = stored \ {f}
  /\ status' = "SUCCESS"
  /\ UNCHANGED <<folders_allocation_map, removal>>

\* Faulty variant: the parent is not validated.
CanCreateFolderAnywhere(parent, name) ==
  /\ \E d \in Folder : ~folders_allocation_map[d]
  /\ NameAvailable(parent, name)
  /\ RoomForFolder(parent)

\* vfs_sub_folder_init
CanCreateFolder(parent, name) ==
  /\ Established(parent)
  /\ \E d \in Folder : ~folders_allocation_map[d]
  /\ NameAvailable(parent, name)
  /\ RoomForFolder(parent)

CreateFolder(parent, name) ==
  /\ CanCreateFolder(parent, name)
  /\ \E d \in Folder :
       /\ ~folders_allocation_map[d]
       /\ folders_allocation_map' = [folders_allocation_map EXCEPT ![d] = TRUE]
       /\ folders' = [folders EXCEPT
            ![d] = [parent_folder |-> parent, name |-> name,
                    sub_files |-> {}, sub_folders |-> {}],
            ![parent].sub_folders = @ \cup {d}]
  /\ status' = "SUCCESS"
  /\ UNCHANGED <<files_allocation_map, files, stored, removal>>

-----------------------------------------------------------------------------
(* Renaming and moving *)

\* rename_file, with a name that File.name has room for.
RenameFile(f, name) ==
  /\ name \notin LongName
  /\ NameAvailable(files[f].parent_folder, name)
  /\ files' = [files EXCEPT ![f].name = name]
  /\ status' = "SUCCESS"
  /\ UNCHANGED <<folders_allocation_map, files_allocation_map, folders, stored, removal>>

\* rename_file does not ask for that room: set_entry_name writes a LongName's terminator
\* one character behind File.name, which ends the struct. It is the low byte of the size
\* of the file in the next slot, which is not part of the tree, or behind the last file
\* that of the first folder's parent. The slots have no order here, so this is any
\* folder, and the address left may be any folder's or, for NULL, nobody's.
RenameFileOverrun(f, name) ==
  /\ name \in LongName
  /\ NameAvailable(files[f].parent_folder, name)
  /\ files' = [files EXCEPT ![f].name = name]
  /\ \/ UNCHANGED folders
     \/ \E d \in Folder, address \in NullableNode :
          /\ folders_allocation_map[d]
          /\ folders' = [folders EXCEPT ![d].parent_folder = address]
  /\ status' = "UNDEFINED"
  /\ UNCHANGED <<folders_allocation_map, files_allocation_map, stored, removal>>

CanRenameFolder(d, name) == d # ROOT /\ NameAvailable(folders[d].parent_folder, name)

RenameFolder(d, name) ==
  /\ CanRenameFolder(d, name)
  /\ folders' = [folders EXCEPT ![d].name = name]
  /\ status' = "SUCCESS"
  /\ UNCHANGED <<folders_allocation_map, files_allocation_map, files, stored, removal>>

CanMoveFile(f, new_parent) ==
  /\ NameAvailable(new_parent, files[f].name)
  /\ RoomForFile(new_parent)
  /\ FileListed(f)

MoveFile(f, new_parent) ==
  /\ CanMoveFile(f, new_parent)
  /\ folders' = [WithoutFile(f) EXCEPT ![new_parent].sub_files = @ \cup {f}]
  /\ files' = [files EXCEPT ![f].parent_folder = new_parent]
  /\ status' = "SUCCESS"
  /\ UNCHANGED <<folders_allocation_map, files_allocation_map, stored, removal>>

\* The root is refused by its name, which is never available.
CanMoveFolder(d, new_parent) ==
  /\ NameAvailable(new_parent, folders[d].name)
  /\ CyclicMoveExcluded(new_parent, d)
  /\ RoomForFolder(new_parent)
  /\ FolderListed(d)

MoveFolder(d, new_parent) ==
  /\ CanMoveFolder(d, new_parent)
  /\ folders' = [WithoutFolder(d) EXCEPT ![new_parent].sub_folders = @ \cup {d},
                                         ![d].parent_folder = new_parent]
  /\ status' = "SUCCESS"
  /\ UNCHANGED <<folders_allocation_map, files_allocation_map, files, stored, removal>>

-----------------------------------------------------------------------------
(* File data, seen from the tree: FileLogic is the detail. *)

\* file_append of some bytes.
StoreData(f) ==
  /\ stored' = stored \cup {f}
  /\ status' = "SUCCESS"
  /\ UNCHANGED <<folders_allocation_map, files_allocation_map, folders, files, removal>>

\* file_delete_data, or a truncation that leaves no chunk.
ClearData(f) ==
  /\ stored' = stored \ {f}
  /\ status' = "SUCCESS"
  /\ UNCHANGED <<folders_allocation_map, files_allocation_map, folders, files, removal>>

-----------------------------------------------------------------------------
(* Removing *)

RemoveFile(f) ==
  /\ DeleteVfsFile(f)
  /\ status' = "SUCCESS"
  /\ UNCHANGED removal

\* delete_vfs_folder: without force only a folder that has no sub entries.
CanRemoveFolder(d) == d # ROOT /\ ~HasSubEntries(d)

RemoveFolder(d) ==
  /\ CanRemoveFolder(d)
  /\ DeleteFlatFolder(d)
  /\ status' = "SUCCESS"
  /\ UNCHANGED removal

\* delete_vfs_folder with force, on a folder that has sub entries.
RemoveTree(d) ==
  /\ HasSubEntries(d)
  /\ removal' = <<d>>
  /\ status' = "RUNNING"
  /\ UNCHANGED <<folders_allocation_map, files_allocation_map, folders, files, stored>>

\* delete_children_recursive is in the call for this folder.
Inside == removal[Len(removal)]

Running == removal # <<>>

\* Faulty variant: the loop goes on into the files of the parent.
RemoveSubFileAndBeyond ==
  /\ Running
  /\ \E d \in {Inside, folders[Inside].parent_folder} \cap Node :
       \E f \in folders[d].sub_files : DeleteVfsFile(f)
  /\ UNCHANGED <<removal, status>>

\* The first loop: the files go.
RemoveSubFile ==
  /\ Running
  /\ \E f \in folders[Inside].sub_files : DeleteVfsFile(f)
  /\ UNCHANGED <<removal, status>>

\* The second loop: a call for each sub folder, while the limit allows it.
RemoveSubFolder ==
  /\ Running
  /\ folders[Inside].sub_files = {}
  /\ Len(removal) <= MAX_FOLDER_DEPTH
  /\ \E d \in folders[Inside].sub_folders : removal' = Append(removal, d)
  /\ UNCHANGED <<folders_allocation_map, files_allocation_map, folders, files, stored, status>>

\* Faulty variant: the status of the inner calls is dropped.
RemovalTooDeepUnreported ==
  /\ Running
  /\ folders[Inside].sub_files = {}
  /\ folders[Inside].sub_folders # {}
  /\ Len(removal) > MAX_FOLDER_DEPTH
  /\ removal' = <<>>
  /\ status' = "SUCCESS"
  /\ UNCHANGED <<folders_allocation_map, files_allocation_map, folders, files, stored>>

\* RECURSIVE_OPERATION_LIMIT_EXCEEDED: every call returns, and what was deleted
\* stays deleted.
RemovalTooDeep ==
  /\ Running
  /\ folders[Inside].sub_files = {}
  /\ folders[Inside].sub_folders # {}
  /\ Len(removal) > MAX_FOLDER_DEPTH
  /\ removal' = <<>>
  /\ status' = "FAILURE"
  /\ UNCHANGED <<folders_allocation_map, files_allocation_map, folders, files, stored>>

\* Faulty variant: the call does not return.
RemoveInsideAndStay ==
  /\ Running
  /\ DeleteFlatFolder(Inside)
  /\ UNCHANGED <<removal, status>>

\* The folder has become flat: it goes, and its call returns.
RemoveInside ==
  /\ Running
  /\ DeleteFlatFolder(Inside)
  /\ removal' = SubSeq(removal, 1, Len(removal) - 1)
  /\ status' = IF Len(removal) = 1 THEN "SUCCESS" ELSE status

\* The root was emptied, and then cannot be unlinked: INVALID_ROOT_OPERATION.
RemovalOfRoot ==
  /\ Running
  /\ Inside = ROOT
  /\ ~HasSubEntries(ROOT)
  /\ removal' = <<>>
  /\ status' = "FAILURE"
  /\ UNCHANGED <<folders_allocation_map, files_allocation_map, folders, files, stored>>

RemovalStep ==
  \/ RemoveSubFile
  \/ RemoveSubFolder
  \/ RemovalTooDeep
  \/ RemoveInside
  \/ RemovalOfRoot

-----------------------------------------------------------------------------
(* The entry store in use *)

Refuse ==
  /\ status' = "FAILURE"
  /\ UNCHANGED entries

\* An error answer: a check failed before anything was changed.
Refused ==
  /\ \/ \E parent \in Node, name \in Name :
          ~CanCreateFile(parent, name) \/ ~CanCreateFolder(parent, name)
     \/ \E f \in EstablishedFiles, name \in Name : ~NameAvailable(files[f].parent_folder, name)
     \/ \E d \in EstablishedFolders, name \in Name : ~CanRenameFolder(d, name)
     \/ \E f \in EstablishedFiles, d \in EstablishedFolders : ~CanMoveFile(f, d)
     \/ \E d, e \in EstablishedFolders : ~CanMoveFolder(d, e)
     \/ \E d \in EstablishedFolders : ~CanRemoveFolder(d)
  /\ Refuse

\* The current folder in which entries are created can be any folder slot,
\* taken or free; the other operations get entries found in the tree.
Operation ==
  /\ ~Running /\ Defined
  /\ \/ \E parent \in Node, name \in Name : CreateFile(parent, name) \/ CreateFolder(parent, name)
     \/ \E f \in EstablishedFiles, name \in Name :
          RenameFile(f, name) \/ RenameFileOverrun(f, name)
     \/ \E d \in EstablishedFolders, name \in Name : RenameFolder(d, name)
     \/ \E f \in EstablishedFiles, d \in EstablishedFolders : MoveFile(f, d)
     \/ \E d, e \in EstablishedFolders : MoveFolder(d, e)
     \/ \E f \in EstablishedFiles : StoreData(f) \/ ClearData(f) \/ RemoveFile(f)
     \/ \E d \in EstablishedFolders : RemoveFolder(d) \/ RemoveTree(d)
     \/ Refused

TreeNext == Operation \/ RemovalStep

\* A removal that was started runs on: the program has one thread and waits
\* for nothing inside it. Nobody has to start an operation.
TreeSpec == TreeInit /\ [][TreeNext]_treeVars /\ WF_treeVars(RemovalStep)

-----------------------------------------------------------------------------
(* Properties *)

FolderLinksAgree ==
  /\ \A d \in Folder, p \in Node :
       d \in folders[p].sub_folders <=>
         folders_allocation_map[d] /\ Established(p) /\ folders[d].parent_folder = p
  /\ \A d \in Folder : folders_allocation_map[d] => Established(folders[d].parent_folder)

FileLinksAgree ==
  /\ \A f \in File, p \in Node :
       f \in folders[p].sub_files <=>
         files_allocation_map[f] /\ Established(p) /\ files[f].parent_folder = p
  /\ \A f \in File : files_allocation_map[f] => Established(files[f].parent_folder)

BothEndsAgree == FolderLinksAgree /\ FileLinksAgree

\* A link has two ends that agree, and both are taken slots, as long as no rename wrote
\* over a parent (folders.c:290): "an established VFS
\* entry store folder is guaranteed to only have established children"
\* (vfs_entry_store.h:15), and deletion and moves find an entry again through
\* its parent (folders.c:219-260).
LinksAgree == Defined => BothEndsAgree

\* Two entries of a folder never have the same name, even when one is a file and
\* one a folder and whatever moves and renames came before: get_vfs_node
\* (queries.c:195) takes it for granted.
NamesUnique ==
  \A p \in EstablishedFolders :
    /\ \A e, g \in folders[p].sub_folders : folders[e].name = folders[g].name => e = g
    /\ \A e, g \in folders[p].sub_files : files[e].name = files[g].name => e = g
    /\ \A e \in folders[p].sub_folders, g \in folders[p].sub_files :
         folders[e].name # files[g].name

\* Every taken folder slot can still be reached from the root: no move cuts off a
\* cycle and no removal, complete or not, loses a subtree
\* (entry_relocation.c:161, vfs_entry_store.c:255).
NoOrphans == EstablishedFolders \subseteq Subtree(ROOT)

\* Only files in use hold chunks: a file that is gone leaves nothing allocated
\* behind in its slot, where file_init would forget it (files.c:30).
NoOrphanData == stored \subseteq EstablishedFiles

\* While a tree is removed, no call of the recursion is in a folder that is
\* already freed, and each is in a sub folder of its caller's
\* (vfs_entry_store.c:297-317 goes on using cur_folder after the inner call).
CallsInEstablished ==
  \A i \in 1 .. Len(removal) :
    /\ Established(removal[i])
    /\ i > 1 => removal[i] \in folders[removal[i - 1]].sub_folders

\* The removal of a tree takes away nothing that is not below its folder.
RemovalStaysBelow ==
  [][Running =>
       /\ \A d \in Folder \ Subtree(removal[1]) :
            folders_allocation_map'[d] = folders_allocation_map[d]
       /\ \A f \in EstablishedFiles :
            files[f].parent_folder \notin Subtree(removal[1]) => files_allocation_map'[f]]_treeVars

\* A removal that answers SUCCESS has freed the folder it was given; with
\* LinksAgree and NoOrphans nothing that was below it is left.
RemovalComplete ==
  [][Running /\ ~Running' /\ status' = "SUCCESS" =>
       \A d \in Node : d = removal[1] => ~Established(d)']_treeVars

\* A removal comes to an end, whatever the tree looks like.
RemovalReturns == Running ~> ~Running
=============================================================================
