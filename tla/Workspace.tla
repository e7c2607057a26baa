------------------------------ MODULE Workspace ------------------------------
(***************************************************************************)
(* The user's view of the tree: src/workspace keeps a current folder and   *)
(* the path it was reached by, finds entries by path (queries.c,           *)
(* path_utils.c) and passes them to the entry store of EntryStore.         *)
(*                                                                         *)
(* cur_folder is a plain pointer: nothing tells the workspace that the     *)
(* folder it points to was moved, renamed or removed.                      *)
(***************************************************************************)
EXTENDS EntryStore, SequencesExt

VARIABLES
  cur_folder,   \* the current folder
  cur_path,     \* its path, as a sequence of names, when it was entered
  crashed       \* the program dereferenced a NULL parent

wsVars == <<cur_folder, cur_path, crashed>>
vars == <<treeVars, wsVars>>

WsTypeOK ==
  /\ TypeOK
  /\ cur_folder \in Node
  /\ cur_path \in Seq(Name) /\ Len(cur_path) <= MAX_PATH_NODES_AMOUNT
  /\ crashed \in BOOLEAN

\* workspace_init
Init ==
  /\ TreeInit
  /\ cur_folder = ROOT
  /\ cur_path = <<>>
  /\ crashed = FALSE

-----------------------------------------------------------------------------
(* From a path to an entry *)

\* A path as parse_path sees it: its names, and whether it began with '/'. One
\* path with a name too many stands for all that are too long.
TooLongNames == [i \in 1 .. MAX_PATH_NODES_AMOUNT + 1 |-> ROOT_NAME]
Path == [absolute : BOOLEAN, names : BoundedSeq(Name, MAX_PATH_NODES_AMOUNT) \cup {TooLongNames}]

\* search_sub_folder and search_sub_file, NULL for SEARCH_TARGET_NOT_FOUND
SubFolder(d, name) ==
  IF \E e \in folders[d].sub_folders : folders[e].name = name
  THEN CHOOSE e \in folders[d].sub_folders : folders[e].name = name
  ELSE NULL

SubFile(d, name) ==
  IF \E f \in folders[d].sub_files : files[f].name = name
  THEN CHOOSE f \in folders[d].sub_files : files[f].name = name
  ELSE NULL

\* get_vfs_node: a file of that name comes before a folder.
VFSNode(d, name) == IF SubFile(d, name) # NULL THEN SubFile(d, name) ELSE SubFolder(d, name)

\* parse_node: a name must leave room for the terminator in a buffer of
\* MAX_NAME_LENGTH.
NodeParses(name) == name \notin LongName

\* Faulty variant: a name may fill its buffer, without a terminator.
ParsesAnyName(names) == Len(names) <= MAX_PATH_NODES_AMOUNT

\* parse_path accepts at most MAX_PATH_NODES_AMOUNT names.
Parses(names) ==
  /\ Len(names) <= MAX_PATH_NODES_AMOUNT
  /\ \A i \in DOMAIN names : NodeParses(names[i])

\* The folder resolve_path is in after each of the names.
Walk(start, names) ==
  LET at[i \in 0 .. Len(names)] ==
        IF i = 0 THEN start
        ELSE IF at[i - 1] = NULL THEN NULL ELSE SubFolder(at[i - 1], names[i])
  IN  at

\* resolve_path: all names but the last are those of folders.
ResolveFrom(start, names) ==
  LET parent == Walk(start, names)[Len(names) - 1]
  IN  IF ~Parses(names) \/ parent = NULL THEN NULL ELSE VFSNode(parent, Last(names))

\* ws_resolve_path: "" and "/" are the root, also away from it.
Resolve(path) ==
  IF path.names = <<>> THEN ROOT
  ELSE ResolveFrom(IF path.absolute THEN ROOT ELSE cur_folder, path.names)

\* What the paths a user can type lead to.
Resolved == {Resolve(path) : path \in Path}
ResolvedFiles == Resolved \cap File
ResolvedFolders == Resolved \cap Node

-----------------------------------------------------------------------------
(* From a folder to its path *)

\* The folders above d, the root left out, nearest first, as far as
\* get_parent_folders looks. A parent that is NULL ends it too.
ParentFolders(d) ==
  LET parent(e) == folders[e].parent_folder
      up[i \in 0 .. MAX_PATH_NODES_AMOUNT] ==
        IF i = 0 THEN <<d>>
        ELSE IF parent(Last(up[i - 1])) \in {ROOT, NULL} THEN up[i - 1]
        ELSE Append(up[i - 1], parent(Last(up[i - 1])))
  IN  Tail(up[MAX_PATH_NODES_AMOUNT])

\* Faulty variant: one name too many is let through.
PathOneTooLong(d) == Len(ParentFolders(d)) > MAX_PATH_NODES_AMOUNT

\* PATH_IS_TOO_LONG
PathTooLong(d) == Len(ParentFolders(d)) >= MAX_PATH_NODES_AMOUNT

\* Faulty variant: the names stay nearest first.
NodePathUpwards(d) ==
  IF d = ROOT THEN <<>>
  ELSE [i \in 1 .. Len(ParentFolders(d)) + 1 |-> folders[(<<d>> \o ParentFolders(d))[i]].name]

\* get_node_path for a folder whose path is not too long.
NodePath(d) ==
  IF d = ROOT THEN <<>>
  ELSE [i \in 1 .. Len(ParentFolders(d)) + 1 |->
          folders[Reverse(<<d>> \o ParentFolders(d))[i]].name]

-----------------------------------------------------------------------------
(* Operations *)

\* ws_change_cur_folder
Enter(d) ==
  /\ d = ROOT \/ ~PathTooLong(d)
  /\ cur_folder' = d
  /\ cur_path' = NodePath(d)
  /\ status' = "SUCCESS"
  /\ UNCHANGED <<entries, crashed>>

ChangeToPath == \E d \in ResolvedFolders : Enter(d)

ChangeToParent ==
  /\ cur_folder # ROOT
  /\ folders[cur_folder].parent_folder # NULL
  /\ Enter(folders[cur_folder].parent_folder)

\* The parent of a removed folder is NULL, and get_node_path reads its is_root.
ChangeToNullParent ==
  /\ cur_folder # ROOT
  /\ folders[cur_folder].parent_folder = NULL
  /\ crashed' = TRUE
  /\ UNCHANGED <<treeVars, cur_folder, cur_path>>

\* The root has no parent, the folder is too deep, or it is a file or nothing.
ChangeRefused ==
  /\ \/ cur_folder = ROOT
     \/ \E d \in ResolvedFolders \cup {folders[cur_folder].parent_folder} :
          d \in Folder /\ PathTooLong(d)
     \/ Resolved \ Node # {}
  /\ Refuse

\* ws_create_file, ws_create_folder
Create(name) ==
  \/ CreateFile(cur_folder, name)
  \/ CreateFolder(cur_folder, name)
  \/ ~CanCreateFile(cur_folder, name) /\ Refuse
  \/ ~CanCreateFolder(cur_folder, name) /\ Refuse

\* ws_remove_file, ws_remove_folder with and without recursive
RemoveNode ==
  \/ \E f \in ResolvedFiles : RemoveFile(f)
  \/ \E d \in ResolvedFolders :
       /\ Established(d)
       /\ RemoveFolder(d) \/ RemoveTree(d) \/ (~CanRemoveFolder(d) /\ Refuse)

\* Faulty variant: without a target path entries move to the current folder.
MoveNodeHere ==
  \E d \in ResolvedFolders \cup {cur_folder} :
    \/ \E f \in ResolvedFiles : MoveFile(f, d) \/ (~CanMoveFile(f, d) /\ Refuse)
    \/ \E e \in ResolvedFolders : MoveFolder(e, d) \/ (~CanMoveFolder(e, d) /\ Refuse)

\* ws_move_node
MoveNode ==
  \E d \in ResolvedFolders :
    \/ \E f \in ResolvedFiles : MoveFile(f, d) \/ (~CanMoveFile(f, d) /\ Refuse)
    \/ \E e \in ResolvedFolders : MoveFolder(e, d) \/ (~CanMoveFolder(e, d) /\ Refuse)

\* ws_rename_node
RenameNode(name) ==
  \/ \E f \in ResolvedFiles :
       \/ RenameFile(f, name) \/ RenameFileOverrun(f, name)
       \/ ~NameAvailable(files[f].parent_folder, name) /\ Refuse
  \/ \E d \in ResolvedFolders : RenameFolder(d, name) \/ (~CanRenameFolder(d, name) /\ Refuse)

\* ws_file_append, and ws_file_clear or a truncation of everything
WriteFile == \E f \in ResolvedFiles : StoreData(f) \/ ClearData(f)

Command ==
  /\ ~Running /\ ~crashed /\ Defined
  /\ \/ ChangeToPath
     \/ ChangeToParent
     \/ ChangeToNullParent
     \/ ChangeRefused /\ UNCHANGED wsVars
     \/ \E name \in Name : (Create(name) \/ RenameNode(name)) /\ UNCHANGED wsVars
     \/ (RemoveNode \/ MoveNode \/ WriteFile) /\ UNCHANGED wsVars

Next == Command \/ (RemovalStep /\ UNCHANGED wsVars)

Spec == Init /\ [][Next]_vars /\ WF_vars(RemovalStep /\ UNCHANGED wsVars)

-----------------------------------------------------------------------------
(* Properties *)

\* Whatever paths name, and whatever has become of the current folder, the
\* workspace uses the entry store only as EntryStore allows: it never moves,
\* renames or fills an entry that is not in the tree, nor moves one into a
\* folder that is not (entry_relocation.c:95 leaves that to the caller).
UsesEntryStore == TreeInit /\ [][TreeNext]_entries

\* A current folder that was removed has nothing in it, so that relative paths
\* find nothing through it.
RemovedFolderIsEmpty ==
  ~Established(cur_folder) =>
    folders[cur_folder].sub_files = {} /\ folders[cur_folder].sub_folders = {}

\* While the current folder is a freed slot, nobody takes the slot: the user never
\* ends up in another folder without having changed to it. (Entries are created
\* only in the current folder, which validate_vfs_folder then refuses,
\* vfs_entry_store.c:382.)
RemovedFolderStaysRemoved ==
  [][~Established(cur_folder) /\ cur_folder' = cur_folder => ~Established(cur_folder)']_vars

\* What a comment of the code says of a folder: it has a parent as long as it is
\* not the root (path_utils.c:241). The current folder is one that is used so.
CurFolderHasParent == cur_folder # ROOT => folders[cur_folder].parent_folder # NULL

\* What the help says of pwd: it prints "the path of the current working
\* directory" (help.h:32).
CurPathIsCurrent ==
  Established(cur_folder) /\ ~(cur_folder # ROOT /\ PathTooLong(cur_folder))
    => cur_path = NodePath(cur_folder)

\* What get_node_path takes for granted of an entry of the tree: its full path has
\* at most MAX_PATH_NODES_AMOUNT names (path_utils.c:121).
PathsAreBounded == \A d \in Folder : folders_allocation_map[d] => ~PathTooLong(d)
=============================================================================
