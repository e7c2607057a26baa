------------------------------- MODULE Queries -------------------------------
(***************************************************************************)
(* What the user can learn of the tree: the search by name and find, which *)
(* climbs from every match to the root for its path; ls; and tree, which   *)
(* descends from a folder. None of them changes anything, so they are      *)
(* operators on the states of Workspace.                                   *)
(***************************************************************************)
EXTENDS Workspace

CONSTANT QUERIES_NODE_BUFFER_SIZE   \* the matches find has room for (50)

ASSUME QueriesAssumption == QUERIES_NODE_BUFFER_SIZE \in Nat \ {0}


NameOf(e) == IF e \in File THEN files[e].name ELSE folders[e].name

-----------------------------------------------------------------------------
(* Paths of files and folders alike *)

\* get_parent_folders counts the parent of a file among its parents.
EntryTooDeep(e) ==
  IF e \in File
  THEN files[e].parent_folder # ROOT
       /\ Len(ParentFolders(files[e].parent_folder)) + 1 >= MAX_PATH_NODES_AMOUNT
  ELSE e # ROOT /\ PathTooLong(e)

\* get_node_path
EntryPath(e) ==
  IF e \in File THEN Append(NodePath(files[e].parent_folder), files[e].name)
  ELSE NodePath(e)

-----------------------------------------------------------------------------
(* find *)

FilesNamed(name) == {f \in EstablishedFiles : files[f].name = name}
FoldersNamed(name) == {d \in EstablishedFolders \ {ROOT} : folders[d].name = name}

\* global_search_nodes_by_name goes through the pool of files and then that of
\* folders. Entries may lie in the slots of a pool in any order.
Scans(name) ==
  {fs \o ds : fs \in SetToSeqs(FilesNamed(name)), ds \in SetToSeqs(FoldersNamed(name))}

\* Faulty variant: find goes on behind a match that is too deep.
FindSkipping(scan) ==
  IF Len(scan) > QUERIES_NODE_BUFFER_SIZE
  THEN [status |-> "DATA_OVER_FLOW", printed |-> <<>>]
  ELSE LET shown == SelectSeq(scan, LAMBDA e : ~EntryTooDeep(e))
       IN [status |-> "SUCCESS", printed |-> [i \in DOMAIN shown |-> EntryPath(shown[i])]]

\* cmd_find_exec: too many matches and nothing is printed; otherwise the paths
\* are, one by one, up to the first match that is too deep.
Find(scan) ==
  LET deep == {i \in DOMAIN scan : EntryTooDeep(scan[i])}
      shown == IF deep = {} THEN Len(scan) ELSE Min(deep) - 1
  IN  IF Len(scan) > QUERIES_NODE_BUFFER_SIZE
      THEN [status |-> "DATA_OVER_FLOW", printed |-> <<>>]
      ELSE [status |-> IF deep = {} THEN "SUCCESS" ELSE "PATH_IS_TOO_LONG",
            printed |-> [i \in 1 .. shown |-> EntryPath(scan[i])]]

-----------------------------------------------------------------------------
(* ls and tree *)

\* ws_get_sub_entries, whose buffer has room for all a folder can hold.
SubEntries(d) == folders[d].sub_files \cup folders[d].sub_folders

\* Faulty variant: the limit cuts one level too early.
TreeFoldersShort(d) ==
  LET level[step \in 0 .. MAX_FOLDER_DEPTH - 1] ==
        IF step = 0 THEN {d} ELSE UNION {folders[e].sub_folders : e \in level[step - 1]}
  IN  UNION {level[step] : step \in DOMAIN level}

\* The folders print_folder_recursion prints: those at most MAX_FOLDER_DEPTH
\* links below d. The ones further down are left out, and tree answers SUCCESS.
TreeFolders(d) ==
  LET level[step \in 0 .. MAX_FOLDER_DEPTH] ==
        IF step = 0 THEN {d} ELSE UNION {folders[e].sub_folders : e \in level[step - 1]}
  IN  UNION {level[step] : step \in DOMAIN level}

Tree(d) == TreeFolders(d) \cup UNION {folders[e].sub_files : e \in TreeFolders(d)}

-----------------------------------------------------------------------------
(* Properties *)

\* The path get_node_path prints for an entry leads back to that entry, as long as
\* resolve_path can parse it, and so does the path of a folder with a name that ls
\* lists in it: naming, listing and path resolution agree, for files and folders
\* alike.
PathRoundTrip ==
  Defined =>
  /\ \A e \in EstablishedFiles \cup EstablishedFolders :
       ~EntryTooDeep(e) /\ Parses(EntryPath(e)) =>
         Resolve([absolute |-> TRUE, names |-> EntryPath(e)]) = e
  /\ \A d \in EstablishedFolders : \A e \in SubEntries(d) :
       ~EntryTooDeep(e) => EntryPath(e) = Append(EntryPath(d), NameOf(e))

\* What find prints is right, and complete when it answers SUCCESS: each path is
\* that of another entry of the name and, resolved from the root, leads to one;
\* none is missing (command_exec.c:652-666 stops at a match that is too deep and
\* must then say so). Climbing to the root and descending from it, over arrays
\* that other code maintains, agree.
FindIsExact ==
  ~Running /\ Defined => \A name \in Name : \A scan \in Scans(name) :
    LET found == Find(scan) IN
    /\ \A path \in Range(found.printed) :
         Parses(path) => Resolve([absolute |-> TRUE, names |-> path]) \in Range(scan)
    /\ IsInjective(found.printed)
    /\ found.status = "SUCCESS" => Len(found.printed) = Len(scan)

\* The entries under the root, and the root.
AllEntries == EstablishedFolders \cup EstablishedFiles

\* What the help says of tree: it lists the hierarchical structure of the entries
\* under the directory (help.h:47-48). It sets no limit to how deep they lie.
TreeShowsAll == Tree(ROOT) = AllEntries

\* tree counts links downwards (folders.c:574), get_node_path counts parents
\* (path_utils.c:234), and every parent link is written by other code than the list
\* it belongs to. As long as all folders have a path, both counts agree on the
\* deepest of them: tree leaves nothing out.
TreeIsComplete == Defined /\ PathsAreBounded => TreeShowsAll

\* A folder may have a name of MAX_NAME_LENGTH characters, which parse_path does
\* not accept (path_utils.c:307, :321). Once the user is outside of such a
\* folder there is no way back into it, whatever is moved or renamed.
LongNameLocksOut ==
  [][\A d \in Folder :
       /\ Established(d) /\ folders[d].name \in LongName
       /\ Established(cur_folder) /\ cur_folder \notin Subtree(d)
       => ~(Established(d)' /\ cur_folder' \in Subtree(d)')]_vars
=============================================================================
