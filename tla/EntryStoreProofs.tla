--------------------------- MODULE EntryStoreProofs ---------------------------
(***************************************************************************)
(* The tree stays a tree, for every number of slots, every limit and every *)
(* set of names, under any sequence of operations and half way through a   *)
(* removal. First what each change of the links does to the tree (an entry *)
(* is added, renamed, moved, taken away), then the stack of calls of a     *)
(* removal, then one step per operation.                                   *)
(***************************************************************************)
EXTENDS EntryStore, FiniteSetTheorems, SequenceTheorems, TLAPS

-----------------------------------------------------------------------------
(* The inductive invariant *)

\* The root keeps its name, by which a move of it is refused.
RootNamed == folders[ROOT].name = ROOT_NAME

TreeInv == TypeOK /\ RootNamed /\ BothEndsAgree /\ NamesUnique /\ NoOrphans /\ NoOrphanData

\* Every call of a removal is in the folder the removal was given, or below.
CallsBelow == \A i \in 1 .. Len(removal) : removal[i] \in Subtree(removal[1])

CallInv == CallsInEstablished /\ CallsBelow

IInv == TreeInv /\ CallInv

FolderRecord == [parent_folder : NullableNode, name : NullableName,
                 sub_files : SUBSET File, sub_folders : SUBSET Folder]
FileRecord == [parent_folder : NullableNode, name : NullableName]

\* The set is closed under links.
Closed(S) == \A x \in S : folders[x].sub_folders \subseteq S

-----------------------------------------------------------------------------
(* Sets *)

\* Adding an entry takes one place, taking one away takes none.
LEMMA AddAndRemove ==
  ASSUME NEW S, IsFiniteSet(S), NEW e, NEW limit \in Nat
  PROVE  /\ Cardinality(S) < limit => Cardinality(S \cup {e}) <= limit
         /\ Cardinality(S) <= limit => Cardinality(S \ {e}) <= limit
<1>1. Cardinality(S) \in Nat
  BY FS_CardinalityType
<1>2. Cardinality(S \cup {e}) = IF e \in S THEN Cardinality(S) ELSE Cardinality(S) + 1
  BY FS_AddElement
<1>3. Cardinality(S \ {e}) = IF e \in S THEN Cardinality(S) - 1 ELSE Cardinality(S)
  BY FS_RemoveElement
<1>4. QED
  BY <1>1, <1>2, <1>3

\* The entries of a folder are finitely many.
LEMMA EntriesFinite ==
  ASSUME NEW S
  PROVE  /\ S \in SUBSET File => IsFiniteSet(S)
         /\ S \in SUBSET Folder => IsFiniteSet(S)
BY EntryStoreAssumption, FS_Subset

\* A subtree is the least closed set with its folder.
LEMMA SubtreeLeast ==
  ASSUME NEW d, NEW S \in SUBSET Node, d \in S, Closed(S)
  PROVE  Subtree(d) \subseteq S
BY DEF Subtree, Closed

LEMMA SubtreeClosed ==
  ASSUME TypeOK, NEW d \in Node
  PROVE  d \in Subtree(d) /\ Subtree(d) \subseteq Node /\ Closed(Subtree(d))
<1>1. d \in Subtree(d) /\ Subtree(d) \subseteq Node
  BY DEF Subtree
<1>2. ASSUME NEW x \in Subtree(d), NEW y \in folders[x].sub_folders
      PROVE  y \in Subtree(d)
  <2>1. x \in Node
    BY DEF Subtree
  <2>2. y \in Node
    BY <1>2, <2>1 DEF TypeOK, Node
  <2>3. ASSUME NEW S \in SUBSET Node, d \in S, \A z \in S : folders[z].sub_folders \subseteq S
        PROVE  y \in S
    <3>1. x \in S
      BY <2>3 DEF Subtree
    <3>2. QED
      BY <1>2, <2>3, <3>1
  <2>4. QED
    BY <2>2, <2>3 DEF Subtree
<1>3. QED
  BY <1>1, <1>2 DEF Closed

\* No folder is lost when all closed sets with the root still hold all folders.
LEMMA NoOrphansWhenClosed ==
  ASSUME \A S \in SUBSET Node :
           ROOT \in S /\ (\A x \in S : folders'[x].sub_folders \subseteq S)
             => EstablishedFolders' \subseteq S
  PROVE  NoOrphans'
<1>1. EstablishedFolders' \subseteq Node
  BY DEF EstablishedFolders
<1>2. QED
  BY <1>1 DEF NoOrphans, Subtree

LEMMA ReachedFromRoot ==
  ASSUME NoOrphans, NEW S \in SUBSET Node, ROOT \in S, Closed(S)
  PROVE  EstablishedFolders \subseteq S
BY SubtreeLeast DEF NoOrphans

\* The stack without its last call.
LEMMA OneCallLess ==
  ASSUME NEW S, NEW s \in Seq(S), s # <<>>
  PROVE  /\ SubSeq(s, 1, Len(s) - 1) \in Seq(S)
         /\ Len(SubSeq(s, 1, Len(s) - 1)) = Len(s) - 1
         /\ \A i \in 1 .. Len(s) - 1 : SubSeq(s, 1, Len(s) - 1)[i] = s[i]
<1> DEFINE shorter == SubSeq(s, 1, Len(s) - 1)
<1>1. Len(s) \in Nat \ {0} /\ \A i \in 1 .. Len(s) : s[i] \in S
  OBVIOUS
<1>2. Len(s) - 1 \in Int /\ 1 \in Int /\ \A i \in 1 .. Len(s) - 1 : s[i] \in S
  BY <1>1
<1>3. /\ shorter \in Seq(S)
      /\ Len(shorter) = IF 1 <= Len(s) - 1 THEN Len(s) - 1 - 1 + 1 ELSE 0
      /\ \A i \in 1 .. Len(s) - 1 - 1 + 1 : shorter[i] = s[1 + i - 1]
  BY ONLY <1>2, SubSeqProperties
<1> HIDE DEF shorter
<1>4. Len(s) - 1 - 1 + 1 = Len(s) - 1
  BY <1>1
<1>5. Len(shorter) = Len(s) - 1
  <2>1. CASE 1 <= Len(s) - 1
    BY <1>3, <1>4, <2>1
  <2>2. CASE ~(1 <= Len(s) - 1)
    <3>1. Len(shorter) = 0
      BY <1>3, <2>2
    <3>2. Len(s) - 1 = 0
      BY <1>1, <2>2
    <3>3. QED
      BY <3>1, <3>2
  <2>3. QED
    BY <2>1, <2>2
<1>6. ASSUME NEW i \in 1 .. Len(s) - 1 PROVE shorter[i] = s[i]
  <2>1. i \in 1 .. Len(s) - 1 - 1 + 1 /\ 1 + i - 1 = i
    BY <1>1
  <2>2. QED
    BY <1>3, <2>1
<1>7. QED
  BY <1>3, <1>5, <1>6 DEF shorter

-----------------------------------------------------------------------------
(* What an operation on a file leaves alone *)

\* The folders and the links between them stay.
SameFolders ==
  /\ UNCHANGED folders_allocation_map
  /\ folders' \in [Node -> FolderRecord]
  /\ \A x \in Node : /\ folders'[x].sub_folders = folders[x].sub_folders
                     /\ folders'[x].name = folders[x].name
                     /\ folders'[x].parent_folder = folders[x].parent_folder

\* Then all that is said of folders alone stays true.
LEMMA FoldersKept ==
  ASSUME TreeInv, SameFolders
  PROVE  /\ \A p : Established(p)' <=> Established(p)
         /\ RootNamed' /\ FolderLinksAgree' /\ NoOrphans'
         /\ \A p \in EstablishedFolders' :
              /\ p \in Node /\ p \in EstablishedFolders
              /\ folders'[p].sub_folders = folders[p].sub_folders
              /\ folders[p].sub_files \subseteq File
              /\ \A e \in folders[p].sub_folders : folders'[e].name = folders[e].name
<1> USE DEF TreeInv
<1>1. \A p : Established(p)' <=> Established(p)
  BY DEF SameFolders, Established
<1>2. RootNamed'
  BY DEF SameFolders, RootNamed, Node
<1>3. FolderLinksAgree'
  <2>1. ASSUME NEW d \in Folder, NEW p \in Node
        PROVE  d \in folders'[p].sub_folders <=>
                 folders_allocation_map'[d] /\ Established(p)' /\ folders'[d].parent_folder = p
    <3>1. d \in folders[p].sub_folders <=>
            folders_allocation_map[d] /\ Established(p) /\ folders[d].parent_folder = p
      BY DEF BothEndsAgree, FolderLinksAgree
    <3>2. d \in Node
      BY DEF Node
    <3>3. QED
      BY <1>1, <3>1, <3>2 DEF SameFolders
  <2>2. ASSUME NEW d \in Folder, folders_allocation_map'[d]
        PROVE  Established(folders[d].parent_folder)'
    <3>1. d \in Node /\ Established(folders[d].parent_folder)
      BY <2>2 DEF SameFolders, BothEndsAgree, FolderLinksAgree, Node
    <3>2. folders'[d].parent_folder = folders[d].parent_folder
      BY <3>1 DEF SameFolders
    <3>3. QED
      BY <3>1, <3>2 DEF SameFolders, Established
  <2>3. QED
    BY <2>1, <2>2 DEF FolderLinksAgree
<1>4. NoOrphans'
  <2> SUFFICES ASSUME NEW S \in SUBSET Node, ROOT \in S,
                      \A x \in S : folders'[x].sub_folders \subseteq S
               PROVE  EstablishedFolders' \subseteq S
    BY NoOrphansWhenClosed
  <2>1. Closed(S)
    BY DEF Closed, SameFolders
  <2>2. QED
    BY <1>1, <2>1, ReachedFromRoot DEF EstablishedFolders
<1>5. ASSUME NEW p \in EstablishedFolders'
      PROVE  /\ p \in Node /\ p \in EstablishedFolders
             /\ folders'[p].sub_folders = folders[p].sub_folders
             /\ folders[p].sub_files \subseteq File
             /\ \A e \in folders[p].sub_folders : folders'[e].name = folders[e].name
  <2>1. p \in Node /\ p \in EstablishedFolders
    BY <1>1, <1>5 DEF EstablishedFolders
  <2>2. folders[p].sub_files \subseteq File /\ folders[p].sub_folders \subseteq Node
    BY <2>1 DEF TypeOK, Node
  <2>3. QED
    BY <2>1, <2>2 DEF SameFolders
<1>6. QED
  BY <1>1, <1>2, <1>3, <1>4, <1>5

\* What is left to show of an operation on a file.
FilesFit ==
  /\ files_allocation_map' \in [File -> BOOLEAN]
  /\ files' \in [File -> FileRecord]
  /\ \A d \in Node : Cardinality(folders'[d].sub_files) <= MAX_SUB_FILES_AMOUNT
  /\ stored' \subseteq File /\ removal' \in Seq(Node)
  /\ status' \in {"SUCCESS", "FAILURE", "RUNNING"}

FileNamesUnique(p) ==
  /\ \A e, g \in folders[p].sub_files : files[e].name = files[g].name => e = g
  /\ \A e \in folders[p].sub_folders, g \in folders[p].sub_files :
       folders[e].name # files[g].name

LEMMA FileOperationKeeps ==
  ASSUME TreeInv, SameFolders, FilesFit, FileLinksAgree', NoOrphanData',
         \A p \in EstablishedFolders' : FileNamesUnique(p)'
  PROVE  TreeInv'
<1> USE DEF TreeInv
<1>1. RootNamed' /\ FolderLinksAgree' /\ NoOrphans'
  BY FoldersKept
<1>2. TypeOK'
  <2>1. \A d \in Node : Cardinality(folders'[d].sub_folders) <= MAX_SUB_FOLDERS_AMOUNT
    BY DEF SameFolders, TypeOK
  <2>2. QED
    BY <2>1 DEF TypeOK, SameFolders, FilesFit, FolderRecord, FileRecord
<1>3. NamesUnique'
  <2> SUFFICES ASSUME NEW p \in EstablishedFolders'
               PROVE  \A e, g \in folders'[p].sub_folders :
                        folders'[e].name = folders'[g].name => e = g
    BY DEF NamesUnique, FileNamesUnique
  <2>1. /\ p \in EstablishedFolders
        /\ folders'[p].sub_folders = folders[p].sub_folders
        /\ \A e \in folders[p].sub_folders : folders'[e].name = folders[e].name
    BY FoldersKept
  <2>2. \A e, g \in folders[p].sub_folders : folders[e].name = folders[g].name => e = g
    BY <2>1 DEF NamesUnique
  <2>3. QED
    BY <2>1, <2>2
<1>4. BothEndsAgree'
  BY <1>1 DEF BothEndsAgree
<1>5. QED
  BY <1>1, <1>2, <1>3, <1>4

-----------------------------------------------------------------------------
(* The operations on files *)

\* A name that is available clashes with no entry of the folder.
LEMMA AvailableName ==
  ASSUME NEW p, NEW name, NameAvailable(p, name)
  PROVE  /\ name # ROOT_NAME
         /\ \A g \in folders[p].sub_files : files[g].name # name
         /\ \A e \in folders[p].sub_folders : folders[e].name # name
BY DEF NameAvailable, SubEntryNames

LEMMA CreateFileKeeps ==
  ASSUME TreeInv, NEW parent \in Node, NEW name \in Name, CreateFile(parent, name)
  PROVE  TreeInv'
<1>1. PICK f \in File :
        /\ ~files_allocation_map[f]
        /\ files_allocation_map' = [files_allocation_map EXCEPT ![f] = TRUE]
        /\ files' = [files EXCEPT ![f] = [parent_folder |-> parent, name |-> name]]
        /\ folders' = [folders EXCEPT ![parent].sub_files = @ \cup {f}]
        /\ stored' = stored \ {f}
  BY DEF CreateFile
<1>2. /\ Established(parent) /\ NameAvailable(parent, name) /\ RoomForFile(parent)
      /\ status' = "SUCCESS" /\ UNCHANGED <<folders_allocation_map, stored, removal>>
  <2>1. f \notin stored
    BY <1>1 DEF TreeInv, NoOrphanData, EstablishedFiles
  <2>2. QED
    BY <1>1, <2>1 DEF CreateFile, CanCreateFile
<1>3. \A x \in Node :
        folders'[x].sub_files = IF x = parent THEN folders[x].sub_files \cup {f}
                                ELSE folders[x].sub_files
  BY <1>1 DEF TreeInv, TypeOK
<1>4. \A g \in File :
        /\ files_allocation_map'[g] = IF g = f THEN TRUE ELSE files_allocation_map[g]
        /\ g # f => files'[g] = files[g]
        /\ g = f => files'[g].parent_folder = parent /\ files'[g].name = name
  BY <1>1 DEF TreeInv, TypeOK
<1>5. \A p \in Node : f \notin folders[p].sub_files
  BY <1>1 DEF TreeInv, BothEndsAgree, FileLinksAgree
<1>6. SameFolders
  BY <1>1, <1>2 DEF TreeInv, TypeOK, SameFolders, FolderRecord
<1>7. FilesFit
  <2>1. files' \in [File -> FileRecord]
    BY <1>1 DEF TreeInv, TypeOK, FileRecord, NullableNode, NullableName
  <2>2. files_allocation_map' \in [File -> BOOLEAN]
    BY <1>1 DEF TreeInv, TypeOK
  <2>3. ASSUME NEW d \in Node
        PROVE  Cardinality(folders'[d].sub_files) <= MAX_SUB_FILES_AMOUNT
    <3>1. CASE d = parent
      <4>1. Cardinality(folders[d].sub_files) < MAX_SUB_FILES_AMOUNT
        BY <1>2, <3>1 DEF RoomForFile
      <4>2. folders'[d].sub_files = folders[d].sub_files \cup {f}
        BY <1>3, <3>1
      <4>3. MAX_SUB_FILES_AMOUNT \in Nat /\ IsFiniteSet(folders[d].sub_files)
        BY EntryStoreAssumption, EntriesFinite DEF TreeInv, TypeOK
      <4>4. QED
        BY <4>1, <4>2, <4>3, AddAndRemove
    <3>2. CASE d # parent
      BY <1>3, <3>2 DEF TreeInv, TypeOK
    <3>3. QED
      BY <3>1, <3>2
  <2>4. QED
    BY <1>2, <2>1, <2>2, <2>3 DEF TreeInv, TypeOK, FilesFit
<1>8. FileLinksAgree'
  <2>1. ASSUME NEW g \in File, NEW p \in Node
        PROVE  g \in folders'[p].sub_files <=>
                 files_allocation_map'[g] /\ Established(p)' /\ files'[g].parent_folder = p
    <3>1. g \in folders[p].sub_files <=>
            files_allocation_map[g] /\ Established(p) /\ files[g].parent_folder = p
      BY DEF TreeInv, BothEndsAgree, FileLinksAgree
    <3>2. Established(p)' <=> Established(p)
      BY <1>6, FoldersKept
    <3>3. CASE g = f
      <4>1. g \in folders'[p].sub_files <=> p = parent
        BY <1>3, <1>5, <3>3
      <4>2. files_allocation_map'[g] /\ files'[g].parent_folder = parent
        BY <1>4, <3>3
      <4>3. QED
        BY <1>2, <3>2, <4>1, <4>2
    <3>4. CASE g # f
      <4>1. g \in folders'[p].sub_files <=> g \in folders[p].sub_files
        BY <1>3, <3>4
      <4>2. files_allocation_map'[g] = files_allocation_map[g] /\ files'[g] = files[g]
        BY <1>4, <3>4
      <4>3. QED
        BY <3>1, <3>2, <4>1, <4>2
    <3>5. QED
      BY <3>3, <3>4
  <2>2. ASSUME NEW g \in File, files_allocation_map'[g]
        PROVE  Established(files[g].parent_folder)'
    <3>1. CASE g = f
      BY <1>2, <1>4, <3>1 DEF Established
    <3>2. CASE g # f
      <4>1. files_allocation_map[g] /\ files'[g] = files[g]
        BY <1>4, <2>2, <3>2
      <4>2. Established(files[g].parent_folder)
        BY <4>1 DEF TreeInv, BothEndsAgree, FileLinksAgree
      <4>3. QED
        BY <1>2, <4>1, <4>2 DEF Established
    <3>3. QED
      BY <3>1, <3>2
  <2>3. QED
    BY <2>1, <2>2 DEF FileLinksAgree
<1>9. ASSUME NEW p \in EstablishedFolders' PROVE FileNamesUnique(p)'
  <2>1. /\ p \in Node /\ p \in EstablishedFolders
        /\ folders'[p].sub_folders = folders[p].sub_folders
        /\ folders[p].sub_files \subseteq File
        /\ \A e \in folders[p].sub_folders : folders'[e].name = folders[e].name
    BY <1>6, FoldersKept
  <2>2. ASSUME NEW g \in folders'[p].sub_files
        PROVE  \/ g \in folders[p].sub_files /\ g # f /\ files'[g].name = files[g].name
               \/ g = f /\ p = parent /\ files'[g].name = name
    <3>1. CASE g \in folders[p].sub_files
      BY <1>4, <1>5, <2>1, <3>1
    <3>2. CASE g \notin folders[p].sub_files
      <4>1. p = parent /\ g = f
        BY <1>3, <2>1, <2>2, <3>2
      <4>2. QED
        BY <1>4, <4>1
    <3>3. QED
      BY <3>1, <3>2
  <2>3. FileNamesUnique(p)
    BY <2>1 DEF TreeInv, NamesUnique, FileNamesUnique
  <2>4. QED
    BY <1>2, <2>1, <2>2, <2>3, AvailableName DEF FileNamesUnique
<1>10. NoOrphanData'
  BY <1>2, <1>4 DEF TreeInv, NoOrphanData, EstablishedFiles
<1>11. QED
  BY <1>6, <1>7, <1>8, <1>9, <1>10, FileOperationKeeps

LEMMA RenameFileKeeps ==
  ASSUME TreeInv, NEW f \in EstablishedFiles, NEW name \in Name, RenameFile(f, name)
  PROVE  TreeInv'
<1> DEFINE parent == files[f].parent_folder
<1>1. f \in File /\ files_allocation_map[f] /\ Established(parent) /\ parent \in Node
  BY DEF TreeInv, BothEndsAgree, FileLinksAgree, EstablishedFiles, Established, Node
<1>2. /\ NameAvailable(parent, name) /\ files' = [files EXCEPT ![f].name = name]
      /\ status' = "SUCCESS"
      /\ UNCHANGED <<folders_allocation_map, files_allocation_map, folders, stored, removal>>
  BY DEF RenameFile
<1>3. \A g \in File : /\ files'[g].parent_folder = files[g].parent_folder
                      /\ g # f => files'[g] = files[g]
                      /\ g = f => files'[g].name = name
  BY <1>1, <1>2 DEF TreeInv, TypeOK
<1>4. SameFolders
  BY <1>2 DEF TreeInv, TypeOK, SameFolders, FolderRecord
<1>5. FilesFit
  BY <1>2 DEF TreeInv, TypeOK, FilesFit, FileRecord, NullableName
<1>6. FileLinksAgree'
  <2>1. FileLinksAgree
    BY DEF TreeInv, BothEndsAgree
  <2>2. QED
    BY <1>2, <1>3, <2>1 DEF FileLinksAgree, Established
<1>7. ASSUME NEW p \in EstablishedFolders' PROVE FileNamesUnique(p)'
  <2>1. /\ p \in Node /\ p \in EstablishedFolders
        /\ folders[p].sub_files \subseteq File
    BY <1>4, FoldersKept
  <2>2. FileNamesUnique(p)
    BY <2>1 DEF TreeInv, NamesUnique, FileNamesUnique
  <2>3. f \in folders[p].sub_files => p = parent
    BY <1>1, <2>1 DEF TreeInv, BothEndsAgree, FileLinksAgree
  <2>4. \A g \in folders[p].sub_files :
          IF g = f THEN p = parent /\ files'[g].name = name ELSE files'[g].name = files[g].name
    BY <1>3, <2>1, <2>3
  <2>5. QED
    BY <1>2, <2>2, <2>4, AvailableName DEF FileNamesUnique
<1>8. NoOrphanData'
  BY <1>2 DEF TreeInv, NoOrphanData, EstablishedFiles
<1>9. QED
  BY <1>4, <1>5, <1>6, <1>7, <1>8, FileOperationKeeps

\* The link of a file is cut, whether the file goes or moves.
LEMMA WithoutFileIs ==
  ASSUME TypeOK, NEW f \in File
  PROVE  /\ WithoutFile(f) \in [Node -> FolderRecord]
         /\ \A x \in Node :
              /\ WithoutFile(f)[x].sub_files =
                   IF x = files[f].parent_folder THEN folders[x].sub_files \ {f}
                   ELSE folders[x].sub_files
              /\ WithoutFile(f)[x].sub_folders = folders[x].sub_folders
              /\ WithoutFile(f)[x].name = folders[x].name
              /\ WithoutFile(f)[x].parent_folder = folders[x].parent_folder
BY DEF TypeOK, WithoutFile, FolderRecord

LEMMA MoveFileKeeps ==
  ASSUME TreeInv, NEW f \in EstablishedFiles, NEW new_parent \in EstablishedFolders,
         MoveFile(f, new_parent)
  PROVE  TreeInv'
<1> DEFINE parent == files[f].parent_folder
<1>1. /\ f \in File /\ files_allocation_map[f] /\ Established(parent) /\ parent \in Node
      /\ new_parent \in Node /\ Established(new_parent)
  BY DEF TreeInv, BothEndsAgree, FileLinksAgree, EstablishedFiles, EstablishedFolders,
         Established, Node
<1>2. /\ NameAvailable(new_parent, files[f].name) /\ RoomForFile(new_parent)
      /\ folders' = [WithoutFile(f) EXCEPT ![new_parent].sub_files = @ \cup {f}]
      /\ files' = [files EXCEPT ![f].parent_folder = new_parent]
      /\ status' = "SUCCESS"
      /\ UNCHANGED <<folders_allocation_map, files_allocation_map, stored, removal>>
  BY DEF MoveFile, CanMoveFile
<1>3. new_parent # parent
  <2>1. f \in folders[parent].sub_files
    BY <1>1 DEF TreeInv, BothEndsAgree, FileLinksAgree
  <2>2. QED
    BY <1>2, <2>1, AvailableName
<1>4. \A x \in Node :
        /\ x = parent => folders'[x].sub_files = folders[x].sub_files \ {f}
        /\ x = new_parent => folders'[x].sub_files = folders[x].sub_files \cup {f}
        /\ x \notin {parent, new_parent} => folders'[x].sub_files = folders[x].sub_files
  <2> DEFINE cut == WithoutFile(f)
  <2>1. /\ cut \in [Node -> FolderRecord]
        /\ \A x \in Node : cut[x].sub_files = IF x = parent THEN folders[x].sub_files \ {f}
                                              ELSE folders[x].sub_files
    BY <1>1, WithoutFileIs DEF TreeInv
  <2>2. folders' = [cut EXCEPT ![new_parent].sub_files = @ \cup {f}]
    BY <1>2
  <2> HIDE DEF cut, parent
  <2>3. \A x \in Node :
          folders'[x].sub_files = IF x = new_parent THEN cut[x].sub_files \cup {f}
                                  ELSE cut[x].sub_files
    BY <1>1, <2>1, <2>2 DEF FolderRecord
  <2>4. QED
    BY <1>3, <2>1, <2>3
<1>5. \A g \in File : /\ files'[g].name = files[g].name
                      /\ g # f => files'[g] = files[g]
                      /\ g = f => files'[g].parent_folder = new_parent
  BY <1>1, <1>2 DEF TreeInv, TypeOK
<1>6. SameFolders
  <2> DEFINE cut == WithoutFile(f)
  <2>1. /\ cut \in [Node -> FolderRecord]
        /\ \A x \in Node : /\ cut[x].sub_folders = folders[x].sub_folders
                           /\ cut[x].name = folders[x].name
                           /\ cut[x].parent_folder = folders[x].parent_folder
    BY <1>1, WithoutFileIs DEF TreeInv
  <2>2. folders' = [cut EXCEPT ![new_parent].sub_files = @ \cup {f}]
    BY <1>2
  <2> HIDE DEF cut
  <2>3. folders' \in [Node -> FolderRecord]
    BY <1>1, <2>1, <2>2 DEF FolderRecord
  <2>4. \A x \in Node : /\ folders'[x].sub_folders = cut[x].sub_folders
                        /\ folders'[x].name = cut[x].name
                        /\ folders'[x].parent_folder = cut[x].parent_folder
    BY <1>1, <2>1, <2>2 DEF FolderRecord
  <2>5. QED
    BY <1>2, <2>1, <2>3, <2>4 DEF SameFolders
<1>7. FilesFit
  <2>1. files' \in [File -> FileRecord]
    BY <1>1, <1>2 DEF TreeInv, TypeOK, FileRecord, NullableNode
  <2>2. ASSUME NEW d \in Node
        PROVE  Cardinality(folders'[d].sub_files) <= MAX_SUB_FILES_AMOUNT
    <3>1. MAX_SUB_FILES_AMOUNT \in Nat /\ IsFiniteSet(folders[d].sub_files)
      BY EntryStoreAssumption, EntriesFinite DEF TreeInv, TypeOK
    <3>2. Cardinality(folders[d].sub_files) <= MAX_SUB_FILES_AMOUNT
      BY DEF TreeInv, TypeOK
    <3>3. d = new_parent => Cardinality(folders[d].sub_files) < MAX_SUB_FILES_AMOUNT
      BY <1>2 DEF RoomForFile
    <3>4. QED
      BY <1>4, <3>1, <3>2, <3>3, AddAndRemove
  <2>3. QED
    BY <1>2, <2>1, <2>2 DEF TreeInv, TypeOK, FilesFit
<1>8. FileLinksAgree'
  <2>1. ASSUME NEW g \in File, NEW p \in Node
        PROVE  g \in folders'[p].sub_files <=>
                 files_allocation_map'[g] /\ Established(p)' /\ files'[g].parent_folder = p
    <3>1. g \in folders[p].sub_files <=>
            files_allocation_map[g] /\ Established(p) /\ files[g].parent_folder = p
      BY DEF TreeInv, BothEndsAgree, FileLinksAgree
    <3>2. Established(p)' <=> Established(p)
      BY <1>6, FoldersKept
    <3>3. CASE g = f
      <4>1. g \in folders'[p].sub_files <=> p = new_parent
        BY <1>3, <1>4, <3>1, <3>3
      <4>2. files_allocation_map'[g] /\ files'[g].parent_folder = new_parent
        BY <1>1, <1>2, <1>5, <3>3
      <4>3. QED
        BY <1>1, <3>2, <4>1, <4>2
    <3>4. CASE g # f
      <4>1. g \in folders'[p].sub_files <=> g \in folders[p].sub_files
        BY <1>4, <3>4
      <4>2. files_allocation_map'[g] = files_allocation_map[g] /\ files'[g] = files[g]
        BY <1>2, <1>5, <3>4
      <4>3. QED
        BY <3>1, <3>2, <4>1, <4>2
    <3>5. QED
      BY <3>3, <3>4
  <2>2. ASSUME NEW g \in File, files_allocation_map'[g]
        PROVE  Established(files[g].parent_folder)'
    <3>1. CASE g = f
      BY <1>1, <1>2, <1>5, <3>1 DEF Established
    <3>2. CASE g # f
      <4>1. files_allocation_map[g] /\ files'[g] = files[g]
        BY <1>2, <1>5, <2>2, <3>2
      <4>2. Established(files[g].parent_folder)
        BY <4>1 DEF TreeInv, BothEndsAgree, FileLinksAgree
      <4>3. QED
        BY <1>2, <4>1, <4>2 DEF Established
    <3>3. QED
      BY <3>1, <3>2
  <2>3. QED
    BY <2>1, <2>2 DEF FileLinksAgree
<1>9. ASSUME NEW p \in EstablishedFolders' PROVE FileNamesUnique(p)'
  <2>1. /\ p \in Node /\ p \in EstablishedFolders
        /\ folders'[p].sub_folders = folders[p].sub_folders
        /\ folders[p].sub_files \subseteq File
        /\ \A e \in folders[p].sub_folders : folders'[e].name = folders[e].name
    BY <1>6, FoldersKept
  <2>2. ASSUME NEW g \in folders'[p].sub_files
        PROVE  /\ files'[g].name = files[g].name
               /\ g \in folders[p].sub_files \/ (g = f /\ p = new_parent)
    <3>1. g \in folders[p].sub_files \/ (g = f /\ p = new_parent)
      BY <1>4, <2>1, <2>2
    <3>2. QED
      BY <1>1, <1>5, <2>1, <3>1
  <2>3. FileNamesUnique(p)
    BY <2>1 DEF TreeInv, NamesUnique, FileNamesUnique
  <2>4. QED
    BY <1>2, <2>1, <2>2, <2>3, AvailableName DEF FileNamesUnique
<1>10. NoOrphanData'
  BY <1>2 DEF TreeInv, NoOrphanData, EstablishedFiles
<1>11. QED
  BY <1>6, <1>7, <1>8, <1>9, <1>10, FileOperationKeeps

\* The step of any deletion of a file, in a removal or not.
LEMMA DeleteVfsFileKeeps ==
  ASSUME TreeInv, NEW f \in EstablishedFiles, DeleteVfsFile(f),
         removal' \in Seq(Node), status' \in {"SUCCESS", "FAILURE", "RUNNING"}
  PROVE  TreeInv' /\ SameFolders
<1> DEFINE parent == files[f].parent_folder
<1>1. f \in File /\ files_allocation_map[f] /\ Established(parent) /\ parent \in Node
  BY DEF TreeInv, BothEndsAgree, FileLinksAgree, EstablishedFiles, Established, Node
<1>2. /\ folders' = WithoutFile(f)
      /\ files' = [files EXCEPT ![f] = FreeFile]
      /\ stored' = stored \ {f}
      /\ files_allocation_map' = [files_allocation_map EXCEPT ![f] = FALSE]
      /\ UNCHANGED folders_allocation_map
  BY DEF DeleteVfsFile
<1>3. \A x \in Node :
        folders'[x].sub_files = IF x = parent THEN folders[x].sub_files \ {f}
                                ELSE folders[x].sub_files
  BY <1>1, <1>2, WithoutFileIs DEF TreeInv
<1>4. \A g \in File :
        /\ files_allocation_map'[g] = IF g = f THEN FALSE ELSE files_allocation_map[g]
        /\ g # f => files'[g] = files[g]
  BY <1>1, <1>2 DEF TreeInv, TypeOK
<1>5. SameFolders
  BY <1>1, <1>2, WithoutFileIs DEF TreeInv, SameFolders
<1>6. \A p \in Node : folders'[p].sub_files = folders[p].sub_files \ {f}
  <2>1. \A p \in Node : f \in folders[p].sub_files => p = parent
    BY <1>1 DEF TreeInv, BothEndsAgree, FileLinksAgree
  <2> HIDE DEF parent
  <2>2. QED
    BY <1>3, <2>1
<1>7. FilesFit
  <2>1. files' \in [File -> FileRecord]
    BY <1>1, <1>2 DEF TreeInv, TypeOK, FileRecord, FreeFile, NullableNode, NullableName
  <2>2. files_allocation_map' \in [File -> BOOLEAN]
    BY <1>1, <1>2 DEF TreeInv, TypeOK
  <2>3. ASSUME NEW d \in Node
        PROVE  Cardinality(folders'[d].sub_files) <= MAX_SUB_FILES_AMOUNT
    <3>1. MAX_SUB_FILES_AMOUNT \in Nat /\ IsFiniteSet(folders[d].sub_files)
      BY EntryStoreAssumption, EntriesFinite DEF TreeInv, TypeOK
    <3>2. Cardinality(folders[d].sub_files) <= MAX_SUB_FILES_AMOUNT
      BY DEF TreeInv, TypeOK
    <3>3. QED
      BY <1>6, <3>1, <3>2, AddAndRemove
  <2>4. QED
    BY <1>2, <2>1, <2>2, <2>3 DEF TreeInv, TypeOK, FilesFit
<1>8. FileLinksAgree'
  <2>1. ASSUME NEW g \in File, NEW p \in Node
        PROVE  g \in folders'[p].sub_files <=>
                 files_allocation_map'[g] /\ Established(p)' /\ files'[g].parent_folder = p
    <3>1. g \in folders[p].sub_files <=>
            files_allocation_map[g] /\ Established(p) /\ files[g].parent_folder = p
      BY DEF TreeInv, BothEndsAgree, FileLinksAgree
    <3>2. Established(p)' <=> Established(p)
      BY <1>5, FoldersKept
    <3>3. QED
      BY <1>4, <1>6, <3>1, <3>2
  <2>2. ASSUME NEW g \in File, files_allocation_map'[g]
        PROVE  Established(files[g].parent_folder)'
    <3>1. files_allocation_map[g] /\ files'[g] = files[g]
      BY <1>4, <2>2
    <3>2. Established(files[g].parent_folder)
      BY <3>1 DEF TreeInv, BothEndsAgree, FileLinksAgree
    <3>3. QED
      BY <1>2, <3>1, <3>2 DEF Established
  <2>3. QED
    BY <2>1, <2>2 DEF FileLinksAgree
<1>9. ASSUME NEW p \in EstablishedFolders' PROVE FileNamesUnique(p)'
  <2>1. /\ p \in Node /\ p \in EstablishedFolders
        /\ folders'[p].sub_folders = folders[p].sub_folders
        /\ folders[p].sub_files \subseteq File
        /\ \A e \in folders[p].sub_folders : folders'[e].name = folders[e].name
    BY <1>5, FoldersKept
  <2>2. ASSUME NEW g \in folders'[p].sub_files
        PROVE  g \in folders[p].sub_files /\ files'[g].name = files[g].name
    BY <1>4, <1>6, <2>1, <2>2
  <2>3. FileNamesUnique(p)
    BY <2>1 DEF TreeInv, NamesUnique, FileNamesUnique
  <2>4. QED
    BY <2>1, <2>2, <2>3 DEF FileNamesUnique
<1>10. NoOrphanData'
  BY <1>2, <1>4 DEF TreeInv, NoOrphanData, EstablishedFiles
<1>11. QED
  BY <1>5, <1>7, <1>8, <1>9, <1>10, FileOperationKeeps

-----------------------------------------------------------------------------
(* What an operation on a folder leaves alone *)

\* The files and the links to them stay, and so do the folders they are in.
SameFiles ==
  /\ UNCHANGED <<files_allocation_map, files, stored>>
  /\ \A x \in Node : folders'[x].sub_files = folders[x].sub_files
  /\ \A g \in File : files_allocation_map[g] => Established(files[g].parent_folder)'

FoldersFit ==
  /\ folders_allocation_map' \in [Folder -> BOOLEAN]
  /\ folders' \in [Node -> FolderRecord]
  /\ \A d \in Node : Cardinality(folders'[d].sub_folders) <= MAX_SUB_FOLDERS_AMOUNT
  /\ removal' \in Seq(Node)
  /\ status' \in {"SUCCESS", "FAILURE", "RUNNING"}

FolderNamesUnique(p) ==
  /\ \A e, g \in folders[p].sub_folders : folders[e].name = folders[g].name => e = g
  /\ \A e \in folders[p].sub_folders, g \in folders[p].sub_files :
       folders[e].name # files[g].name

LEMMA FolderOperationKeeps ==
  ASSUME TreeInv, SameFiles, FoldersFit, RootNamed', FolderLinksAgree', NoOrphans',
         \A p \in EstablishedFolders' : FolderNamesUnique(p)'
  PROVE  TreeInv'
<1> USE DEF TreeInv
<1>1. TypeOK'
  <2>1. \A d \in Node : Cardinality(folders'[d].sub_files) <= MAX_SUB_FILES_AMOUNT
    BY DEF SameFiles, TypeOK
  <2>2. QED
    BY <2>1 DEF TypeOK, SameFiles, FoldersFit, FolderRecord
<1>2. FileLinksAgree'
  <2>1. ASSUME NEW g \in File, NEW p \in Node
        PROVE  g \in folders'[p].sub_files <=>
                 files_allocation_map'[g] /\ Established(p)' /\ files'[g].parent_folder = p
    <3>1. /\ g \in folders[p].sub_files <=>
               files_allocation_map[g] /\ Established(p) /\ files[g].parent_folder = p
          /\ files_allocation_map[g] => Established(files[g].parent_folder)
      BY DEF BothEndsAgree, FileLinksAgree
    <3>2. files_allocation_map[g] /\ files[g].parent_folder = p => Established(p)'
      BY DEF SameFiles
    <3>3. QED
      BY <3>1, <3>2 DEF SameFiles
  <2>2. ASSUME NEW g \in File, files_allocation_map'[g]
        PROVE  Established(files[g].parent_folder)'
    BY <2>2 DEF SameFiles
  <2>3. QED
    BY <2>1, <2>2 DEF FileLinksAgree
<1>3. NamesUnique'
  <2> SUFFICES ASSUME NEW p \in EstablishedFolders'
               PROVE  \A e, g \in folders'[p].sub_files :
                        files'[e].name = files'[g].name => e = g
    BY DEF NamesUnique, FolderNamesUnique
  <2>1. p \in Node /\ folders'[p].sub_files = folders[p].sub_files /\ files' = files
    BY DEF SameFiles, EstablishedFolders
  <2>2. ASSUME NEW e \in folders[p].sub_files
        PROVE  p \in EstablishedFolders
    <3>1. e \in File
      BY <2>1 DEF TypeOK
    <3>2. QED
      BY <2>1, <3>1 DEF BothEndsAgree, FileLinksAgree, EstablishedFolders
  <2>3. QED
    BY <2>1, <2>2 DEF NamesUnique
<1>4. NoOrphanData'
  BY DEF SameFiles, NoOrphanData, EstablishedFiles
<1>5. QED
  BY <1>1, <1>2, <1>3, <1>4 DEF BothEndsAgree

-----------------------------------------------------------------------------
(* The operations on folders *)

LEMMA CreateFolderKeeps ==
  ASSUME TreeInv, NEW parent \in Node, NEW name \in Name, CreateFolder(parent, name)
  PROVE  TreeInv'
<1>1. PICK d \in Folder :
        /\ ~folders_allocation_map[d]
        /\ folders_allocation_map' = [folders_allocation_map EXCEPT ![d] = TRUE]
        /\ folders' = [folders EXCEPT
             ![d] = [parent_folder |-> parent, name |-> name,
                     sub_files |-> {}, sub_folders |-> {}],
             ![parent].sub_folders = @ \cup {d}]
  BY DEF CreateFolder
<1>2. /\ Established(parent) /\ NameAvailable(parent, name) /\ RoomForFolder(parent)
      /\ status' = "SUCCESS" /\ UNCHANGED <<files_allocation_map, files, stored, removal>>
  BY DEF CreateFolder, CanCreateFolder
<1>3. d \in Node /\ d # ROOT /\ ~Established(d) /\ d # parent
  BY <1>1, <1>2, EntryStoreAssumption DEF Node, Established
<1>4. folders[d].sub_files = {} /\ folders[d].sub_folders = {}
  <2>1. folders[d].sub_files \subseteq File /\ folders[d].sub_folders \subseteq Folder
    BY <1>3 DEF TreeInv, TypeOK
  <2>2. QED
    BY <1>3, <2>1 DEF TreeInv, BothEndsAgree, FolderLinksAgree, FileLinksAgree
<1>5. \A p \in Node : d \notin folders[p].sub_folders
  BY <1>1 DEF TreeInv, BothEndsAgree, FolderLinksAgree
<1>6. \A x \in Folder :
        folders_allocation_map'[x] = IF x = d THEN TRUE ELSE folders_allocation_map[x]
  BY <1>1 DEF TreeInv, TypeOK
<1>7. /\ folders' \in [Node -> FolderRecord]
      /\ \A x \in Node :
           /\ x = d => /\ folders'[x].parent_folder = parent /\ folders'[x].name = name
                       /\ folders'[x].sub_files = {} /\ folders'[x].sub_folders = {}
           /\ x = parent => folders'[x].sub_folders = folders[x].sub_folders \cup {d}
           /\ x \notin {d, parent} => folders'[x].sub_folders = folders[x].sub_folders
           /\ x # d => /\ folders'[x].parent_folder = folders[x].parent_folder
                       /\ folders'[x].name = folders[x].name
                       /\ folders'[x].sub_files = folders[x].sub_files
  <2> DEFINE new == [parent_folder |-> parent, name |-> name,
                     sub_files |-> {}, sub_folders |-> {}]
  <2>1. folders \in [Node -> FolderRecord]
    BY DEF TreeInv, TypeOK, FolderRecord
  <2>2. new \in FolderRecord
    BY DEF FolderRecord, NullableNode, NullableName
  <2>3. /\ new.parent_folder = parent /\ new.name = name
        /\ new.sub_files = {} /\ new.sub_folders = {}
    OBVIOUS
  <2>4. folders' = [folders EXCEPT ![d] = new, ![parent].sub_folders = @ \cup {d}]
    BY <1>1
  <2> HIDE DEF new
  <2>5. \A x \in Node :
          folders'[x] = IF x = d THEN new
                        ELSE IF x = parent
                             THEN [folders[x] EXCEPT !.sub_folders = @ \cup {d}]
                             ELSE folders[x]
    BY <1>3, <2>1, <2>4
  <2>6. ASSUME NEW r \in FolderRecord
        PROVE  /\ [r EXCEPT !.sub_folders = @ \cup {d}] \in FolderRecord
               /\ [r EXCEPT !.sub_folders = @ \cup {d}].sub_folders = r.sub_folders \cup {d}
               /\ [r EXCEPT !.sub_folders = @ \cup {d}].sub_files = r.sub_files
               /\ [r EXCEPT !.sub_folders = @ \cup {d}].name = r.name
               /\ [r EXCEPT !.sub_folders = @ \cup {d}].parent_folder = r.parent_folder
    BY DEF FolderRecord
  <2>7. \A x \in Node : folders'[x] \in FolderRecord
    BY <2>1, <2>2, <2>5, <2>6
  <2>8. folders' \in [Node -> FolderRecord]
    <3>1. DOMAIN folders' = Node /\ folders' = [x \in Node |-> folders'[x]]
      BY <2>1, <2>4
    <3>2. QED
      BY <2>7, <3>1
  <2>9. QED
    BY <1>3, <2>1, <2>3, <2>5, <2>6, <2>8
<1>8. \A p : Established(p)' <=> Established(p) \/ p = d
  BY <1>6 DEF Established
<1>9. SameFiles
  <2>1. \A x \in Node : folders'[x].sub_files = folders[x].sub_files
    BY <1>4, <1>7
  <2>2. ASSUME NEW g \in File, files_allocation_map[g]
        PROVE  Established(files[g].parent_folder)'
    <3>1. Established(files[g].parent_folder)
      BY <2>2 DEF TreeInv, BothEndsAgree, FileLinksAgree
    <3>2. QED
      BY <1>2, <1>6, <3>1 DEF Established
  <2>3. QED
    BY <1>2, <2>1, <2>2 DEF SameFiles
<1>10. FoldersFit
  <2>1. folders_allocation_map' \in [Folder -> BOOLEAN]
    BY <1>1 DEF TreeInv, TypeOK
  <2>2. ASSUME NEW x \in Node
        PROVE  Cardinality(folders'[x].sub_folders) <= MAX_SUB_FOLDERS_AMOUNT
    <3>1. MAX_SUB_FOLDERS_AMOUNT \in Nat /\ IsFiniteSet(folders[x].sub_folders)
      BY EntryStoreAssumption, EntriesFinite DEF TreeInv, TypeOK
    <3>2. Cardinality(folders[x].sub_folders) <= MAX_SUB_FOLDERS_AMOUNT
      BY DEF TreeInv, TypeOK
    <3>3. x = parent => Cardinality(folders[x].sub_folders) < MAX_SUB_FOLDERS_AMOUNT
      BY <1>2 DEF RoomForFolder
    <3>4. x = d => folders'[x].sub_folders = folders[x].sub_folders
      BY <1>4, <1>7
    <3>5. \/ folders'[x].sub_folders = folders[x].sub_folders
          \/ x = parent /\ folders'[x].sub_folders = folders[x].sub_folders \cup {d}
      BY <1>7, <3>4
    <3>6. QED
      BY <3>1, <3>2, <3>3, <3>5, AddAndRemove
  <2>3. QED
    BY <1>2, <1>7, <2>1, <2>2 DEF TreeInv, TypeOK, FoldersFit
<1>11. RootNamed'
  BY <1>3, <1>7 DEF TreeInv, RootNamed, Node
<1>12. FolderLinksAgree'
  <2>1. ASSUME NEW e \in Folder, NEW p \in Node
        PROVE  e \in folders'[p].sub_folders <=>
                 folders_allocation_map'[e] /\ Established(p)' /\ folders'[e].parent_folder = p
    <3>1. e \in folders[p].sub_folders <=>
            folders_allocation_map[e] /\ Established(p) /\ folders[e].parent_folder = p
      BY DEF TreeInv, BothEndsAgree, FolderLinksAgree
    <3>2. e \in Node
      BY DEF Node
    <3>3. CASE e = d
      <4>1. e \in folders'[p].sub_folders <=> p = parent
        BY <1>5, <1>7, <3>3
      <4>2. folders_allocation_map'[e] /\ folders'[e].parent_folder = parent
        BY <1>6, <1>7, <3>2, <3>3
      <4>3. QED
        BY <1>2, <1>8, <4>1, <4>2
    <3>4. CASE e # d
      <4>1. e \in folders'[p].sub_folders <=> e \in folders[p].sub_folders
        BY <1>4, <1>7, <3>4
      <4>2. /\ folders_allocation_map'[e] = folders_allocation_map[e]
            /\ folders'[e].parent_folder = folders[e].parent_folder
        BY <1>6, <1>7, <3>2, <3>4
      <4>3. folders_allocation_map[e] => Established(folders[e].parent_folder)
        BY DEF TreeInv, BothEndsAgree, FolderLinksAgree
      <4>4. QED
        BY <1>8, <3>1, <4>1, <4>2, <4>3
    <3>5. QED
      BY <3>3, <3>4
  <2>2. ASSUME NEW e \in Folder, folders_allocation_map'[e]
        PROVE  Established(folders[e].parent_folder)'
    <3>1. e \in Node
      BY DEF Node
    <3>2. CASE e = d
      <4>1. folders'[e].parent_folder = parent
        BY <1>7, <3>1, <3>2
      <4>2. QED
        BY <1>2, <1>6, <4>1 DEF Established
    <3>3. CASE e # d
      <4>1. folders_allocation_map[e] /\ folders'[e].parent_folder = folders[e].parent_folder
        BY <1>6, <1>7, <2>2, <3>1, <3>3
      <4>2. Established(folders[e].parent_folder)
        BY <4>1 DEF TreeInv, BothEndsAgree, FolderLinksAgree
      <4>3. QED
        BY <1>6, <4>1, <4>2 DEF Established
    <3>4. QED
      BY <3>2, <3>3
  <2>3. QED
    BY <2>1, <2>2 DEF FolderLinksAgree
<1>13. NoOrphans'
  <2> SUFFICES ASSUME NEW S \in SUBSET Node, ROOT \in S,
                      \A x \in S : folders'[x].sub_folders \subseteq S
               PROVE  EstablishedFolders' \subseteq S
    BY NoOrphansWhenClosed
  <2>1. \A x \in S : folders[x].sub_folders \subseteq folders'[x].sub_folders
    BY <1>4, <1>7
  <2>2. Closed(S)
    BY <2>1 DEF Closed
  <2>3. EstablishedFolders \subseteq S
    BY <2>2, ReachedFromRoot DEF TreeInv
  <2>4. d \in S
    <3>1. parent \in S
      BY <1>2, <2>3 DEF EstablishedFolders
    <3>2. QED
      BY <1>7, <3>1
  <2>5. QED
    BY <1>8, <2>3, <2>4 DEF EstablishedFolders
<1>14. ASSUME NEW p \in EstablishedFolders' PROVE FolderNamesUnique(p)'
  <2>1. p \in Node
    BY DEF EstablishedFolders
  <2>2. CASE p = d
    BY <1>7, <2>1, <2>2 DEF FolderNamesUnique
  <2>3. CASE p # d
    <3>1. p \in EstablishedFolders
      BY <1>8, <2>1, <2>3 DEF EstablishedFolders
    <3>2. FolderNamesUnique(p) /\ folders[p].sub_folders \subseteq Node
      BY <2>1, <3>1 DEF TreeInv, TypeOK, Node, NamesUnique, FolderNamesUnique
    <3>3. ASSUME NEW e \in folders'[p].sub_folders
          PROVE  \/ e \in folders[p].sub_folders /\ e # d /\ folders'[e].name = folders[e].name
                 \/ e = d /\ p = parent /\ folders'[e].name = name
      <4>1. CASE e \in folders[p].sub_folders
        BY <1>5, <1>7, <2>1, <3>2, <4>1
      <4>2. CASE e \notin folders[p].sub_folders
        <5>1. p = parent /\ e = d
          BY <1>7, <2>1, <2>3, <3>3, <4>2
        <5>2. QED
          BY <1>3, <1>7, <5>1
      <4>3. QED
        BY <4>1, <4>2
    <3>4. folders'[p].sub_files = folders[p].sub_files /\ files' = files
      BY <1>9, <2>1 DEF SameFiles
    <3>5. QED
      BY <1>2, <3>2, <3>3, <3>4, AvailableName DEF FolderNamesUnique
  <2>4. QED
    BY <2>2, <2>3
<1>15. QED
  BY <1>9, <1>10, <1>11, <1>12, <1>13, <1>14, FolderOperationKeeps

LEMMA RenameFolderKeeps ==
  ASSUME TreeInv, NEW d \in EstablishedFolders, NEW name \in Name, RenameFolder(d, name)
  PROVE  TreeInv'
<1> DEFINE parent == folders[d].parent_folder
<1>1. /\ d # ROOT /\ NameAvailable(parent, name)
      /\ folders' = [folders EXCEPT ![d].name = name]
      /\ status' = "SUCCESS"
      /\ UNCHANGED <<folders_allocation_map, files_allocation_map, files, stored, removal>>
  BY DEF RenameFolder, CanRenameFolder
<1>2. d \in Folder /\ d \in Node /\ folders_allocation_map[d]
  BY <1>1 DEF EstablishedFolders, Established, Node
<1>3. /\ folders' \in [Node -> FolderRecord]
      /\ \A x \in Node : /\ folders'[x].sub_folders = folders[x].sub_folders
                         /\ folders'[x].sub_files = folders[x].sub_files
                         /\ folders'[x].parent_folder = folders[x].parent_folder
                         /\ folders'[x].name = IF x = d THEN name ELSE folders[x].name
  BY <1>1, <1>2 DEF TreeInv, TypeOK, FolderRecord, NullableName
<1>4. \A p : Established(p)' <=> Established(p)
  BY <1>1 DEF Established
<1>5. SameFiles
  BY <1>1, <1>3 DEF SameFiles, TreeInv, BothEndsAgree, FileLinksAgree, Established
<1>6. FoldersFit
  BY <1>1, <1>3 DEF FoldersFit, TreeInv, TypeOK
<1>7. RootNamed'
  BY <1>1, <1>3 DEF TreeInv, RootNamed, Node
<1>8. FolderLinksAgree'
  <2>1. FolderLinksAgree /\ Folder \subseteq Node
    BY DEF TreeInv, BothEndsAgree, Node
  <2>2. QED
    BY <1>1, <1>3, <2>1 DEF FolderLinksAgree, Established
<1>9. NoOrphans'
  <2> SUFFICES ASSUME NEW S \in SUBSET Node, ROOT \in S,
                      \A x \in S : folders'[x].sub_folders \subseteq S
               PROVE  EstablishedFolders' \subseteq S
    BY NoOrphansWhenClosed
  <2>1. Closed(S)
    BY <1>3 DEF Closed
  <2>2. EstablishedFolders \subseteq S
    BY <2>1, ReachedFromRoot DEF TreeInv
  <2>3. QED
    BY <1>4, <2>2 DEF EstablishedFolders
<1>10. ASSUME NEW p \in EstablishedFolders' PROVE FolderNamesUnique(p)'
  <2>1. p \in Node /\ p \in EstablishedFolders
    BY <1>4 DEF EstablishedFolders
  <2>2. FolderNamesUnique(p) /\ folders[p].sub_folders \subseteq Node
    BY <2>1 DEF TreeInv, TypeOK, Node, NamesUnique, FolderNamesUnique
  <2>3. d \in folders[p].sub_folders => p = parent
    BY <1>2, <2>1 DEF TreeInv, BothEndsAgree, FolderLinksAgree
  <2>4. \A e \in folders[p].sub_folders :
          IF e = d THEN p = parent /\ folders'[e].name = name
          ELSE folders'[e].name = folders[e].name
    BY <1>3, <2>2, <2>3
  <2>5. /\ folders'[p].sub_folders = folders[p].sub_folders
        /\ folders'[p].sub_files = folders[p].sub_files /\ files' = files
    BY <1>1, <1>3, <2>1
  <2>6. QED
    BY <1>1, <2>2, <2>4, <2>5, AvailableName DEF FolderNamesUnique
<1>11. QED
  BY <1>5, <1>6, <1>7, <1>8, <1>9, <1>10, FolderOperationKeeps

\* The link of a folder is cut, whether the folder goes or moves.
LEMMA WithoutFolderIs ==
  ASSUME TypeOK, NEW d \in Folder, folders[d].parent_folder \in Node
  PROVE  /\ WithoutFolder(d) \in [Node -> FolderRecord]
         /\ \A x \in Node :
              /\ WithoutFolder(d)[x].sub_folders =
                   IF x = folders[d].parent_folder THEN folders[x].sub_folders \ {d}
                   ELSE folders[x].sub_folders
              /\ WithoutFolder(d)[x].sub_files = folders[x].sub_files
              /\ WithoutFolder(d)[x].name = folders[x].name
              /\ x # d => WithoutFolder(d)[x].parent_folder = folders[x].parent_folder
<1> DEFINE parent == folders[d].parent_folder
<1> DEFINE cut == [folders EXCEPT ![parent].sub_folders = @ \ {d}]
<1>1. d \in Node /\ folders \in [Node -> FolderRecord]
  BY DEF TypeOK, Node, FolderRecord
<1>2. WithoutFolder(d) = [cut EXCEPT ![d].parent_folder = NULL]
  BY DEF WithoutFolder
<1> HIDE DEF parent
<1>3. /\ cut \in [Node -> FolderRecord]
      /\ \A x \in Node : /\ cut[x].sub_folders = IF x = parent THEN folders[x].sub_folders \ {d}
                                                 ELSE folders[x].sub_folders
                         /\ cut[x].sub_files = folders[x].sub_files
                         /\ cut[x].name = folders[x].name
                         /\ cut[x].parent_folder = folders[x].parent_folder
  BY <1>1 DEF FolderRecord
<1> HIDE DEF cut
<1>4. /\ WithoutFolder(d) \in [Node -> FolderRecord]
      /\ \A x \in Node : /\ WithoutFolder(d)[x].sub_folders = cut[x].sub_folders
                         /\ WithoutFolder(d)[x].sub_files = cut[x].sub_files
                         /\ WithoutFolder(d)[x].name = cut[x].name
                         /\ x # d => WithoutFolder(d)[x].parent_folder = cut[x].parent_folder
  BY <1>1, <1>2, <1>3 DEF FolderRecord, NullableNode
<1>5. QED
  BY <1>3, <1>4 DEF parent

\* An established folder that is not the root has an established parent, which lists it.
LEMMA ParentOf ==
  ASSUME TreeInv, NEW d \in EstablishedFolders, d # ROOT
  PROVE  /\ d \in Folder /\ d \in Node /\ folders_allocation_map[d]
         /\ folders[d].parent_folder \in Node /\ Established(folders[d].parent_folder)
         /\ \A p \in Node : d \in folders[p].sub_folders <=> p = folders[d].parent_folder
BY DEF TreeInv, BothEndsAgree, FolderLinksAgree, EstablishedFolders, Established, Node

LEMMA MoveFolderKeeps ==
  ASSUME TreeInv, NEW d \in EstablishedFolders, NEW new_parent \in EstablishedFolders,
         MoveFolder(d, new_parent)
  PROVE  TreeInv'
<1> DEFINE parent == folders[d].parent_folder
<1>1. /\ NameAvailable(new_parent, folders[d].name) /\ new_parent \notin Subtree(d)
      /\ RoomForFolder(new_parent)
      /\ folders' = [WithoutFolder(d) EXCEPT ![new_parent].sub_folders = @ \cup {d},
                                             ![d].parent_folder = new_parent]
      /\ status' = "SUCCESS"
      /\ UNCHANGED <<folders_allocation_map, files_allocation_map, files, stored, removal>>
  BY DEF MoveFolder, CanMoveFolder, CyclicMoveExcluded
<1>2. d # ROOT
  BY <1>1, AvailableName DEF TreeInv, RootNamed
<1>3. /\ d \in Folder /\ d \in Node /\ folders_allocation_map[d]
      /\ parent \in Node /\ Established(parent)
      /\ \A p \in Node : d \in folders[p].sub_folders <=> p = parent
      /\ new_parent \in Node /\ Established(new_parent)
  BY <1>2, ParentOf DEF EstablishedFolders
<1>4. new_parent # parent /\ new_parent # d
  BY <1>1, <1>3, AvailableName, SubtreeClosed DEF TreeInv
<1>5. /\ folders' \in [Node -> FolderRecord]
      /\ \A x \in Node :
           /\ x = parent => folders'[x].sub_folders = folders[x].sub_folders \ {d}
           /\ x = new_parent => folders'[x].sub_folders = folders[x].sub_folders \cup {d}
           /\ x \notin {parent, new_parent} => folders'[x].sub_folders = folders[x].sub_folders
           /\ folders'[x].sub_files = folders[x].sub_files
           /\ folders'[x].name = folders[x].name
           /\ x # d => folders'[x].parent_folder = folders[x].parent_folder
           /\ x = d => folders'[x].parent_folder = new_parent
  <2> DEFINE cut == WithoutFolder(d)
  <2> DEFINE with == [cut EXCEPT ![new_parent].sub_folders = @ \cup {d}]
  <2>1. /\ cut \in [Node -> FolderRecord]
        /\ \A x \in Node :
             /\ cut[x].sub_folders = IF x = parent THEN folders[x].sub_folders \ {d}
                                     ELSE folders[x].sub_folders
             /\ cut[x].sub_files = folders[x].sub_files
             /\ cut[x].name = folders[x].name
             /\ x # d => cut[x].parent_folder = folders[x].parent_folder
    BY <1>3, WithoutFolderIs DEF TreeInv
  <2>2. folders' = [with EXCEPT ![d].parent_folder = new_parent]
    BY <1>1
  <2> HIDE DEF cut, parent
  <2>3. /\ with \in [Node -> FolderRecord]
        /\ \A x \in Node :
             /\ with[x].sub_folders = IF x = new_parent THEN cut[x].sub_folders \cup {d}
                                      ELSE cut[x].sub_folders
             /\ with[x].sub_files = cut[x].sub_files
             /\ with[x].name = cut[x].name
             /\ with[x].parent_folder = cut[x].parent_folder
    <3>1. \A x \in Node : cut[x] \in FolderRecord
      BY <2>1
    <3>2. [cut[new_parent] EXCEPT !.sub_folders = @ \cup {d}] \in FolderRecord
      BY <1>3, <3>1 DEF FolderRecord
    <3>3. with = [cut EXCEPT ![new_parent] =
                    [cut[new_parent] EXCEPT !.sub_folders = @ \cup {d}]]
      OBVIOUS
    <3>4. with \in [Node -> FolderRecord]
      BY <2>1, <3>2, <3>3
    <3>5. \A x \in Node : x # new_parent => with[x] = cut[x]
      BY <2>1, <3>3
    <3>6. with[new_parent] = [cut[new_parent] EXCEPT !.sub_folders = @ \cup {d}]
      BY <1>3, <2>1, <3>3
    <3>7. /\ with[new_parent].sub_folders = cut[new_parent].sub_folders \cup {d}
          /\ with[new_parent].sub_files = cut[new_parent].sub_files
          /\ with[new_parent].name = cut[new_parent].name
          /\ with[new_parent].parent_folder = cut[new_parent].parent_folder
      BY <1>3, <3>1, <3>6 DEF FolderRecord
    <3>8. QED
      BY <3>4, <3>5, <3>7
  <2> HIDE DEF with
  <2>4. /\ folders' \in [Node -> FolderRecord]
        /\ \A x \in Node :
             /\ folders'[x].sub_folders = with[x].sub_folders
             /\ folders'[x].sub_files = with[x].sub_files
             /\ folders'[x].name = with[x].name
             /\ folders'[x].parent_folder = IF x = d THEN new_parent ELSE with[x].parent_folder
    BY <1>3, <2>2, <2>3 DEF FolderRecord, NullableNode
  <2>5. ASSUME NEW x \in Node
        PROVE  folders'[x].sub_folders =
                 IF x = new_parent
                 THEN (IF x = parent THEN folders[x].sub_folders \ {d}
                       ELSE folders[x].sub_folders) \cup {d}
                 ELSE IF x = parent THEN folders[x].sub_folders \ {d}
                 ELSE folders[x].sub_folders
    BY <2>1, <2>3, <2>4
  <2>6. ASSUME NEW x \in Node
        PROVE  /\ folders'[x].sub_files = folders[x].sub_files
               /\ folders'[x].name = folders[x].name
               /\ x # d => folders'[x].parent_folder = folders[x].parent_folder
               /\ x = d => folders'[x].parent_folder = new_parent
    BY <2>1, <2>3, <2>4
  <2>7. new_parent # parent
    BY <1>4 DEF parent
  <2>8. QED
    BY <2>4, <2>5, <2>6, <2>7
<1> HIDE DEF parent
<1>6. \A p : Established(p)' <=> Established(p)
  BY <1>1 DEF Established
<1>7. SameFiles
  BY <1>1, <1>5 DEF SameFiles, TreeInv, BothEndsAgree, FileLinksAgree, Established
<1>8. FoldersFit
  <2>1. ASSUME NEW x \in Node
        PROVE  Cardinality(folders'[x].sub_folders) <= MAX_SUB_FOLDERS_AMOUNT
    <3>1. MAX_SUB_FOLDERS_AMOUNT \in Nat /\ IsFiniteSet(folders[x].sub_folders)
      BY EntryStoreAssumption, EntriesFinite DEF TreeInv, TypeOK
    <3>2. Cardinality(folders[x].sub_folders) <= MAX_SUB_FOLDERS_AMOUNT
      BY DEF TreeInv, TypeOK
    <3>3. x = new_parent => Cardinality(folders[x].sub_folders) < MAX_SUB_FOLDERS_AMOUNT
      BY <1>1 DEF RoomForFolder
    <3>4. \/ folders'[x].sub_folders = folders[x].sub_folders
          \/ folders'[x].sub_folders = folders[x].sub_folders \ {d}
          \/ x = new_parent /\ folders'[x].sub_folders = folders[x].sub_folders \cup {d}
      BY <1>5
    <3>5. QED
      BY <3>1, <3>2, <3>3, <3>4, AddAndRemove
  <2>2. QED
    BY <1>1, <1>5, <2>1 DEF TreeInv, TypeOK, FoldersFit
<1>9. RootNamed'
  BY <1>5 DEF TreeInv, RootNamed, Node
<1>10. FolderLinksAgree'
  <2>1. ASSUME NEW e \in Folder, NEW p \in Node
        PROVE  e \in folders'[p].sub_folders <=>
                 folders_allocation_map'[e] /\ Established(p)' /\ folders'[e].parent_folder = p
    <3>1. e \in folders[p].sub_folders <=>
            folders_allocation_map[e] /\ Established(p) /\ folders[e].parent_folder = p
      BY DEF TreeInv, BothEndsAgree, FolderLinksAgree
    <3>2. e \in Node
      BY DEF Node
    <3>3. CASE e = d
      <4>1. e \in folders'[p].sub_folders <=> p = new_parent
        BY <1>3, <1>5, <3>3
      <4>2. folders_allocation_map'[e] /\ folders'[e].parent_folder = new_parent
        BY <1>1, <1>3, <1>5, <3>2, <3>3
      <4>3. QED
        BY <1>3, <1>6, <4>1, <4>2
    <3>4. CASE e # d
      <4>1. e \in folders'[p].sub_folders <=> e \in folders[p].sub_folders
        BY <1>5, <3>4
      <4>2. /\ folders_allocation_map'[e] = folders_allocation_map[e]
            /\ folders'[e].parent_folder = folders[e].parent_folder
        BY <1>1, <1>5, <3>2, <3>4
      <4>3. QED
        BY <1>6, <3>1, <4>1, <4>2
    <3>5. QED
      BY <3>3, <3>4
  <2>2. ASSUME NEW e \in Folder, folders_allocation_map'[e]
        PROVE  Established(folders[e].parent_folder)'
    <3>1. e \in Node
      BY DEF Node
    <3>2. CASE e = d
      <4>1. folders'[e].parent_folder = new_parent
        BY <1>5, <3>1, <3>2
      <4>2. QED
        BY <1>1, <1>3, <4>1 DEF Established
    <3>3. CASE e # d
      <4>1. folders_allocation_map[e] /\ folders'[e].parent_folder = folders[e].parent_folder
        BY <1>1, <1>5, <2>2, <3>1, <3>3
      <4>2. Established(folders[e].parent_folder)
        BY <4>1 DEF TreeInv, BothEndsAgree, FolderLinksAgree
      <4>3. QED
        BY <1>1, <4>1, <4>2 DEF Established
    <3>4. QED
      BY <3>2, <3>3
  <2>3. QED
    BY <2>1, <2>2 DEF FolderLinksAgree
\* A closed set with the root holds the new parent, for that is not below d; so it
\* holds d, and with d all that has moved.
<1>11. NoOrphans'
  <2> SUFFICES ASSUME NEW S \in SUBSET Node, ROOT \in S,
                      \A x \in S : folders'[x].sub_folders \subseteq S
               PROVE  EstablishedFolders' \subseteq S
    BY NoOrphansWhenClosed
  <2>1. Subtree(d) \subseteq Node /\ Closed(Subtree(d)) /\ d \in Subtree(d)
    BY <1>3, SubtreeClosed DEF TreeInv
  <2>2. \A x \in S : folders[x].sub_folders \subseteq S \cup {d}
    BY <1>5
  <2>3. Closed(S \cup Subtree(d))
    BY <2>1, <2>2 DEF Closed
  <2>4. EstablishedFolders \subseteq S \cup Subtree(d)
    <3>1. S \cup Subtree(d) \in SUBSET Node /\ ROOT \in S \cup Subtree(d)
      BY <2>1
    <3>2. QED
      BY <2>3, <3>1, ReachedFromRoot DEF TreeInv
  <2>5. new_parent \in S
    BY <1>1, <2>4
  <2>6. d \in S
    BY <1>3, <1>5, <2>5
  <2>7. Closed(S)
    BY <2>2, <2>6 DEF Closed
  <2>8. EstablishedFolders \subseteq S
    BY <2>7, ReachedFromRoot DEF TreeInv
  <2>9. QED
    BY <1>6, <2>8 DEF EstablishedFolders
<1>12. ASSUME NEW p \in EstablishedFolders' PROVE FolderNamesUnique(p)'
  <2>1. p \in Node /\ p \in EstablishedFolders
    BY <1>6 DEF EstablishedFolders
  <2>2. FolderNamesUnique(p) /\ folders[p].sub_folders \subseteq Node
    BY <2>1 DEF TreeInv, TypeOK, Node, NamesUnique, FolderNamesUnique
  <2>3. ASSUME NEW e \in folders'[p].sub_folders
        PROVE  /\ folders'[e].name = folders[e].name
               /\ e \in folders[p].sub_folders \/ (e = d /\ p = new_parent)
    <3>1. e \in folders[p].sub_folders \/ (e = d /\ p = new_parent)
      BY <1>5, <2>1, <2>3
    <3>2. QED
      BY <1>3, <1>5, <2>2, <3>1
  <2>4. folders'[p].sub_files = folders[p].sub_files /\ files' = files
    BY <1>1, <1>5, <2>1
  <2>5. p = new_parent =>
          /\ \A g \in folders[p].sub_files : files[g].name # folders[d].name
          /\ \A e \in folders[p].sub_folders : folders[e].name # folders[d].name
    BY <1>1, AvailableName
  <2>6. QED
    BY <2>2, <2>3, <2>4, <2>5 DEF FolderNamesUnique
<1>13. QED
  BY <1>7, <1>8, <1>9, <1>10, <1>11, <1>12, FolderOperationKeeps

\* The step of any deletion of a folder, in a removal or not. Only d is gone, and
\* only its link.
LEMMA DeleteFlatFolderKeeps ==
  ASSUME TreeInv, NEW d \in EstablishedFolders, DeleteFlatFolder(d),
         removal' \in Seq(Node), status' \in {"SUCCESS", "FAILURE", "RUNNING"}
  PROVE  /\ TreeInv'
         /\ \A p : Established(p)' <=> Established(p) /\ p # d
         /\ \A p \in Node : folders'[p].sub_folders = folders[p].sub_folders \ {d}
<1> DEFINE parent == folders[d].parent_folder
<1>1. /\ d # ROOT /\ folders[d].sub_files = {} /\ folders[d].sub_folders = {}
      /\ folders' = [WithoutFolder(d) EXCEPT ![d].name = NULL]
      /\ folders_allocation_map' = [folders_allocation_map EXCEPT ![d] = FALSE]
      /\ UNCHANGED <<files, files_allocation_map, stored>>
  BY DEF DeleteFlatFolder, HasSubEntries
<1>2. /\ d \in Folder /\ d \in Node /\ parent \in Node
      /\ \A p \in Node : d \in folders[p].sub_folders <=> p = parent
  BY <1>1, ParentOf
<1>3. /\ folders' \in [Node -> FolderRecord]
      /\ \A x \in Node :
           /\ folders'[x].sub_folders = folders[x].sub_folders \ {d}
           /\ folders'[x].sub_files = folders[x].sub_files
           /\ x # d => /\ folders'[x].name = folders[x].name
                       /\ folders'[x].parent_folder = folders[x].parent_folder
  <2> DEFINE cut == WithoutFolder(d)
  <2>1. /\ cut \in [Node -> FolderRecord]
        /\ \A x \in Node :
             /\ cut[x].sub_folders = IF x = parent THEN folders[x].sub_folders \ {d}
                                     ELSE folders[x].sub_folders
             /\ cut[x].sub_files = folders[x].sub_files
             /\ cut[x].name = folders[x].name
             /\ x # d => cut[x].parent_folder = folders[x].parent_folder
    BY <1>2, WithoutFolderIs DEF TreeInv
  <2>2. folders' = [cut EXCEPT ![d].name = NULL]
    BY <1>1
  <2> HIDE DEF cut, parent
  <2>3. /\ folders' \in [Node -> FolderRecord]
        /\ \A x \in Node :
             /\ folders'[x].sub_folders = cut[x].sub_folders
             /\ folders'[x].sub_files = cut[x].sub_files
             /\ x # d => /\ folders'[x].name = cut[x].name
                         /\ folders'[x].parent_folder = cut[x].parent_folder
    BY <1>2, <2>1, <2>2 DEF FolderRecord, NullableName
  <2>4. ASSUME NEW x \in Node
        PROVE  cut[x].sub_folders = folders[x].sub_folders \ {d}
    <3>1. CASE x = parent
      BY <2>1, <3>1
    <3>2. CASE x # parent
      <4>1. d \notin folders[x].sub_folders
        BY <1>2, <3>2 DEF parent
      <4>2. QED
        BY <2>1, <3>2, <4>1
    <3>3. QED
      BY <3>1, <3>2
  <2>5. ASSUME NEW x \in Node
        PROVE  /\ folders'[x].sub_folders = folders[x].sub_folders \ {d}
               /\ folders'[x].sub_files = folders[x].sub_files
               /\ x # d => /\ folders'[x].name = folders[x].name
                           /\ folders'[x].parent_folder = folders[x].parent_folder
    BY <2>1, <2>3, <2>4
  <2>6. QED
    BY <2>3, <2>5
<1> HIDE DEF parent
<1>4. \A e \in Folder :
        folders_allocation_map'[e] = IF e = d THEN FALSE ELSE folders_allocation_map[e]
  BY <1>1, <1>2 DEF TreeInv, TypeOK
<1>5. \A p : Established(p)' <=> Established(p) /\ p # d
  BY <1>1, <1>4 DEF Established
<1>6. SameFiles
  <2>1. ASSUME NEW g \in File, files_allocation_map[g]
        PROVE  Established(files[g].parent_folder)'
    <3>1. Established(files[g].parent_folder)
      BY <2>1 DEF TreeInv, BothEndsAgree, FileLinksAgree
    <3>2. files[g].parent_folder # d
      BY <1>1, <1>2, <2>1, <3>1 DEF TreeInv, BothEndsAgree, FileLinksAgree
    <3>3. QED
      BY <1>1, <1>4, <3>1, <3>2 DEF Established
  <2>2. QED
    BY <1>1, <1>3, <2>1 DEF SameFiles
<1>7. FoldersFit
  <2>1. ASSUME NEW x \in Node
        PROVE  Cardinality(folders'[x].sub_folders) <= MAX_SUB_FOLDERS_AMOUNT
    <3>1. MAX_SUB_FOLDERS_AMOUNT \in Nat /\ IsFiniteSet(folders[x].sub_folders)
      BY EntryStoreAssumption, EntriesFinite DEF TreeInv, TypeOK
    <3>2. Cardinality(folders[x].sub_folders) <= MAX_SUB_FOLDERS_AMOUNT
      BY DEF TreeInv, TypeOK
    <3>3. QED
      BY <1>3, <3>1, <3>2, AddAndRemove
  <2>2. folders_allocation_map' \in [Folder -> BOOLEAN]
    BY <1>1 DEF TreeInv, TypeOK
  <2>3. QED
    BY <1>3, <2>1, <2>2 DEF FoldersFit
<1>8. RootNamed'
  BY <1>1, <1>3 DEF TreeInv, RootNamed, Node
<1>9. FolderLinksAgree'
  <2>1. ASSUME NEW e \in Folder, NEW p \in Node
        PROVE  e \in folders'[p].sub_folders <=>
                 folders_allocation_map'[e] /\ Established(p)' /\ folders'[e].parent_folder = p
    <3>1. e \in folders[p].sub_folders <=>
            folders_allocation_map[e] /\ Established(p) /\ folders[e].parent_folder = p
      BY DEF TreeInv, BothEndsAgree, FolderLinksAgree
    <3>2. e \in Node
      BY DEF Node
    <3>3. CASE e = d
      BY <1>3, <1>4, <3>3
    <3>4. CASE e # d
      <4>1. e \in folders'[p].sub_folders <=> e \in folders[p].sub_folders
        BY <1>3, <3>4
      <4>2. /\ folders_allocation_map'[e] = folders_allocation_map[e]
            /\ folders'[e].parent_folder = folders[e].parent_folder
        BY <1>3, <1>4, <3>2, <3>4
      <4>3. e \in folders[p].sub_folders => p # d
        BY <1>1
      <4>4. QED
        BY <1>5, <3>1, <4>1, <4>2, <4>3
    <3>5. QED
      BY <3>3, <3>4
  <2>2. ASSUME NEW e \in Folder, folders_allocation_map'[e]
        PROVE  Established(folders[e].parent_folder)'
    <3>1. /\ e # d /\ e \in Node /\ folders_allocation_map[e]
          /\ folders'[e].parent_folder = folders[e].parent_folder
      BY <1>3, <1>4, <2>2 DEF Node
    <3>2. Established(folders[e].parent_folder)
      BY <3>1 DEF TreeInv, BothEndsAgree, FolderLinksAgree
    <3>3. folders[e].parent_folder # d
      BY <1>1, <1>2, <3>1, <3>2 DEF TreeInv, BothEndsAgree, FolderLinksAgree
    <3>4. QED
      BY <1>4, <3>1, <3>2, <3>3 DEF Established
  <2>3. QED
    BY <2>1, <2>2 DEF FolderLinksAgree
<1>10. NoOrphans'
  <2> SUFFICES ASSUME NEW S \in SUBSET Node, ROOT \in S,
                      \A x \in S : folders'[x].sub_folders \subseteq S
               PROVE  EstablishedFolders' \subseteq S
    BY NoOrphansWhenClosed
  <2>1. Closed(S \cup {d})
    BY <1>1, <1>3 DEF Closed
  <2>2. EstablishedFolders \subseteq S \cup {d}
    <3>1. S \cup {d} \in SUBSET Node /\ ROOT \in S \cup {d}
      BY <1>2
    <3>2. QED
      BY <2>1, <3>1, ReachedFromRoot DEF TreeInv
  <2>3. QED
    BY <1>5, <2>2 DEF EstablishedFolders
<1>11. ASSUME NEW p \in EstablishedFolders' PROVE FolderNamesUnique(p)'
  <2>1. p \in Node /\ p \in EstablishedFolders
    BY <1>5 DEF EstablishedFolders
  <2>2. FolderNamesUnique(p) /\ folders[p].sub_folders \subseteq Node
    BY <2>1 DEF TreeInv, TypeOK, Node, NamesUnique, FolderNamesUnique
  <2>3. \A e \in folders'[p].sub_folders :
          e \in folders[p].sub_folders /\ folders'[e].name = folders[e].name
    BY <1>3, <2>1, <2>2
  <2>4. folders'[p].sub_files = folders[p].sub_files /\ files' = files
    BY <1>1, <1>3, <2>1
  <2>5. QED
    BY <2>2, <2>3, <2>4 DEF FolderNamesUnique
<1>12. TreeInv'
  BY <1>6, <1>7, <1>8, <1>9, <1>10, <1>11, FolderOperationKeeps
<1>13. QED
  BY <1>3, <1>5, <1>12

\* An answer, or a call of a removal, changes no entry.
LEMMA TreeUnchanged ==
  ASSUME TreeInv, removal' \in Seq(Node), status' \in {"SUCCESS", "FAILURE", "RUNNING"},
         UNCHANGED <<folders_allocation_map, files_allocation_map, folders, files>>,
         stored' \subseteq EstablishedFiles
  PROVE  TreeInv'
<1>1. TypeOK'
  BY DEF TreeInv, TypeOK, EstablishedFiles
<1>2. RootNamed' /\ BothEndsAgree' /\ NoOrphanData'
  BY DEF TreeInv, RootNamed, BothEndsAgree, FolderLinksAgree, FileLinksAgree, Established,
         NoOrphanData, EstablishedFiles
<1>3. NamesUnique' /\ NoOrphans'
  BY DEF TreeInv, NamesUnique, NoOrphans, EstablishedFolders, Established, Subtree
<1>4. QED
  BY <1>1, <1>2, <1>3 DEF TreeInv

-----------------------------------------------------------------------------
(* The stack of calls of a removal *)

\* The call that runs is in an established folder, at or below the one that was given.
LEMMA InsideFits ==
  ASSUME TypeOK, CallInv, Running
  PROVE  /\ Len(removal) \in Nat \ {0} /\ 1 \in 1 .. Len(removal)
         /\ Inside \in EstablishedFolders /\ Inside \in Subtree(removal[1])
         /\ \A i \in 1 .. Len(removal) : removal[i] \in Node
<1>1. /\ removal \in Seq(Node) /\ removal # <<>>
      /\ Len(removal) \in 1 .. Len(removal) /\ Len(removal) \in Nat \ {0}
      /\ 1 \in 1 .. Len(removal)
  BY DEF TypeOK, Running
<1>2. Established(Inside) /\ Inside \in Subtree(removal[1])
  BY <1>1 DEF CallInv, CallsInEstablished, CallsBelow, Inside
<1>3. \A i \in 1 .. Len(removal) : removal[i] \in Node
  BY <1>1
<1>4. QED
  BY <1>1, <1>2, <1>3 DEF Inside, EstablishedFolders

\* No call, nothing to show.
LEMMA NoCalls ==
  ASSUME removal' = <<>>
  PROVE  CallInv'
BY DEF CallInv, CallsInEstablished, CallsBelow

\* Folders without sub folders may go, when no call that is left is in them.
LEMMA CallsKept ==
  ASSUME TypeOK, CallInv, removal' \in Seq(Node), NEW gone \in SUBSET Node,
         \A d \in gone : folders[d].sub_folders = {},
         \A x \in Node : folders'[x].sub_folders = folders[x].sub_folders \ gone,
         \A p : Established(p)' <=> Established(p) /\ p \notin gone,
         Len(removal') <= Len(removal),
         \A i \in 1 .. Len(removal') : removal'[i] = removal[i] /\ removal[i] \notin gone
  PROVE  CallInv'
<1>1. /\ Len(removal) \in Nat /\ Len(removal') \in Nat
      /\ 1 .. Len(removal') \subseteq 1 .. Len(removal)
      /\ \A i \in 1 .. Len(removal') : i - 1 \in 1 .. Len(removal') \/ i = 1
      /\ \A i \in 1 .. Len(removal) : removal[i] \in Node
  BY DEF TypeOK
<1>2. ASSUME NEW i \in 1 .. Len(removal')
      PROVE  /\ Established(removal[i])'
             /\ i > 1 => removal'[i] \in folders'[removal'[i - 1]].sub_folders
  <2>1. /\ Established(removal[i])
        /\ i > 1 => removal[i] \in folders[removal[i - 1]].sub_folders
    BY <1>1 DEF CallInv, CallsInEstablished
  <2>2. removal'[i] = removal[i] /\ removal[i] \notin gone
    OBVIOUS
  <2>3. Established(removal[i])'
    BY <2>1, <2>2 DEF Established
  <2>4. ASSUME i > 1 PROVE removal'[i] \in folders'[removal'[i - 1]].sub_folders
    <3>1. i - 1 \in 1 .. Len(removal')
      BY <1>1, <2>4
    <3>2. removal'[i - 1] = removal[i - 1] /\ removal[i - 1] \in Node
      BY <1>1, <3>1
    <3>3. QED
      BY <2>1, <2>2, <2>4, <3>2
  <2>5. QED
    BY <2>3, <2>4
<1>3. ASSUME NEW i \in 1 .. Len(removal'), NEW S \in SUBSET Node, removal'[1] \in S,
             \A x \in S : folders'[x].sub_folders \subseteq S
      PROVE  removal'[i] \in S
  <2>1. S \cup gone \in SUBSET Node
    OBVIOUS
  <2>2. \A x \in S \cup gone : folders[x].sub_folders \subseteq S \cup gone
    <3>1. ASSUME NEW x \in S PROVE folders[x].sub_folders \subseteq S \cup gone
      BY <1>3
    <3>2. QED
      BY <3>1
  <2>3. 1 \in 1 .. Len(removal')
    BY <1>1
  <2>4. removal[1] \in S \cup gone
    BY <1>3, <2>3
  <2>5. removal[i] \in Subtree(removal[1])
    BY <1>1 DEF CallInv, CallsBelow
  <2>6. removal[i] \in S \cup gone
    BY <2>1, <2>2, <2>4, <2>5 DEF Subtree
  <2>7. QED
    BY <2>6
<1>4. \A i \in 1 .. Len(removal') : removal'[i] \in Node
  BY <1>1
<1>5. CallsInEstablished'
  BY <1>2 DEF CallsInEstablished
<1>6. CallsBelow'
  BY <1>3, <1>4 DEF CallsBelow, Subtree
<1>7. QED
  BY <1>5, <1>6 DEF CallInv

-----------------------------------------------------------------------------
(* The inductive invariant is kept *)

LEMMA InitEstablishes == TreeInit => IInv
<1> SUFFICES ASSUME TreeInit PROVE IInv
  OBVIOUS
<1> USE DEF TreeInit
<1>1. folders \in [Node -> FolderRecord]
  BY EntryStoreAssumption DEF FolderRecord, FreeFolder, NullableNode, NullableName, Node
<1>2. \A x \in Node : folders[x].sub_files = {} /\ folders[x].sub_folders = {}
  BY DEF FreeFolder
<1>3. Cardinality({}) = 0
  BY FS_EmptySet
<1>4. TypeOK
  <2>1. ASSUME NEW d \in Node
        PROVE  /\ Cardinality(folders[d].sub_files) <= MAX_SUB_FILES_AMOUNT
               /\ Cardinality(folders[d].sub_folders) <= MAX_SUB_FOLDERS_AMOUNT
    <3>1. 0 <= MAX_SUB_FILES_AMOUNT /\ 0 <= MAX_SUB_FOLDERS_AMOUNT
      BY EntryStoreAssumption
    <3>2. /\ Cardinality(folders[d].sub_files) = 0
          /\ Cardinality(folders[d].sub_folders) = 0
      BY <1>2, <1>3
    <3>3. QED
      BY <3>1, <3>2
  <2>2. files \in [File -> FileRecord]
    BY DEF FileRecord, FreeFile, NullableNode, NullableName
  <2>3. QED
    BY <1>1, <2>1, <2>2 DEF TypeOK, FolderRecord, FileRecord
<1>5. \A p : Established(p) <=> p = ROOT
  BY DEF Established
<1>6. RootNamed
  BY DEF RootNamed, Node, FreeFolder
<1>7. BothEndsAgree /\ NamesUnique /\ NoOrphanData
  BY <1>2 DEF BothEndsAgree, FolderLinksAgree, FileLinksAgree, NamesUnique, NoOrphanData,
              EstablishedFolders
<1>8. NoOrphans
  BY <1>5 DEF NoOrphans, EstablishedFolders, Subtree
<1>9. CallInv
  BY DEF CallInv, CallsInEstablished, CallsBelow
<1>10. QED
  BY <1>4, <1>6, <1>7, <1>8, <1>9 DEF IInv, TreeInv

LEMMA OperationPreserves == IInv /\ Operation /\ Defined' => IInv'
<1> SUFFICES ASSUME IInv, Operation, Defined' PROVE IInv'
  OBVIOUS
<1>1. TreeInv /\ TypeOK /\ removal = <<>> /\ removal \in Seq(Node) /\ stored \subseteq EstablishedFiles
  BY DEF IInv, TreeInv, Operation, Running, TypeOK, NoOrphanData
<1>2. removal' = removal => CallInv'
  BY <1>1, NoCalls
<1>3. ASSUME NEW parent \in Node, NEW name \in Name,
             CreateFile(parent, name) \/ CreateFolder(parent, name)
      PROVE  IInv'
  <2>1. TreeInv'
    BY <1>1, <1>3, CreateFileKeeps, CreateFolderKeeps
  <2>2. removal' = removal
    BY <1>3 DEF CreateFile, CreateFolder
  <2>3. QED
    BY <1>2, <2>1, <2>2 DEF IInv
<1>4. ASSUME NEW f \in EstablishedFiles, NEW name \in Name, RenameFile(f, name)
      PROVE  IInv'
  BY <1>1, <1>2, <1>4, RenameFileKeeps DEF RenameFile, IInv
<1>5. ASSUME NEW d \in EstablishedFolders, NEW name \in Name, RenameFolder(d, name)
      PROVE  IInv'
  BY <1>1, <1>2, <1>5, RenameFolderKeeps DEF RenameFolder, IInv
<1>6. ASSUME NEW f \in EstablishedFiles, NEW d \in EstablishedFolders, MoveFile(f, d)
      PROVE  IInv'
  BY <1>1, <1>2, <1>6, MoveFileKeeps DEF MoveFile, IInv
<1>7. ASSUME NEW d \in EstablishedFolders, NEW e \in EstablishedFolders, MoveFolder(d, e)
      PROVE  IInv'
  BY <1>1, <1>2, <1>7, MoveFolderKeeps DEF MoveFolder, IInv
<1>8. ASSUME NEW f \in EstablishedFiles, StoreData(f) \/ ClearData(f)
      PROVE  IInv'
  <2>1. /\ removal' = removal /\ status' = "SUCCESS" /\ stored' \subseteq EstablishedFiles
        /\ UNCHANGED <<folders_allocation_map, files_allocation_map, folders, files>>
    BY <1>1, <1>8 DEF StoreData, ClearData
  <2>2. QED
    BY <1>1, <1>2, <2>1, TreeUnchanged DEF IInv
<1>9. ASSUME NEW f \in EstablishedFiles, RemoveFile(f)
      PROVE  IInv'
  BY <1>1, <1>2, <1>9, DeleteVfsFileKeeps DEF RemoveFile, IInv
<1>10. ASSUME NEW d \in EstablishedFolders, RemoveFolder(d)
       PROVE  IInv'
  BY <1>1, <1>2, <1>10, DeleteFlatFolderKeeps DEF RemoveFolder, IInv
<1>11. ASSUME NEW d \in EstablishedFolders, RemoveTree(d)
       PROVE  IInv'
  <2>1. /\ removal' = <<d>> /\ status' = "RUNNING"
        /\ UNCHANGED <<folders_allocation_map, files_allocation_map, folders, files, stored>>
    BY <1>11 DEF RemoveTree
  <2>2. d \in Node /\ Established(d)
    BY DEF EstablishedFolders
  <2>3. TreeInv'
    <3>1. removal' \in Seq(Node)
      BY <2>1, <2>2
    <3>2. QED
      BY <1>1, <2>1, <3>1, TreeUnchanged
  <2>4. Len(removal') = 1 /\ removal'[1] = d
    BY <2>1
  <2>5. \A i \in 1 .. Len(removal') : i = 1 /\ removal'[i] = d
    BY <2>4
  <2>6. CallInv'
    BY <2>1, <2>2, <2>4, <2>5 DEF CallInv, CallsInEstablished, CallsBelow, Established, Subtree
  <2>7. QED
    BY <2>3, <2>6 DEF IInv
<1>12. CASE Refused
  BY <1>1, <1>2, <1>12, TreeUnchanged DEF Refused, Refuse, entries, IInv
<1>13. \A f, name : ~RenameFileOverrun(f, name)
  BY DEF RenameFileOverrun, Defined
<1>14. QED
  BY <1>3, <1>4, <1>5, <1>6, <1>7, <1>8, <1>9, <1>10, <1>11, <1>12, <1>13 DEF Operation

LEMMA RemovalPreserves == IInv /\ Defined /\ RemovalStep => IInv'
<1> SUFFICES ASSUME IInv, Defined, RemovalStep PROVE IInv'
  OBVIOUS
<1>1. /\ TreeInv /\ TypeOK /\ CallInv /\ stored \subseteq EstablishedFiles
      /\ removal \in Seq(Node) /\ status \in {"SUCCESS", "FAILURE", "RUNNING"}
  BY DEF IInv, TreeInv, TypeOK, NoOrphanData, Defined
<1>2. Running
  BY DEF RemovalStep, RemoveSubFile, RemoveSubFolder, RemovalTooDeep, RemoveInside,
         RemovalOfRoot
<1>3. /\ Len(removal) \in Nat \ {0} /\ 1 \in 1 .. Len(removal)
      /\ Inside \in EstablishedFolders /\ Inside \in Subtree(removal[1]) /\ Inside \in Node
      /\ \A i \in 1 .. Len(removal) : removal[i] \in Node
  BY <1>1, <1>2, InsideFits DEF EstablishedFolders
<1>4. CASE RemoveSubFile
  <2>1. PICK f \in folders[Inside].sub_files : DeleteVfsFile(f)
    BY <1>4 DEF RemoveSubFile
  <2>2. f \in EstablishedFiles
    BY <1>1, <1>3 DEF TreeInv, TypeOK, BothEndsAgree, FileLinksAgree, EstablishedFiles
  <2>3. removal' = removal /\ status' = status
    BY <1>4 DEF RemoveSubFile
  <2>4. TreeInv' /\ SameFolders
    BY <1>1, <2>1, <2>2, <2>3, DeleteVfsFileKeeps
  <2>5. \A p : Established(p)' <=> Established(p) /\ p \notin {}
    BY <1>1, <2>4, FoldersKept
  <2>6. \A x \in Node : folders'[x].sub_folders = folders[x].sub_folders \ {}
    BY <2>4 DEF SameFolders
  <2>7. CallInv'
    <3>1. /\ \A d \in {} : folders[d].sub_folders = {}
          /\ removal' \in Seq(Node) /\ Len(removal') <= Len(removal)
          /\ \A i \in 1 .. Len(removal') : removal'[i] = removal[i] /\ removal[i] \notin {}
      BY <1>1, <1>3, <2>3
    <3>2. QED
      BY <1>1, <2>5, <2>6, <3>1, CallsKept, {} \in SUBSET Node
  <2>8. QED
    BY <2>4, <2>7 DEF IInv
<1>5. CASE RemoveSubFolder
  <2>1. PICK d \in folders[Inside].sub_folders : removal' = Append(removal, d)
    BY <1>5 DEF RemoveSubFolder
  <2>2. UNCHANGED <<folders_allocation_map, files_allocation_map, folders, files, stored, status>>
    BY <1>5 DEF RemoveSubFolder
  <2>3. d \in Node /\ Established(d)
    BY <1>1, <1>3 DEF TreeInv, TypeOK, BothEndsAgree, FolderLinksAgree, Established, Node
  <2>4. removal' \in Seq(Node)
    BY <1>1, <2>1, <2>3
  <2>5. TreeInv'
    BY <1>1, <2>2, <2>4, TreeUnchanged
  <2>6. /\ Len(removal') = Len(removal) + 1 /\ removal'[Len(removal) + 1] = d
        /\ \A i \in 1 .. Len(removal) : removal'[i] = removal[i]
    BY <1>1, <2>1
  <2>7. d \in Subtree(removal[1])
    <3>1. removal[1] \in Node
      BY <1>3
    <3>2. Closed(Subtree(removal[1]))
      BY <1>1, <3>1, SubtreeClosed
    <3>3. QED
      BY <1>3, <3>2 DEF Closed
  <2>8. ASSUME NEW i \in 1 .. Len(removal')
        PROVE  /\ Established(removal'[i]) /\ removal'[i] \in Subtree(removal[1])
               /\ i > 1 => removal'[i] \in folders[removal'[i - 1]].sub_folders
    <3>1. CASE i \in 1 .. Len(removal)
      <4>1. /\ Established(removal[i]) /\ removal[i] \in Subtree(removal[1])
            /\ i > 1 => removal[i] \in folders[removal[i - 1]].sub_folders
        BY <1>1, <3>1 DEF CallInv, CallsInEstablished, CallsBelow
      <4>2. i > 1 => i - 1 \in 1 .. Len(removal)
        BY <1>3, <3>1
      <4>3. QED
        BY <2>6, <3>1, <4>1, <4>2
    <3>2. CASE i = Len(removal) + 1
      <4>1. i - 1 = Len(removal) /\ i - 1 \in 1 .. Len(removal)
        BY <1>3, <3>2
      <4>2. removal'[i - 1] = Inside /\ removal'[i] = d
        BY <2>6, <3>2, <4>1 DEF Inside
      <4>3. QED
        BY <2>3, <2>7, <4>2
    <3>3. QED
      BY <1>3, <2>6, <3>1, <3>2
  <2>9. removal'[1] = removal[1]
    BY <1>3, <2>6
  <2>10. CallsInEstablished'
    BY <2>2, <2>8 DEF CallsInEstablished, Established
  <2>11. CallsBelow'
    BY <2>2, <2>8, <2>9 DEF CallsBelow, Subtree
  <2>12. QED
    BY <2>5, <2>10, <2>11 DEF IInv, CallInv
<1>6. CASE RemovalTooDeep \/ RemovalOfRoot
  <2>1. /\ removal' = <<>> /\ status' = "FAILURE"
        /\ UNCHANGED <<folders_allocation_map, files_allocation_map, folders, files, stored>>
    BY <1>6 DEF RemovalTooDeep, RemovalOfRoot
  <2>2. removal' \in Seq(Node)
    BY <2>1
  <2>3. QED
    BY <1>1, <2>1, <2>2, TreeUnchanged, NoCalls DEF IInv
<1>7. CASE RemoveInside
  <2>1. /\ DeleteFlatFolder(Inside)
        /\ removal' = SubSeq(removal, 1, Len(removal) - 1)
        /\ status' \in {"SUCCESS", "FAILURE", "RUNNING"}
    BY <1>1, <1>7 DEF RemoveInside
  <2>2. /\ removal' \in Seq(Node) /\ Len(removal') = Len(removal) - 1
        /\ \A i \in 1 .. Len(removal') : removal'[i] = removal[i]
    <3>1. removal # <<>>
      BY <1>2 DEF Running
    <3>2. QED
      BY <1>1, <2>1, <3>1, OneCallLess
  <2>3. /\ TreeInv'
        /\ \A p : Established(p)' <=> Established(p) /\ p # Inside
        /\ \A p \in Node : folders'[p].sub_folders = folders[p].sub_folders \ {Inside}
    BY <1>1, <1>3, <2>1, <2>2, DeleteFlatFolderKeeps
  <2>4. folders[Inside].sub_folders = {}
    BY <2>1 DEF DeleteFlatFolder, HasSubEntries
  \* Every other call is in a folder with a sub folder, so not in the one that goes.
  <2>5. ASSUME NEW i \in 1 .. Len(removal') PROVE removal[i] # Inside
    <3>1. i + 1 \in 1 .. Len(removal) /\ i + 1 > 1 /\ i + 1 - 1 = i
      BY <1>3, <2>2
    <3>2. removal[i + 1] \in folders[removal[i]].sub_folders
      BY <1>1, <3>1 DEF CallInv, CallsInEstablished
    <3>3. QED
      BY <2>4, <3>2
  <2>6. CallInv'
    <3>1. {Inside} \in SUBSET Node /\ Len(removal') <= Len(removal)
      BY <1>3, <2>2
    <3>2. \A p : Established(p)' <=> Established(p) /\ p \notin {Inside}
      BY <2>3
    <3>3. \A i \in 1 .. Len(removal') : removal'[i] = removal[i] /\ removal[i] \notin {Inside}
      BY <2>2, <2>5
    <3>4. \A d \in {Inside} : folders[d].sub_folders = {}
      BY <2>4
    <3> DEFINE gone == {Inside}
    <3>5. \A x \in Node : folders'[x].sub_folders = folders[x].sub_folders \ gone
      BY <2>3
    <3> HIDE DEF gone
    <3>6. QED
      BY <1>1, <2>2, <3>1, <3>2, <3>3, <3>4, <3>5, CallsKept DEF gone
  <2>7. QED
    BY <2>3, <2>6 DEF IInv
<1>8. QED
  BY <1>4, <1>5, <1>6, <1>7 DEF RemovalStep

\* Nothing that is said of the tree depends on the last answer.
LEMMA AnswerDoesNotMatter ==
  ASSUME IInv, UNCHANGED entries, status' \in {"SUCCESS", "FAILURE", "RUNNING"}
  PROVE  IInv'
<1>1. UNCHANGED <<folders_allocation_map, files_allocation_map, folders, files, stored, removal>>
  BY DEF entries
<1>2. TreeInv'
  BY <1>1, TreeUnchanged DEF IInv, TreeInv, TypeOK, NoOrphanData
<1>3. CallInv'
  BY <1>1 DEF IInv, CallInv, CallsInEstablished, CallsBelow, Established, Subtree
<1>4. QED
  BY <1>2, <1>3 DEF IInv

\* Every operation, and every step of a removal, preserves the invariant.
LEMMA StepPreserves == IInv /\ Defined /\ [TreeNext]_treeVars /\ Defined' => IInv'
<1> SUFFICES ASSUME IInv, Defined, [TreeNext]_treeVars, Defined' PROVE IInv'
  OBVIOUS
<1>1. CASE Operation
  BY <1>1, OperationPreserves
<1>2. CASE RemovalStep
  BY <1>2, RemovalPreserves
<1>3. CASE UNCHANGED treeVars
  <2>1. UNCHANGED entries /\ status' \in {"SUCCESS", "FAILURE", "RUNNING"}
    BY <1>3 DEF treeVars, IInv, TreeInv, TypeOK, Defined
  <2>2. QED
    BY <2>1, AnswerDoesNotMatter
<1>4. QED
  BY <1>1, <1>2, <1>3 DEF TreeNext

-----------------------------------------------------------------------------
(* Damage *)

FreeFoldersEmpty ==
  \A d \in Node : ~Established(d) => folders[d].sub_files = {} /\ folders[d].sub_folders = {}

\* What is left of the invariant when a rename has written behind its array.
Damaged ==
  /\ TypeOK /\ NamesUnique /\ NoOrphans /\ NoOrphanData /\ CallsInEstablished /\ ~Running
  /\ FreeFoldersEmpty

SafeInv == IF Defined THEN IInv ELSE Damaged

\* Nothing is linked below a folder that is not part of the tree.
LEMMA FreeFolderEmpty ==
  ASSUME TypeOK, BothEndsAgree
  PROVE  FreeFoldersEmpty
<1> SUFFICES ASSUME NEW d \in Node, ~Established(d)
             PROVE  folders[d].sub_files = {} /\ folders[d].sub_folders = {}
  BY DEF FreeFoldersEmpty
<1>1. folders[d].sub_files \subseteq File /\ folders[d].sub_folders \subseteq Folder
  BY DEF TypeOK
<1>2. QED
  BY <1>1 DEF BothEndsAgree, FileLinksAgree, FolderLinksAgree

\* The damage is to one parent at most: pools, names and sub entries are left alone.
LEMMA OverrunDamages ==
  ASSUME IInv, NEW f \in EstablishedFiles, NEW name \in Name, RenameFileOverrun(f, name),
         removal = <<>>
  PROVE  Damaged'
<1>1. TreeInv /\ f \in File /\ files_allocation_map[f]
  BY DEF IInv, EstablishedFiles
<1>2. /\ NameAvailable(files[f].parent_folder, name)
      /\ files' = [files EXCEPT ![f].name = name]
      /\ status' = "UNDEFINED"
      /\ UNCHANGED <<folders_allocation_map, files_allocation_map, stored, removal>>
  BY DEF RenameFileOverrun
<1>3. /\ folders' \in [Node -> FolderRecord]
      /\ \A x \in Node : /\ folders'[x].sub_folders = folders[x].sub_folders
                         /\ folders'[x].sub_files = folders[x].sub_files
                         /\ folders'[x].name = folders[x].name
  <2>1. folders \in [Node -> FolderRecord]
    BY <1>1 DEF TreeInv, TypeOK, FolderRecord
  <2>2. CASE UNCHANGED folders
    BY <2>1, <2>2
  <2>3. CASE ~UNCHANGED folders
    <3>1. PICK d \in Folder, address \in NullableNode :
            folders' = [folders EXCEPT ![d].parent_folder = address]
      BY <2>3 DEF RenameFileOverrun
    <3>2. QED
      BY <2>1, <3>1 DEF FolderRecord
  <2>4. QED
    BY <2>2, <2>3
<1>4. \A g \in File : /\ g # f => files'[g] = files[g]
                      /\ g = f => files'[g].name = name
  BY <1>1, <1>2 DEF TreeInv, TypeOK
<1>5. TypeOK'
  <2>1. files' \in [File -> FileRecord]
    BY <1>1, <1>2 DEF TreeInv, TypeOK, FileRecord, NullableName
  <2>2. QED
    BY <1>1, <1>2, <1>3, <2>1 DEF TreeInv, TypeOK, FolderRecord, FileRecord
<1>6. \A p : Established(p)' <=> Established(p)
  BY <1>2 DEF Established
<1>7. NamesUnique'
  <2>1. ASSUME NEW p \in Node, Established(p)
        PROVE  /\ folders[p].sub_files \subseteq File /\ folders[p].sub_folders \subseteq Node
               /\ f \in folders[p].sub_files => p = files[f].parent_folder
    BY <1>1, <2>1 DEF TreeInv, TypeOK, BothEndsAgree, FileLinksAgree, Node
  <2>2. ASSUME NEW p \in Node, Established(p), NEW g \in folders[p].sub_files
        PROVE  IF g = f THEN p = files[f].parent_folder /\ files'[g].name = name
               ELSE files'[g].name = files[g].name
    BY <1>4, <2>1, <2>2
  <2>3. ASSUME NEW p \in Node, Established(p), p = files[f].parent_folder
        PROVE  /\ \A g \in folders[p].sub_files : files[g].name # name
               /\ \A e \in folders[p].sub_folders : folders[e].name # name
    BY <1>2, <2>3 DEF NameAvailable, SubEntryNames
  <2>4. ASSUME NEW p \in Node, Established(p)
        PROVE  /\ \A e, g \in folders[p].sub_folders : folders'[e].name = folders'[g].name => e = g
               /\ \A e, g \in folders[p].sub_files : files'[e].name = files'[g].name => e = g
               /\ \A e \in folders[p].sub_folders, g \in folders[p].sub_files :
                    folders'[e].name # files'[g].name
    <3>1. /\ \A e, g \in folders[p].sub_folders : folders[e].name = folders[g].name => e = g
          /\ \A e, g \in folders[p].sub_files : files[e].name = files[g].name => e = g
          /\ \A e \in folders[p].sub_folders, g \in folders[p].sub_files :
               folders[e].name # files[g].name
      BY <1>1, <2>4 DEF TreeInv, NamesUnique, EstablishedFolders
    <3>2. \A e \in folders[p].sub_folders : folders'[e].name = folders[e].name
      BY <1>3, <2>1, <2>4
    <3>3. QED
      BY <2>2, <2>3, <2>4, <3>1, <3>2
  <2>5. QED
    BY <1>3, <1>6, <2>4 DEF NamesUnique, EstablishedFolders
<1>8. NoOrphans'
  <2>1. \A x \in Node : folders'[x].sub_folders = folders[x].sub_folders
    BY <1>3
  <2>2. Subtree(ROOT)' = Subtree(ROOT)
    BY <2>1 DEF Subtree
  <2>3. QED
    BY <1>1, <1>6, <2>2 DEF TreeInv, NoOrphans, EstablishedFolders
<1>9. NoOrphanData'
  BY <1>1, <1>2 DEF TreeInv, NoOrphanData, EstablishedFiles
<1>10. CallsInEstablished' /\ ~Running'
  BY <1>2 DEF CallsInEstablished, Running
<1>11. FreeFoldersEmpty'
  <2>1. FreeFoldersEmpty
    BY <1>1, FreeFolderEmpty DEF TreeInv
  <2>2. QED
    BY <1>3, <1>6, <2>1 DEF FreeFoldersEmpty
<1>12. QED
  BY <1>5, <1>7, <1>8, <1>9, <1>10, <1>11 DEF Damaged

\* Behind the damage the model takes no step.
LEMMA SafeStep == SafeInv /\ [TreeNext]_treeVars => SafeInv'
<1> SUFFICES ASSUME SafeInv, [TreeNext]_treeVars PROVE SafeInv'
  OBVIOUS
<1>1. CASE ~Defined
  <2>1. ~Running
    BY <1>1 DEF SafeInv, Damaged
  <2>2. UNCHANGED treeVars
    BY <1>1, <2>1 DEF TreeNext, Operation, RemovalStep, RemoveSubFile, RemoveSubFolder,
         RemovalTooDeep, RemoveInside, RemovalOfRoot
  <2>3. QED
    BY <1>1, <2>2 DEF SafeInv, Defined, treeVars, entries, Damaged, TypeOK, NamesUnique,
         NoOrphans, Subtree, NoOrphanData, CallsInEstablished, Running, Established,
         EstablishedFolders, EstablishedFiles, FreeFoldersEmpty
<1>2. CASE Defined /\ Defined'
  BY <1>2, StepPreserves DEF SafeInv
<1>3. CASE Defined /\ ~Defined'
  <2>1. IInv
    BY <1>3 DEF SafeInv
  <2>2. ~RemovalStep /\ ~UNCHANGED treeVars
    BY <1>3, <2>1 DEF RemovalStep, RemoveSubFile, RemoveSubFolder, RemovalTooDeep,
         RemoveInside, RemovalOfRoot, Defined, treeVars, IInv, TreeInv, TypeOK
  <2>3. Operation
    BY <2>2 DEF TreeNext
  <2>4. PICK f \in EstablishedFiles, name \in Name : RenameFileOverrun(f, name)
    BY <1>3, <2>3 DEF Operation, Defined, CreateFile, CreateFolder, RenameFile, RenameFolder,
         MoveFile, MoveFolder, StoreData, ClearData, RemoveFile, RemoveFolder, RemoveTree,
         Refused, Refuse
  <2>5. removal = <<>>
    BY <2>3 DEF Operation, Running
  <2>6. QED
    BY <1>3, <2>1, <2>4, <2>5, OverrunDamages DEF SafeInv
<1>4. QED
  BY <1>1, <1>2, <1>3

-----------------------------------------------------------------------------
(* The theorems *)

\* The inductive invariant holds in every state of the entry store, up to a rename
\* that writes behind its array, if there ever is one; and that one leaves the names,
\* the sub entries and the pools as they have to be.
THEOREM TreeInvariant == TreeSpec => []SafeInv
<1>1. TreeInit => SafeInv
  BY InitEstablishes DEF SafeInv, TreeInit, Defined
<1>2. QED
  BY <1>1, SafeStep, PTL DEF TreeSpec

\* The pools, the links and the call stack keep their types, and no folder ever
\* holds more entries than vfs_folder has places for (folders.h).
THEOREM TypeCorrect == TreeSpec => []TypeOK
<1>1. SafeInv => TypeOK
  BY DEF SafeInv, Damaged, IInv, TreeInv
<1>2. QED
  BY <1>1, TreeInvariant, PTL

\* The two ends of every link agree and are taken slots, whatever is moved, deleted
\* or left half removed (folders.c:219-260 finds an entry through its parent).
THEOREM LinksAlwaysAgree == TreeSpec => []LinksAgree
<1>1. SafeInv => LinksAgree
  BY DEF SafeInv, LinksAgree, IInv, TreeInv
<1>2. QED
  BY <1>1, TreeInvariant, PTL

\* No two entries of a folder ever have the same name, so a path names one entry
\* (queries.c:195).
THEOREM NamesAlwaysUnique == TreeSpec => []NamesUnique
<1>1. SafeInv => NamesUnique
  BY DEF SafeInv, Damaged, IInv, TreeInv
<1>2. QED
  BY <1>1, TreeInvariant, PTL

\* Every taken folder slot can be reached from the root: no sequence of moves makes
\* a cycle (entry_relocation.c:161) and no failed removal loses a subtree
\* (vfs_entry_store.c:255).
THEOREM NeverOrphans == TreeSpec => []NoOrphans
<1>1. SafeInv => NoOrphans
  BY DEF SafeInv, Damaged, IInv, TreeInv
<1>2. QED
  BY <1>1, TreeInvariant, PTL

\* No chunk stays allocated for a file slot that is free (files.c:30).
THEOREM NeverOrphanData == TreeSpec => []NoOrphanData
<1>1. SafeInv => NoOrphanData
  BY DEF SafeInv, Damaged, IInv, TreeInv
<1>2. QED
  BY <1>1, TreeInvariant, PTL

\* No call of a removal is ever in a folder that was freed under it
\* (vfs_entry_store.c:297-317).
THEOREM CallsAlwaysInEstablished == TreeSpec => []CallsInEstablished
<1>1. SafeInv => CallsInEstablished
  BY DEF SafeInv, Damaged, IInv, CallInv
<1>2. QED
  BY <1>1, TreeInvariant, PTL

\* The removal of a tree takes away nothing that is not below the folder it was
\* given, in any of its steps (vfs_entry_store.c:255-321).
THEOREM RemovalAlwaysStaysBelow == TreeSpec => RemovalStaysBelow
<1> DEFINE Below ==
      Running =>
        /\ \A d \in Folder \ Subtree(removal[1]) :
             folders_allocation_map'[d] = folders_allocation_map[d]
        /\ \A f \in EstablishedFiles :
             files[f].parent_folder \notin Subtree(removal[1]) => files_allocation_map'[f]
<1>1. SafeInv /\ [TreeNext]_treeVars => Below
  <2> SUFFICES ASSUME SafeInv, [TreeNext]_treeVars, Running
               PROVE  /\ \A d \in Folder \ Subtree(removal[1]) :
                           folders_allocation_map'[d] = folders_allocation_map[d]
                      /\ \A f \in EstablishedFiles :
                           files[f].parent_folder \notin Subtree(removal[1])
                             => files_allocation_map'[f]
    OBVIOUS
  <2>1. TypeOK /\ CallInv /\ BothEndsAgree
    BY DEF SafeInv, Damaged, IInv, TreeInv
  <2>2. Inside \in Subtree(removal[1]) /\ Inside \in Node
    BY <2>1, InsideFits DEF EstablishedFolders
  <2>3. \A f \in EstablishedFiles : f \in File /\ files_allocation_map[f]
    BY DEF EstablishedFiles
  <2>4. ASSUME UNCHANGED <<folders_allocation_map, files_allocation_map>>
        PROVE  Below
    BY <2>3, <2>4
  <2>5. CASE RemoveSubFile
    <3>1. PICK g \in folders[Inside].sub_files : DeleteVfsFile(g)
      BY <2>5 DEF RemoveSubFile
    <3>2. /\ UNCHANGED folders_allocation_map
          /\ files_allocation_map' = [files_allocation_map EXCEPT ![g] = FALSE]
      BY <3>1 DEF DeleteVfsFile
    <3>3. g \in File /\ files[g].parent_folder = Inside
      BY <2>1, <2>2, <3>1 DEF TypeOK, BothEndsAgree, FileLinksAgree
    <3>4. ASSUME NEW f \in EstablishedFiles,
                 files[f].parent_folder \notin Subtree(removal[1])
          PROVE  files_allocation_map'[f]
      <4>1. f # g
        BY <2>2, <3>3, <3>4
      <4>2. files_allocation_map'[f] = files_allocation_map[f]
        BY <2>1, <2>3, <3>2, <3>3, <4>1 DEF TypeOK
      <4>3. QED
        BY <2>3, <4>2
    <3>5. QED
      BY <3>2, <3>4
  <2>6. CASE RemoveInside
    <3>1. /\ UNCHANGED files_allocation_map
          /\ folders_allocation_map' = [folders_allocation_map EXCEPT ![Inside] = FALSE]
      BY <2>6 DEF RemoveInside, DeleteFlatFolder
    <3>2. ASSUME NEW d \in Folder \ Subtree(removal[1])
          PROVE  folders_allocation_map'[d] = folders_allocation_map[d]
      <4>1. d # Inside
        BY <2>2
      <4>2. QED
        BY <2>1, <3>1, <4>1 DEF TypeOK
    <3>3. QED
      BY <2>3, <3>1, <3>2
  <2>7. CASE RemoveSubFolder \/ RemovalTooDeep \/ RemovalOfRoot \/ UNCHANGED treeVars
    BY <2>4, <2>7
       DEF RemoveSubFolder, RemovalTooDeep, RemovalOfRoot, treeVars, entries
  <2>8. ~Operation
    BY DEF Operation
  <2>9. QED
    BY <2>5, <2>6, <2>7, <2>8 DEF TreeNext, RemovalStep
<1>2. Below => [Running =>
        /\ \A d \in Folder \ Subtree(removal[1]) :
             folders_allocation_map'[d] = folders_allocation_map[d]
        /\ \A f \in EstablishedFiles :
             files[f].parent_folder \notin Subtree(removal[1])
               => files_allocation_map'[f]]_treeVars
  OBVIOUS
<1>3. QED
  BY <1>1, <1>2, TreeInvariant, PTL DEF TreeSpec, RemovalStaysBelow

\* A removal that answers SUCCESS has freed the folder it was given: every other way
\* out of the recursion answers FAILURE (vfs_entry_store.c:255-321).
THEOREM RemovalAlwaysComplete == TreeSpec => RemovalComplete
<1> DEFINE Complete ==
      Running /\ ~Running' /\ status' = "SUCCESS" =>
        \A d \in Node : d = removal[1] => ~Established(d)'
<1>1. SafeInv /\ [TreeNext]_treeVars => Complete
  <2> SUFFICES ASSUME SafeInv, [TreeNext]_treeVars, Running, ~Running', status' = "SUCCESS"
               PROVE  \A d \in Node : d = removal[1] => ~Established(d)'
    OBVIOUS
  <2>1. TypeOK /\ CallInv
    BY DEF SafeInv, Damaged, IInv, TreeInv
  <2>2. RemoveInside
    <3>1. ~Operation
      BY DEF Operation
    <3>2. ~RemoveSubFile /\ ~UNCHANGED treeVars
      BY DEF RemoveSubFile, Running, treeVars, entries
    <3>3. ~RemoveSubFolder
      BY <2>1 DEF RemoveSubFolder, Running, TypeOK
    <3>4. ~RemovalTooDeep /\ ~RemovalOfRoot
      BY DEF RemovalTooDeep, RemovalOfRoot
    <3>5. QED
      BY <3>1, <3>2, <3>3, <3>4 DEF TreeNext, RemovalStep
  <2>3. Len(removal) \in Nat \ {0} /\ \A i \in 1 .. Len(removal) : removal[i] \in Node
    BY <2>1, InsideFits
  <2>4. Len(removal) = 1
    <3>1. Len(SubSeq(removal, 1, Len(removal) - 1)) = Len(removal) - 1
      BY <2>1, OneCallLess DEF TypeOK, Running
    <3>2. SubSeq(removal, 1, Len(removal) - 1) = <<>>
      BY <2>2 DEF RemoveInside, Running
    <3>3. Len(<<>>) = 0
      OBVIOUS
    <3>4. Len(removal) - 1 = 0
      BY ONLY <3>1, <3>2, <3>3
    <3>5. QED
      BY ONLY <2>3, <3>4
  <2>5. Inside = removal[1]
    BY <2>4 DEF Inside
  <2>6. /\ Inside # ROOT /\ Inside \in Node
        /\ folders_allocation_map' = [folders_allocation_map EXCEPT ![Inside] = FALSE]
    BY <2>2, <2>3, <2>4, <2>5 DEF RemoveInside, DeleteFlatFolder
  <2>7. ASSUME NEW d \in Node, d = removal[1] PROVE ~Established(d)'
    <3>1. d \in Folder /\ d # ROOT /\ d = Inside
      BY <2>5, <2>6, <2>7 DEF Node
    <3>2. ~folders_allocation_map'[d]
      BY <2>1, <2>6, <3>1 DEF TypeOK
    <3>3. QED
      BY <3>1, <3>2 DEF Established
  <2>8. QED
    BY <2>7
<1>2. Complete => [Running /\ ~Running' /\ status' = "SUCCESS" =>
                     \A d \in Node : d = removal[1] => ~Established(d)']_treeVars
  OBVIOUS
<1>3. QED
  BY <1>1, <1>2, TreeInvariant, PTL DEF TreeSpec, RemovalComplete
=============================================================================
