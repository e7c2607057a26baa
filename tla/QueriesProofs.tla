----------------------------- MODULE QueriesProofs -----------------------------
(***************************************************************************)
(* Naming, finding and listing agree, whatever the tree looks like: the    *)
(* path that is read off by climbing from an entry leads back to it, find  *)
(* prints such paths and tree descends to the folders that have one.       *)
(***************************************************************************)
EXTENDS Queries, WorkspaceProofs

-----------------------------------------------------------------------------
(* Down and up again *)

\* The name of an entry, looked up in its folder, gives the entry.
LEMMA SubFolderIs ==
  ASSUME TreeInv, NEW e \in EstablishedFolders, e # ROOT
  PROVE  SubFolder(folders[e].parent_folder, folders[e].name) = e
<1> DEFINE d == folders[e].parent_folder
           g == SubFolder(d, folders[e].name)
<1>1. d \in Node /\ d \in EstablishedFolders /\ e \in folders[d].sub_folders /\ TypeOK
  BY ParentOf DEF EstablishedFolders, TreeInv
<1>2. g \in folders[d].sub_folders /\ folders[g].name = folders[e].name
  <2> HIDE DEF d
  <2> QED
    BY <1>1, SubFolderFinds
<1>3. QED
  BY <1>1, <1>2 DEF TreeInv, NamesUnique

LEMMA ParentOfFile ==
  ASSUME TreeInv, NEW f \in EstablishedFiles
  PROVE  /\ files[f].parent_folder \in EstablishedFolders
         /\ files[f].parent_folder \in Node
         /\ f \in folders[files[f].parent_folder].sub_files
         /\ \A p \in Node : f \in folders[p].sub_files => p = files[f].parent_folder
BY DEF TreeInv, BothEndsAgree, FileLinksAgree, EstablishedFiles, EstablishedFolders, Established,
       Node

LEMMA SubFileIs ==
  ASSUME TreeInv, NEW f \in EstablishedFiles
  PROVE  SubFile(files[f].parent_folder, files[f].name) = f
<1> DEFINE d == files[f].parent_folder
           g == SubFile(d, files[f].name)
<1>1. d \in Node /\ d \in EstablishedFolders /\ f \in folders[d].sub_files /\ TypeOK
  BY ParentOfFile DEF TreeInv
<1>2. g \in folders[d].sub_files /\ files[g].name = files[f].name
  <2> HIDE DEF d
  <2> QED
    BY <1>1, SubFileFinds
<1>3. QED
  BY <1>1, <1>2 DEF TreeInv, NamesUnique

\* The path of a folder leads to it, also with more names behind.
LEMMA WalkToFolder ==
  ASSUME TreeInv, NEW d \in EstablishedFolders, d # ROOT, ~PathTooLong(d),
         NEW names, Len(names) \in Nat, Len(NodePath(d)) <= Len(names),
         \A i \in 1 .. Len(NodePath(d)) : names[i] = NodePath(d)[i]
  PROVE  Walk(ROOT, names)[Len(NodePath(d))] = d
<1> DEFINE s == ClimbOf(d)
           n == Len(s)
           w == Walk(ROOT, names)
<1>1. /\ Climb(d, s) /\ n \in Nat \ {0} /\ n <= MAX_PATH_NODES_AMOUNT
      /\ Len(NodePath(d)) = n
      /\ \A i \in 1 .. n : NodePath(d)[i] = folders[s[n - i + 1]].name
  <2>1. d \in Node /\ TypeOK
    BY DEF EstablishedFolders, TreeInv
  <2>2. /\ Climb(d, s) /\ n \in Nat \ {0} /\ Len(NodePath(d)) = n
        /\ PathTooLong(d) <=> n > MAX_PATH_NODES_AMOUNT
        /\ \A i \in 1 .. n : NodePath(d)[i] = folders[s[n - i + 1]].name
    BY <2>1, NodePathIs
  <2> HIDE DEF s
  <2>3. QED
    BY <2>2, EntryStoreAssumption
<1> HIDE DEF s
<1>2. /\ \A i \in 1 .. n : s[i] \in EstablishedFolders /\ s[i] # ROOT
      /\ folders[s[n]].parent_folder = ROOT
  BY <1>1, ClimbInTree, EntryStoreAssumption
<1>3. /\ s[1] = d
      /\ \A i \in 1 .. n - 1 : s[i + 1] = folders[s[i]].parent_folder
  BY <1>1 DEF Climb, ClimbTo
<1>4. w[0] = ROOT /\ \A i \in 1 .. Len(names) :
                       w[i] = IF w[i - 1] = NULL THEN NULL ELSE SubFolder(w[i - 1], names[i])
  <2>1. ROOT \in Node /\ TypeOK
    BY DEF Node, TreeInv
  <2>2. QED
    BY <2>1, WalkSteps
<1> HIDE DEF w
<1> DEFINE T == {i \in 0 .. n : w[i] = IF i = 0 THEN ROOT ELSE s[n - i + 1]}
<1>5. 0 \in T
  BY <1>1, <1>4
<1>6. ASSUME NEW i \in 0 .. n - 1, i \in T PROVE i + 1 \in T
  <2>1. /\ i + 1 \in 1 .. n /\ i + 1 \in 1 .. Len(names) /\ i + 1 - 1 = i
        /\ n - i \in 1 .. n /\ n - (i + 1) + 1 = n - i
    BY <1>1
  <2> DEFINE e == s[n - i]
  <2>2. e \in EstablishedFolders /\ e # ROOT
    BY <1>2, <2>1
  <2>3. w[i] = folders[e].parent_folder
    <3>1. CASE i = 0
      BY <1>1, <1>2, <1>6, <3>1
    <3>2. CASE i # 0
      <4>1. n - i \in 1 .. n - 1
        BY <1>1, <3>2
      <4>2. w[i] = s[n - i + 1]
        BY <1>6, <3>2
      <4>3. QED
        BY <1>3, <4>1, <4>2
    <3>3. QED
      BY <3>1, <3>2
  <2>4. names[i + 1] = folders[e].name
    BY <1>1, <2>1
  <2>5. folders[e].parent_folder # NULL
    BY <2>2, ParentOf, EntryStoreAssumption DEF Node
  <2>6. w[i + 1] = e
    <3> HIDE DEF e
    <3>1. w[i + 1] = SubFolder(w[i], names[i + 1])
      BY <1>4, <2>1, <2>3, <2>5
    <3>2. QED
      BY <2>2, <2>3, <2>4, <3>1, SubFolderIs
  <2>7. QED
    BY <2>1, <2>6
<1>7. \A i \in 0 .. n : i \in T
  <2> HIDE DEF T, n
  <2> QED
    BY <1>1, <1>5, <1>6, UpTo
<1>8. w[n] = s[n - n + 1] /\ n - n + 1 = 1
  <2>1. n \in 0 .. n /\ n # 0 /\ n - n + 1 = 1
    BY <1>1
  <2>2. QED
    BY <1>7, <2>1
<1>9. QED
  BY <1>1, <1>3, <1>8 DEF w

-----------------------------------------------------------------------------
(* The path of an entry *)

HasPath(d) == d = ROOT \/ ~PathTooLong(d)

\* The climb from a folder that hangs in another one is one folder longer.
LEMMA ClimbLength ==
  ASSUME TreeInv, NEW e \in EstablishedFolders, e # ROOT
  PROVE  LET d == folders[e].parent_folder IN
         /\ d = ROOT => Len(ClimbOf(e)) = 1
         /\ d # ROOT /\ HasPath(e) =>
              /\ Len(ClimbOf(e)) = Len(ClimbOf(d)) + 1
              /\ \A i \in 1 .. Len(ClimbOf(d)) : ClimbOf(e)[i + 1] = ClimbOf(d)[i]
         /\ d # ROOT /\ Len(ClimbOf(d)) + 1 <= MAX_PATH_NODES_AMOUNT =>
              Len(ClimbOf(e)) = Len(ClimbOf(d)) + 1
<1> DEFINE d == folders[e].parent_folder
           s == ClimbOf(e)
           n == Len(s)
<1>1. e \in Node /\ d \in Node /\ d \in EstablishedFolders /\ TypeOK /\ e \in Folder
  BY ParentOf DEF EstablishedFolders, TreeInv
<1>2. Climb(e, s) /\ n \in Nat \ {0} /\ (PathTooLong(e) <=> n > MAX_PATH_NODES_AMOUNT)
  BY <1>1, NodePathIs
<1> HIDE DEF s
<1>3. ASSUME d = ROOT PROVE n = 1
  <2>1. /\ s \in Seq(Node) /\ s[1] = e
        /\ \A i \in 1 .. n - 1 : s[i + 1] \in Folder /\ s[i + 1] = folders[s[i]].parent_folder
    BY <1>2 DEF Climb, ClimbTo
  <2> SUFFICES ASSUME n # 1 PROVE FALSE
    OBVIOUS
  <2>2. 1 \in 1 .. n - 1
    <3> HIDE DEF n
    <3> QED
      BY <1>2
  <2>3. ROOT \in Folder
    BY <1>3, <2>1, <2>2
  <2>4. QED
    BY <2>3, EntryStoreAssumption
<1>4. ASSUME d # ROOT PROVE d \in Folder /\ Climb(d, ClimbOf(d)) /\ Len(ClimbOf(d)) \in Nat \ {0}
  <2>1. d \in Folder
    BY <1>1, <1>4 DEF Node
  <2> HIDE DEF d
  <2>2. QED
    BY <1>1, <1>4, <2>1, NodePathIs
<1>5. ASSUME d # ROOT, HasPath(e)
      PROVE  /\ n = Len(ClimbOf(d)) + 1
             /\ \A i \in 1 .. Len(ClimbOf(d)) : s[i + 1] = ClimbOf(d)[i]
  <2>1. n <= MAX_PATH_NODES_AMOUNT
    BY <1>2, <1>5, EntryStoreAssumption DEF HasPath
  <2> DEFINE t == Tail(s)
  <2>2. Climb(d, t) /\ Len(t) = n - 1
    BY <1>2, <1>5, <2>1, ClimbOfChild
  <2>3. s \in Seq(Node) /\ s # <<>>
    BY <1>2 DEF Climb, ClimbTo
  <2>4. \A i \in 1 .. n - 1 : t[i] = s[i + 1]
    BY <1>2, <2>3
  <2> HIDE DEF t, n, d
  <2>5. t = ClimbOf(d)
    BY <1>4, <1>5, <2>2, ClimbUnique
  <2>6. n = Len(t) + 1
    BY <1>2, <2>2
  <2>7. \A i \in 1 .. Len(t) : s[i + 1] = t[i]
    BY <1>2, <2>2, <2>4
  <2>8. QED
    BY <2>5, <2>6, <2>7
<1>6. ASSUME d # ROOT, Len(ClimbOf(d)) + 1 <= MAX_PATH_NODES_AMOUNT
      PROVE  n = Len(ClimbOf(d)) + 1
  <2>1. Len(ClimbOf(d)) <= MAX_PATH_NODES_AMOUNT
    BY <1>4, <1>6, EntryStoreAssumption
  <2>2. Climb(e, <<e>> \o ClimbOf(d)) /\ Len(<<e>> \o ClimbOf(d)) = Len(ClimbOf(d)) + 1
    BY <1>1, <1>4, <1>6, <2>1, ChildClimbs
  <2>3. s = <<e>> \o ClimbOf(d)
    BY <1>2, <2>2, ClimbUnique
  <2>4. QED
    BY <2>2, <2>3
<1>7. QED
  BY <1>3, <1>5, <1>6 DEF s

\* The path of a folder is that of its parent and its name.
LEMMA PathOfChild ==
  ASSUME TreeInv, Tidy, NEW e \in EstablishedFolders, e # ROOT, HasPath(e)
  PROVE  /\ HasPath(folders[e].parent_folder)
         /\ NodePath(e) = Append(NodePath(folders[e].parent_folder), folders[e].name)
<1> DEFINE d == folders[e].parent_folder
           s == ClimbOf(e)
           n == Len(s)
           p == NodePath(e)
           q == Append(NodePath(d), folders[e].name)
<1>1. /\ e \in Node /\ d \in Node /\ d \in EstablishedFolders /\ TypeOK /\ e \in Folder
      /\ MAX_PATH_NODES_AMOUNT \in Nat /\ folders[e].name \in Name
  BY ParentOf, EntryStoreAssumption DEF EstablishedFolders, TreeInv, Tidy
<1>2. /\ Climb(e, s) /\ n \in Nat \ {0} /\ (PathTooLong(e) <=> n > MAX_PATH_NODES_AMOUNT)
      /\ Len(p) = n /\ \A i \in 1 .. n : p[i] = folders[s[n - i + 1]].name
  BY <1>1, NodePathIs
<1>3. s[1] = e /\ n <= MAX_PATH_NODES_AMOUNT
  BY <1>1, <1>2 DEF HasPath, Climb, ClimbTo
<1>4. p \in Seq(Name)
  BY PathFits DEF HasPath
<1>5. CASE d = ROOT
  <2>1. n = 1
    BY <1>5, ClimbLength
  <2>2. NodePath(d) = <<>>
    BY <1>5 DEF NodePath
  <2>3. q \in Seq(Name) /\ Len(q) = 1 /\ q[1] = folders[e].name
    BY <1>1, <2>2
  <2>4. p[1] = folders[e].name
    <3>1. 1 \in 1 .. n /\ n - 1 + 1 = 1
      BY <2>1
    <3>2. QED
      BY <1>2, <1>3, <3>1
  <2>5. p = q
    <3> HIDE DEF p, q
    <3>1. Len(p) = Len(q) /\ \A i \in 1 .. Len(p) : p[i] = q[i]
      BY <1>2, <2>1, <2>3, <2>4
    <3>2. QED
      BY <1>4, <2>3, <3>1, SeqEqual
  <2>6. QED
    BY <1>5, <2>5 DEF HasPath
<1>6. CASE d # ROOT
  <2> DEFINE r == ClimbOf(d)
             m == Len(r)
             dp == NodePath(d)
  <2>1. n = m + 1 /\ \A i \in 1 .. m : s[i + 1] = r[i]
    BY <1>6, ClimbLength
  <2>2. /\ m \in Nat \ {0} /\ (PathTooLong(d) <=> m > MAX_PATH_NODES_AMOUNT)
        /\ Len(dp) = m /\ \A i \in 1 .. m : dp[i] = folders[r[m - i + 1]].name
    <3> HIDE DEF d
    <3>1. QED
      BY <1>1, <1>6, NodePathIs
  <2> HIDE DEF r, m
  <2>3. ~PathTooLong(d)
    BY <1>1, <1>3, <2>1, <2>2
  <2>4. dp \in Seq(Name)
    <3> HIDE DEF d
    <3>1. QED
      BY <1>1, <2>3, PathFits
  <2> HIDE DEF dp
  <2>5. /\ q \in Seq(Name) /\ Len(q) = m + 1 /\ q[m + 1] = folders[e].name
        /\ \A i \in 1 .. m : q[i] = dp[i]
    <3>1. q = Append(dp, folders[e].name)
      BY DEF dp
    <3>2. QED
      BY <1>1, <2>2, <2>4, <3>1
  <2> HIDE DEF n, p, q, s, d
  <2>6. ASSUME NEW i \in 1 .. n PROVE p[i] = q[i]
    <3>1. CASE i = m + 1
      <4>1. n - i + 1 = 1
        BY <2>1, <2>2, <3>1
      <4>2. QED
        BY <1>2, <1>3, <2>5, <3>1, <4>1
    <3>2. CASE i \in 1 .. m
      <4>1. m - i + 1 \in 1 .. m /\ n - i + 1 = m - i + 1 + 1
        BY <2>1, <2>2, <3>2
      <4>2. s[n - i + 1] = r[m - i + 1]
        BY <2>1, <4>1
      <4>3. QED
        BY <1>2, <2>2, <2>5, <3>2, <4>2
    <3>3. QED
      BY <2>1, <2>2, <3>1, <3>2
  <2>7. p = q
    <3>1. Len(p) = Len(q) /\ \A i \in 1 .. Len(p) : p[i] = q[i]
      BY <1>2, <2>1, <2>5, <2>6
    <3>2. QED
      BY <1>4, <2>5, <3>1, SeqEqual
  <2>8. QED
    BY <2>3, <2>7 DEF HasPath, p, q, d
<1>7. QED
  BY <1>5, <1>6

\* Resolving the path of a folder and one name more gets to that folder.
LEMMA WalkToParent ==
  ASSUME TreeInv, Tidy, NEW d \in EstablishedFolders, HasPath(d), NEW name,
         NEW path, path = Append(NodePath(d), name)
  PROVE  /\ Len(path) \in Nat \ {0} /\ Last(path) = name /\ path # <<>>
         /\ Walk(ROOT, path)[Len(path) - 1] = d
<1> DEFINE S == Name \cup {name}
<1>1. NodePath(d) \in Seq(Name)
  BY PathFits DEF HasPath
<1>2. NodePath(d) \in Seq(S) /\ name \in S
  BY <1>1
<1>3. /\ path \in Seq(S) /\ Len(path) = Len(NodePath(d)) + 1 /\ path[Len(path)] = name
      /\ \A i \in 1 .. Len(NodePath(d)) : path[i] = NodePath(d)[i]
      /\ Len(NodePath(d)) \in Nat
  <2>1. PICK s \in Seq(S) : s = NodePath(d)
    BY <1>2
  <2>2. path = Append(s, name)
    BY <2>1
  <2> HIDE DEF S
  <2>3. QED
    BY <1>2, <2>1, <2>2, AppendProperties
<1>4. Len(path) \in Nat \ {0} /\ Last(path) = name /\ Len(path) - 1 = Len(NodePath(d))
  BY <1>3 DEF Last
<1>5. path # <<>>
  BY <1>4
<1>6. Walk(ROOT, path)[Len(path) - 1] = d
  <2>1. CASE d = ROOT
    <3>1. Len(path) - 1 = 0
      BY <1>4, <2>1 DEF NodePath
    <3>2. ROOT \in Node /\ TypeOK
      BY DEF Node, TreeInv
    <3>3. Walk(ROOT, path)[0] = ROOT
      BY <1>4, <3>2, WalkSteps
    <3>4. QED
      BY <2>1, <3>1, <3>3
  <2>2. CASE d # ROOT
    <3>1. ~PathTooLong(d)
      BY <2>2 DEF HasPath
    <3>2. Len(path) \in Nat /\ Len(NodePath(d)) <= Len(path)
      BY <1>3, <1>4
    <3>3. Walk(ROOT, path)[Len(NodePath(d))] = d
      BY <1>3, <2>2, <3>1, <3>2, WalkToFolder
    <3>4. QED
      BY <1>4, <3>3
  <2>3. QED
    BY <2>1, <2>2
<1>7. QED
  BY <1>4, <1>5, <1>6

ParentOfEntry(e) == IF e \in File THEN files[e].parent_folder ELSE folders[e].parent_folder

Entries == EstablishedFiles \cup (EstablishedFolders \ {ROOT})

\* The path of an entry is that of its folder and its name, and it is found there.
LEMMA EntryPathLeads ==
  ASSUME TreeInv, Tidy, NEW e \in Entries, ~EntryTooDeep(e)
  PROVE  /\ ParentOfEntry(e) \in EstablishedFolders /\ HasPath(ParentOfEntry(e))
         /\ EntryPath(e) = Append(NodePath(ParentOfEntry(e)), NameOf(e))
         /\ EntryPath(e) # <<>>
         /\ VFSNode(Walk(ROOT, EntryPath(e))[Len(EntryPath(e)) - 1], Last(EntryPath(e))) = e
<1> DEFINE d == ParentOfEntry(e)
<1>1. /\ d \in EstablishedFolders /\ d \in Node /\ HasPath(d)
      /\ EntryPath(e) = Append(NodePath(d), NameOf(e))
      /\ VFSNode(d, NameOf(e)) = e
  <2>1. CASE e \in EstablishedFiles
    <3>1. e \in File /\ d = files[e].parent_folder
      BY <2>1 DEF EstablishedFiles, ParentOfEntry
    <3>2. d \in EstablishedFolders /\ d \in Node
      BY <2>1, <3>1, ParentOfFile
    <3>3. HasPath(d)
      <4>1. d = ROOT \/ ~(Len(ParentFolders(d)) + 1 >= MAX_PATH_NODES_AMOUNT)
        BY <3>1 DEF EntryTooDeep
      <4>2. Len(ParentFolders(d)) \in Nat /\ MAX_PATH_NODES_AMOUNT \in Nat
        <5> HIDE DEF d
        <5>1. ParentFolders(d) \in Seq(Node)
          BY <3>2, ParentFoldersClimb DEF TreeInv
        <5>2. QED
          BY <5>1, EntryStoreAssumption
      <4>3. QED
        BY <4>1, <4>2 DEF HasPath, PathTooLong
    <3>4. VFSNode(d, NameOf(e)) = e
      <4>1. SubFile(d, NameOf(e)) = e
        BY <2>1, <3>1, SubFileIs DEF NameOf
      <4>2. e # NULL
        BY <3>1, EntryStoreAssumption
      <4>3. QED
        BY <4>1, <4>2 DEF VFSNode
    <3>5. EntryPath(e) = Append(NodePath(d), NameOf(e))
      BY <3>1 DEF EntryPath, NameOf
    <3>6. QED
      BY <3>2, <3>3, <3>4, <3>5
  <2>2. CASE e \in EstablishedFolders \ {ROOT}
    <3>1. e \in Node /\ e \notin File /\ e # ROOT /\ d = folders[e].parent_folder
      BY <2>2, EntryStoreAssumption DEF EstablishedFolders, Node, ParentOfEntry
    <3>2. d \in EstablishedFolders /\ d \in Node /\ e \in folders[d].sub_folders
      BY <2>2, <3>1, ParentOf DEF EstablishedFolders
    <3>3. HasPath(e)
      BY <3>1 DEF EntryTooDeep, HasPath
    <3>4. HasPath(d) /\ NodePath(e) = Append(NodePath(d), folders[e].name)
      BY <2>2, <3>1, <3>3, PathOfChild
    <3>5. EntryPath(e) = Append(NodePath(d), NameOf(e))
      BY <3>1, <3>4 DEF EntryPath, NameOf
    <3>6. VFSNode(d, NameOf(e)) = e
      <4>1. SubFolder(d, NameOf(e)) = e
        BY <2>2, <3>1, SubFolderIs DEF NameOf
      <4>2. SubFile(d, NameOf(e)) = NULL
        <5>1. ASSUME NEW g \in folders[d].sub_files PROVE files[g].name # folders[e].name
          BY <3>2, <5>1 DEF TreeInv, NamesUnique
        <5>2. QED
          BY <3>1, <5>1 DEF SubFile, NameOf
      <4>3. QED
        BY <4>1, <4>2 DEF VFSNode
    <3>7. QED
      BY <3>2, <3>4, <3>5, <3>6
  <2>3. QED
    BY <2>1, <2>2 DEF Entries
<1>2. PICK path : path = EntryPath(e)
  OBVIOUS
<1>3. Last(path) = NameOf(e) /\ path # <<>> /\ Walk(ROOT, path)[Len(path) - 1] = d
  <2> HIDE DEF d
  <2>1. path = Append(NodePath(d), NameOf(e))
    BY <1>1, <1>2
  <2>2. QED
    BY <1>1, <2>1, WalkToParent
<1>4. QED
  BY <1>1, <1>2, <1>3

\* So it leads to the entry, when it parses.
LEMMA EntryPathResolves ==
  ASSUME TreeInv, Tidy, NEW e \in Entries, ~EntryTooDeep(e), Parses(EntryPath(e))
  PROVE  Resolve([absolute |-> TRUE, names |-> EntryPath(e)]) = e
<1> DEFINE parent == Walk(ROOT, EntryPath(e))[Len(EntryPath(e)) - 1]
<1>1. EntryPath(e) # <<>> /\ VFSNode(parent, Last(EntryPath(e))) = e
  BY EntryPathLeads
<1>2. parent # NULL
  <2>1. parent = ParentOfEntry(e)
    <3>1. /\ ParentOfEntry(e) \in EstablishedFolders /\ HasPath(ParentOfEntry(e))
          /\ EntryPath(e) = Append(NodePath(ParentOfEntry(e)), NameOf(e))
      BY EntryPathLeads
    <3>2. QED
      BY <3>1, WalkToParent
  <2>2. ParentOfEntry(e) \in Node
    BY EntryPathLeads DEF EstablishedFolders
  <2>3. QED
    BY <2>1, <2>2, EntryStoreAssumption DEF Node
<1>3. Resolve([absolute |-> TRUE, names |-> EntryPath(e)]) = ResolveFrom(ROOT, EntryPath(e))
  BY <1>1 DEF Resolve
<1>4. QED
  BY <1>1, <1>2, <1>3 DEF ResolveFrom

-----------------------------------------------------------------------------
(* find *)

\* The matches are different entries of the tree.
LEMMA ScanIs ==
  ASSUME TreeInv, NEW name, NEW scan \in Scans(name)
  PROVE  /\ scan \in Seq(Entries) /\ Len(scan) \in Nat /\ DOMAIN scan = 1 .. Len(scan)
         /\ \A i, j \in 1 .. Len(scan) : scan[i] = scan[j] => i = j
<1>1. PICK fs \in SetToSeqs(FilesNamed(name)), ds \in SetToSeqs(FoldersNamed(name)) :
        scan = fs \o ds
  BY DEF Scans
<1>2. /\ FilesNamed(name) \subseteq File /\ FilesNamed(name) \subseteq Entries
      /\ FoldersNamed(name) \subseteq Folder /\ FoldersNamed(name) \subseteq Entries
      /\ FilesNamed(name) \cap FoldersNamed(name) = {}
  BY EntryStoreAssumption DEF FilesNamed, FoldersNamed, EstablishedFiles, EstablishedFolders,
                              Entries, Node
<1>3. /\ Cardinality(FilesNamed(name)) \in Nat /\ Cardinality(FoldersNamed(name)) \in Nat
  <2>1. IsFiniteSet(FilesNamed(name)) /\ IsFiniteSet(FoldersNamed(name))
    BY <1>2, EntriesFinite
  <2>2. QED
    BY <2>1, FS_CardinalityType
<1> DEFINE m == Cardinality(FilesNamed(name))
           n == Cardinality(FoldersNamed(name))
<1>4. /\ fs \in [1 .. m -> FilesNamed(name)] /\ ds \in [1 .. n -> FoldersNamed(name)]
      /\ \A i, j \in 1 .. m : i # j => fs[i] # fs[j]
      /\ \A i, j \in 1 .. n : i # j => ds[i] # ds[j]
  BY <1>1 DEF SetToSeqs
<1> HIDE DEF m, n
<1>5. fs \in Seq(Entries) /\ ds \in Seq(Entries) /\ Len(fs) = m /\ Len(ds) = n
  BY <1>2, <1>3, <1>4 DEF m, n
<1>6. /\ scan \in Seq(Entries) /\ Len(scan) = m + n
      /\ \A i \in 1 .. m : scan[i] = fs[i]
      /\ \A i \in 1 .. n : scan[m + i] = ds[i]
  <2>1. /\ scan \in Seq(Entries) /\ Len(scan) = m + n
        /\ \A i \in 1 .. m + n : scan[i] = IF i <= m THEN fs[i] ELSE ds[i - m]
    BY <1>1, <1>5, ConcatProperties
  <2>2. m \in Nat /\ n \in Nat
    BY <1>3 DEF m, n
  <2>3. ASSUME NEW i \in 1 .. n PROVE scan[m + i] = ds[i]
    <3>1. PICK k \in Int : k = m + i
      BY <2>2
    <3>2. k \in 1 .. m + n /\ ~(k <= m) /\ k - m = i
      BY <2>2, <3>1
    <3>3. scan[k] = ds[i]
      BY <2>1, <3>2
    <3>4. QED
      BY <3>1, <3>3
  <2>4. ASSUME NEW i \in 1 .. m PROVE scan[i] = fs[i]
    BY <2>1, <2>2
  <2>5. QED
    BY <2>1, <2>3, <2>4
<1>7. ASSUME NEW i \in 1 .. Len(scan), NEW j \in 1 .. Len(scan), scan[i] = scan[j]
      PROVE  i = j
  <2>1. m \in Nat /\ n \in Nat /\ i \in 1 .. m + n /\ j \in 1 .. m + n
    BY <1>3, <1>6 DEF m, n
  <2>2. CASE i \in 1 .. m /\ j \in 1 .. m
    BY <1>4, <1>6, <1>7, <2>2
  <2>3. CASE i \in 1 .. m /\ j \notin 1 .. m
    <3>1. j - m \in 1 .. n /\ m + (j - m) = j
      BY <2>1, <2>3
    <3>2. scan[j] = ds[j - m] /\ scan[i] = fs[i]
      BY <1>6, <2>3, <3>1
    <3>3. fs[i] \in FilesNamed(name) /\ ds[j - m] \in FoldersNamed(name)
      BY <1>4, <2>3, <3>1
    <3>4. QED
      BY <1>2, <1>7, <3>2, <3>3
  <2>4. CASE i \notin 1 .. m /\ j \in 1 .. m
    <3>1. i - m \in 1 .. n /\ m + (i - m) = i
      BY <2>1, <2>4
    <3>2. scan[i] = ds[i - m] /\ scan[j] = fs[j]
      BY <1>6, <2>4, <3>1
    <3>3. fs[j] \in FilesNamed(name) /\ ds[i - m] \in FoldersNamed(name)
      BY <1>4, <2>4, <3>1
    <3>4. QED
      BY <1>2, <1>7, <3>2, <3>3
  <2>5. CASE i \notin 1 .. m /\ j \notin 1 .. m
    <3>1. i - m \in 1 .. n /\ m + (i - m) = i /\ j - m \in 1 .. n /\ m + (j - m) = j
      BY <2>1, <2>5
    <3>2. scan[i] = ds[i - m] /\ scan[j] = ds[j - m]
      BY <1>6, <3>1
    <3>3. i - m = j - m
      BY <1>4, <1>7, <3>1, <3>2
    <3>4. QED
      BY <2>1, <3>3
  <2>6. QED
    BY <2>2, <2>3, <2>4, <2>5
<1>8. Len(scan) \in Nat
  BY <1>3, <1>6 DEF m, n
<1>9. QED
  BY <1>6, <1>7, <1>8

\* What find prints, unless there are too many matches: the paths in front of the first
\* match that is too deep.
LEMMA FindIs ==
  ASSUME NEW scan, Len(scan) \in Nat, DOMAIN scan = 1 .. Len(scan)
  PROVE  \/ Find(scan) = [status |-> "DATA_OVER_FLOW", printed |-> <<>>]
         \/ \E shown \in 0 .. Len(scan) :
              /\ Find(scan).printed = [i \in 1 .. shown |-> EntryPath(scan[i])]
              /\ \A i \in 1 .. shown : ~EntryTooDeep(scan[i])
              /\ Find(scan).status = "SUCCESS" => shown = Len(scan)
<1> DEFINE deep == {i \in DOMAIN scan : EntryTooDeep(scan[i])}
           shown == IF deep = {} THEN Len(scan) ELSE Min(deep) - 1
<1>1. CASE Len(scan) > QUERIES_NODE_BUFFER_SIZE
  BY <1>1 DEF Find
<1>2. CASE ~(Len(scan) > QUERIES_NODE_BUFFER_SIZE)
  <2>1. Find(scan) = [status |-> IF deep = {} THEN "SUCCESS" ELSE "PATH_IS_TOO_LONG",
                      printed |-> [i \in 1 .. shown |-> EntryPath(scan[i])]]
    BY <1>2 DEF Find
  <2>2. shown \in 0 .. Len(scan) /\ \A i \in 1 .. shown : i \in 1 .. Len(scan) /\ i \notin deep
    <3>1. CASE deep = {}
      BY <3>1
    <3>2. CASE deep # {}
      <4>1. deep \in SUBSET Nat /\ deep \subseteq 1 .. Len(scan)
        OBVIOUS
      <4> HIDE DEF deep
      <4>2. Min(deep) \in deep /\ \A i \in deep : Min(deep) <= i
        <5>1. \E m \in deep : \A i \in deep : m <= i
          BY <3>2, <4>1, LeastElement
        <5>2. QED
          BY <5>1 DEF Min
      <4>3. Min(deep) \in 1 .. Len(scan)
        BY <4>1, <4>2
      <4>4. \A i \in 1 .. Min(deep) - 1 : i \in 1 .. Len(scan) /\ ~(Min(deep) <= i)
        BY <4>3
      <4>5. shown = Min(deep) - 1
        BY <3>2
      <4>6. QED
        BY <4>2, <4>3, <4>4, <4>5
    <3>3. QED
      BY <3>1, <3>2
  <2>3. \A i \in 1 .. shown : ~EntryTooDeep(scan[i])
    <3> HIDE DEF shown
    <3> QED
      BY <2>2
  <2>4. Find(scan).status = "SUCCESS" => shown = Len(scan)
    <3> HIDE DEF deep
    <3> QED
      BY <2>1
  <2> HIDE DEF shown, deep
  <2>5. Find(scan).printed = [i \in 1 .. shown |-> EntryPath(scan[i])]
    BY <2>1
  <2>6. QED
    BY <2>2, <2>3, <2>4, <2>5
<1>3. QED
  BY <1>1, <1>2

\* The path tells the entry, whether it parses or not.
LEMMA EntryPathTells ==
  ASSUME TreeInv, Tidy, NEW e \in Entries, NEW g \in Entries,
         ~EntryTooDeep(e), ~EntryTooDeep(g), EntryPath(e) = EntryPath(g)
  PROVE  e = g
<1>1. VFSNode(Walk(ROOT, EntryPath(e))[Len(EntryPath(e)) - 1], Last(EntryPath(e))) = e
  BY EntryPathLeads
<1>2. VFSNode(Walk(ROOT, EntryPath(g))[Len(EntryPath(g)) - 1], Last(EntryPath(g))) = g
  BY EntryPathLeads
<1>3. QED
  BY <1>1, <1>2

-----------------------------------------------------------------------------
(* tree *)

\* The folders k links below the root.
AtDepth(k) ==
  {d \in EstablishedFolders : IF k = 0 THEN d = ROOT ELSE d # ROOT /\ Len(ClimbOf(d)) = k}

Below(S) == UNION {folders[e].sub_folders : e \in S}

LEMMA OneLevelDown ==
  ASSUME TreeInv, NEW k \in 0 .. MAX_PATH_NODES_AMOUNT - 1
  PROVE  Below(AtDepth(k)) = AtDepth(k + 1)
<1>1. k \in Nat /\ k + 1 <= MAX_PATH_NODES_AMOUNT /\ k + 1 # 0 /\ MAX_PATH_NODES_AMOUNT \in Nat
  BY EntryStoreAssumption
<1>2. ASSUME NEW e \in AtDepth(k), NEW x \in folders[e].sub_folders
      PROVE  x \in AtDepth(k + 1)
  <2>1. e \in EstablishedFolders /\ e \in Node
    BY DEF AtDepth, EstablishedFolders
  <2>2. x \in EstablishedFolders /\ x \in Folder /\ x # ROOT
    BY <1>2, <2>1, ListedEstablished, EntryStoreAssumption DEF TreeInv, TypeOK
  <2>3. folders[x].parent_folder = e
    BY <1>2, <2>1, <2>2, ParentOf
  <2>4. Len(ClimbOf(x)) = k + 1
    <3>1. CASE k = 0
      <4>1. e = ROOT
        BY <3>1 DEF AtDepth
      <4>2. QED
        BY <2>2, <2>3, <3>1, <4>1, ClimbLength
    <3>2. CASE k # 0
      <4>1. e # ROOT /\ Len(ClimbOf(e)) = k
        BY <3>2 DEF AtDepth
      <4>2. QED
        BY <1>1, <2>2, <2>3, <4>1, ClimbLength
    <3>3. QED
      BY <3>1, <3>2
  <2>5. QED
    BY <1>1, <2>2, <2>4 DEF AtDepth
<1>3. ASSUME NEW x \in AtDepth(k + 1) PROVE x \in Below(AtDepth(k))
  <2>1. x \in EstablishedFolders /\ x # ROOT /\ Len(ClimbOf(x)) = k + 1 /\ x \in Node
    BY <1>1 DEF AtDepth, EstablishedFolders
  <2>2. HasPath(x)
    BY <1>1, <2>1, NodePathIs DEF HasPath, TreeInv
  <2>3. PICK d \in Node : d = folders[x].parent_folder
    BY <2>1, ParentOf
  <2>4. d \in EstablishedFolders /\ x \in folders[d].sub_folders
    BY <2>1, <2>3, ParentOf DEF EstablishedFolders
  <2>5. d \in AtDepth(k)
    <3>1. CASE d = ROOT
      <4>1. Len(ClimbOf(x)) = 1
        BY <2>1, <2>3, <3>1, ClimbLength
      <4>2. k = 0
        <5>1. k + 1 = 1
          BY <2>1, <4>1
        <5>2. QED
          BY <1>1, <5>1
      <4>3. QED
        BY <2>4, <3>1, <4>2 DEF AtDepth
    <3>2. CASE d # ROOT
      <4>1. Len(ClimbOf(x)) = Len(ClimbOf(d)) + 1
        BY <2>1, <2>2, <2>3, <3>2, ClimbLength
      <4>2. Len(ClimbOf(d)) \in Nat \ {0}
        BY <3>2, NodePathIs DEF TreeInv
      <4>3. Len(ClimbOf(d)) = k /\ k # 0
        BY <1>1, <2>1, <4>1, <4>2
      <4>4. QED
        BY <2>4, <3>2, <4>3 DEF AtDepth
    <3>3. QED
      BY <3>1, <3>2
  <2>6. QED
    BY <2>4, <2>5 DEF Below
<1>4. QED
  BY <1>2, <1>3 DEF Below

\* tree descends to the folders that have a path, and to no others.
LEMMA TreeFoldersIs ==
  ASSUME TreeInv
  PROVE  TreeFolders(ROOT) = {d \in EstablishedFolders : HasPath(d)}
<1> DEFINE n == MAX_FOLDER_DEPTH
           S == SUBSET Node
           step == [i \in 1 .. n |-> [X \in S |-> Below(X)]]
           Def(level) == level = [i \in 0 .. n |-> IF i = 0 THEN {ROOT} ELSE Below(level[i - 1])]
<1>1. n \in Nat /\ n = MAX_PATH_NODES_AMOUNT
  BY EntryStoreAssumption DEF MAX_FOLDER_DEPTH
<1>2. ASSUME NEW X \in S PROVE Below(X) \in S
  BY DEF Below, TreeInv, TypeOK, Node
<1>3. {ROOT} \in S
  BY DEF Node
<1>4. PICK f \in [0 .. n -> S] : f[0] = {ROOT} /\ \A i \in 1 .. n : f[i] = Below(f[i - 1])
  <2> HIDE DEF S, n
  <2>1. step \in [1 .. n -> [S -> S]]
    BY <1>2
  <2>2. ASSUME NEW f \in [0 .. n -> S], NEW i \in 1 .. n
        PROVE  step[i][f[i - 1]] = Below(f[i - 1])
    <3>1. f[i - 1] \in S
      BY <1>1
    <3>2. QED
      BY <3>1
  <2> HIDE DEF step
  <2>3. \E f \in [0 .. n -> S] :
          f[0] = {ROOT} /\ \A i \in 1 .. n : f[i] = step[i][f[i - 1]]
    <3> DEFINE start == {ROOT}
    <3>1. n \in Nat /\ start \in S
      BY <1>1, <1>3
    <3> HIDE DEF start
    <3>2. \E f \in [0 .. n -> S] :
            f[0] = start /\ \A i \in 1 .. n : f[i] = step[i][f[i - 1]]
      BY ONLY <2>1, <3>1, Recursion
    <3>3. QED
      BY <3>2 DEF start
  <2>4. QED
    BY <2>2, <2>3
<1>5. Def(f)
  <2> HIDE DEF S, n
  <2>1. \A i \in 0 .. n : i # 0 => i \in 1 .. n
    BY <1>1
  <2>2. QED
    BY <1>4, <2>1
<1> DEFINE level == CHOOSE level : Def(level)
<1>6. Def(level)
  <2> HIDE DEF Def
  <2> QED
    BY <1>5
<1>7. TreeFolders(ROOT) = UNION {level[i] : i \in DOMAIN level}
  BY DEF TreeFolders, Below
<1> HIDE DEF level
<1>8. /\ level[0] = {ROOT} /\ \A i \in 1 .. n : level[i] = Below(level[i - 1])
      /\ DOMAIN level = 0 .. n
  <2> HIDE DEF n
  <2>1. \A i \in 1 .. n : i \in 0 .. n /\ i # 0
    BY <1>1
  <2>2. 0 \in 0 .. n
    BY <1>1
  <2>3. QED
    BY <1>6, <2>1, <2>2
<1> DEFINE T == {i \in 0 .. n : level[i] = AtDepth(i)}
<1>9. \A i \in 0 .. n : i \in T
  <2>1. 0 \in T
    <3>1. AtDepth(0) = {ROOT}
      BY DEF AtDepth, EstablishedFolders, Established, Node
    <3>2. 0 \in 0 .. n
      BY <1>1
    <3>3. QED
      BY <1>8, <3>1, <3>2
  <2>2. ASSUME NEW i \in 0 .. n - 1, i \in T PROVE i + 1 \in T
    <3>1. i + 1 \in 1 .. n /\ i + 1 - 1 = i /\ i + 1 \in 0 .. n
          /\ i \in 0 .. MAX_PATH_NODES_AMOUNT - 1
      BY <1>1
    <3>2. level[i + 1] = Below(AtDepth(i))
      BY <1>8, <2>2, <3>1
    <3>3. Below(AtDepth(i)) = AtDepth(i + 1)
      BY <3>1, OneLevelDown
    <3>4. QED
      BY <3>1, <3>2, <3>3
  <2> HIDE DEF T, n
  <2>3. QED
    BY <1>1, <2>1, <2>2, UpTo
<1>10. TreeFolders(ROOT) = UNION {AtDepth(i) : i \in 0 .. n}
  BY <1>7, <1>8, <1>9
<1>11. ASSUME NEW i \in 0 .. n, NEW d \in AtDepth(i) PROVE d \in EstablishedFolders /\ HasPath(d)
  <2>1. d \in EstablishedFolders /\ d \in Node
    BY DEF AtDepth, EstablishedFolders
  <2>2. CASE d = ROOT
    BY <2>1, <2>2 DEF HasPath
  <2>3. CASE d # ROOT
    <3>1. Len(ClimbOf(d)) = i
      BY <2>3 DEF AtDepth
    <3>2. PathTooLong(d) <=> Len(ClimbOf(d)) > MAX_PATH_NODES_AMOUNT
      BY <2>1, <2>3, NodePathIs DEF TreeInv
    <3>3. QED
      BY <1>1, <2>1, <3>1, <3>2 DEF HasPath
  <2>4. QED
    BY <2>2, <2>3
<1>12. ASSUME NEW d \in EstablishedFolders, HasPath(d) PROVE \E i \in 0 .. n : d \in AtDepth(i)
  <2>1. d \in Node
    BY DEF EstablishedFolders
  <2>2. CASE d = ROOT
    <3>1. 0 \in 0 .. n /\ d \in AtDepth(0)
      BY <1>1, <2>2 DEF AtDepth
    <3>2. QED
      BY <3>1
  <2>3. CASE d # ROOT
    <3>1. /\ PathTooLong(d) <=> Len(ClimbOf(d)) > MAX_PATH_NODES_AMOUNT
          /\ Len(ClimbOf(d)) \in Nat \ {0}
      BY <2>1, <2>3, NodePathIs DEF TreeInv
    <3>2. Len(ClimbOf(d)) \in 0 .. n
      BY <1>1, <1>12, <2>3, <3>1 DEF HasPath
    <3>3. d \in AtDepth(Len(ClimbOf(d)))
      BY <2>3, <3>1 DEF AtDepth
    <3>4. QED
      BY <3>2, <3>3
  <2>4. QED
    BY <2>2, <2>3
<1>13. QED
  BY <1>10, <1>11, <1>12

-----------------------------------------------------------------------------
(* Folders no path leads into *)

\* What is below a folder hangs in something that is at or below it.
LEMMA SubtreeParent ==
  ASSUME TreeInv, NEW d \in Folder, NEW y \in Subtree(d), y # d
  PROVE  folders[y].parent_folder \in Subtree(d)
<1> DEFINE S == {z \in Subtree(d) : z = d \/ folders[z].parent_folder \in Subtree(d)}
<1>1. d \in Node /\ TypeOK
  BY DEF Node, TreeInv
<1>2. d \in Subtree(d) /\ Subtree(d) \subseteq Node /\ Closed(Subtree(d))
  BY <1>1, SubtreeClosed
<1>3. ASSUME NEW z \in S, NEW w \in folders[z].sub_folders PROVE w \in S
  <2>1. z \in Node /\ z \in Subtree(d) /\ w \in Subtree(d)
    BY <1>2, <1>3 DEF Closed
  <2>2. w \in Folder
    BY <1>1, <1>3, <2>1 DEF TypeOK
  <2>3. folders[w].parent_folder = z
    BY <1>3, <2>1, <2>2 DEF TreeInv, BothEndsAgree, FolderLinksAgree
  <2>4. QED
    BY <2>1, <2>3
<1>4. S \in SUBSET Node /\ d \in S /\ Closed(S)
  BY <1>2, <1>3 DEF Closed
<1>5. Subtree(d) \subseteq S
  <2> HIDE DEF S
  <2> QED
    BY <1>4, SubtreeLeast
<1>6. QED
  BY <1>5

\* The root is below no folder.
LEMMA RootNotBelow ==
  ASSUME TypeOK, NEW d \in Folder
  PROVE  ROOT \notin Subtree(d)
<1>1. Folder \in SUBSET Node /\ d \in Folder /\ Closed(Folder)
  BY DEF Node, Closed, TypeOK
<1>2. QED
  BY <1>1, SubtreeLeast, EntryStoreAssumption

\* A path that parses does not lead from outside of a folder with a LongName into it.
LEMMA WalkStaysOutside ==
  ASSUME TreeInv, NEW d \in Folder, folders[d].name \in LongName,
         NEW start \in Node, start \notin Subtree(d),
         NEW names \in Seq(Name), Parses(names)
  PROVE  \A i \in 0 .. Len(names) : Walk(start, names)[i] \notin Subtree(d)
<1> DEFINE w == Walk(start, names)
           n == Len(names)
           T == {i \in 0 .. n : w[i] \notin Subtree(d)}
<1>1. n \in Nat /\ TypeOK /\ \A i \in 1 .. n : names[i] \notin LongName
  BY DEF TreeInv, Parses, NodeParses
<1>2. /\ w \in [0 .. n -> NullableNode] /\ w[0] = start
      /\ \A i \in 1 .. n : w[i] = IF w[i - 1] = NULL THEN NULL ELSE SubFolder(w[i - 1], names[i])
  BY <1>1, WalkSteps
<1> HIDE DEF w
<1>3. NULL \notin Subtree(d)
  BY EntryStoreAssumption DEF Subtree, Node
<1>4. 0 \in T
  BY <1>1, <1>2
<1>5. ASSUME NEW i \in 0 .. n - 1, i \in T PROVE i + 1 \in T
  <2>1. i + 1 \in 1 .. n /\ i + 1 - 1 = i /\ i + 1 \in 0 .. n /\ i \in 0 .. n
    BY <1>1
  <2>2. w[i] \in NullableNode /\ w[i] \notin Subtree(d)
    BY <1>2, <1>5, <2>1
  <2>3. w[i + 1] = IF w[i] = NULL THEN NULL ELSE SubFolder(w[i], names[i + 1])
    BY <1>2, <2>1
  <2>4. CASE w[i + 1] = NULL
    BY <1>3, <2>1, <2>4
  <2>5. CASE w[i + 1] # NULL
    <3>1. PICK x \in Node : x = w[i]
      BY <2>2, <2>3, <2>5 DEF NullableNode
    <3>2. PICK y : y = SubFolder(x, names[i + 1])
      OBVIOUS
    <3>3. y \in folders[x].sub_folders /\ folders[y].name = names[i + 1] /\ y \in Folder
      <4>1. SubFolder(x, names[i + 1]) # NULL
        BY <2>3, <2>5, <3>1
      <4>2. QED
        BY <1>1, <3>2, <4>1, SubFolderFinds DEF TypeOK
    <3>4. y # d
      BY <1>1, <2>1, <3>3
    <3>5. folders[y].parent_folder = x
      BY <3>3 DEF TreeInv, BothEndsAgree, FolderLinksAgree
    <3>6. y \notin Subtree(d)
      BY <2>2, <3>1, <3>4, <3>5, SubtreeParent
    <3>7. w[i + 1] = y
      BY <2>3, <2>5, <3>1, <3>2
    <3>8. QED
      BY <2>1, <3>6, <3>7
  <2>6. QED
    BY <2>4, <2>5
<1>6. \A i \in 0 .. n : i \in T
  <2> HIDE DEF T, n
  <2> QED
    BY <1>1, <1>4, <1>5, UpTo
<1>7. QED
  BY <1>6 DEF w

LEMMA ResolvedStaysOutside ==
  ASSUME TreeInv, NEW d \in Folder, folders[d].name \in LongName,
         cur_folder \in Node, cur_folder \notin Subtree(d)
  PROVE  \A e \in ResolvedFolders : e \notin Subtree(d)
<1> SUFFICES ASSUME NEW path \in Path PROVE Resolve(path) \notin Subtree(d)
  BY DEF ResolvedFolders, Resolved
<1>1. TypeOK /\ path.names \in Seq(Name) /\ ROOT \notin Subtree(d) /\ ROOT \in Node
  BY PathNames, RootNotBelow DEF TreeInv, Node
<1>2. NULL \notin Subtree(d) /\ Subtree(d) \subseteq Node /\ File \cap Node = {}
  BY EntryStoreAssumption DEF Subtree, Node
<1>3. CASE path.names = <<>>
  BY <1>1, <1>3 DEF Resolve
<1>4. CASE path.names # <<>>
  <2>1. PICK start \in Node : start = IF path.absolute THEN ROOT ELSE cur_folder
    BY <1>1
  <2>2. start \notin Subtree(d)
    BY <1>1, <2>1
  <2>3. PICK names \in Seq(Name) : names = path.names
    BY <1>1
  <2>4. Resolve(path) = ResolveFrom(start, names)
    BY <1>4, <2>1, <2>3 DEF Resolve
  <2>5. Len(names) \in Nat \ {0}
    BY <1>4, <2>3
  <2> DEFINE parent == Walk(start, names)[Len(names) - 1]
  <2>6. CASE ~Parses(names) \/ parent = NULL
    BY <1>2, <2>4, <2>6 DEF ResolveFrom
  <2>7. CASE Parses(names) /\ parent # NULL
    <3>1. Len(names) - 1 \in 0 .. Len(names) /\ Len(names) \in 1 .. Len(names)
      BY <2>5
    <3>2. PICK x \in Node : x = parent
      <4>1. Walk(start, names) \in [0 .. Len(names) -> NullableNode]
        BY <1>1, <2>5, WalkSteps
      <4>2. parent \in NullableNode
        BY <3>1, <4>1
      <4>3. QED
        BY <2>7, <4>2 DEF NullableNode
    <3>3. Walk(start, names)[Len(names)] = SubFolder(x, Last(names))
      <4>1. Walk(start, names)[Len(names)] =
              IF parent = NULL THEN NULL ELSE SubFolder(parent, names[Len(names)])
        BY <1>1, <2>5, <3>1, WalkSteps
      <4>2. QED
        BY <2>7, <3>2, <4>1 DEF Last
    <3>4. SubFolder(x, Last(names)) \notin Subtree(d)
      <4>1. Len(names) \in 0 .. Len(names)
        BY <2>5
      <4>2. Walk(start, names)[Len(names)] \notin Subtree(d)
        BY <2>2, <2>7, <4>1, WalkStaysOutside
      <4>3. QED
        BY <3>3, <4>2
    <3>5. SubFile(x, Last(names)) \notin Subtree(d)
      BY <1>1, <1>2, SubFileFinds
    <3>6. Resolve(path) = VFSNode(x, Last(names))
      BY <2>4, <2>7, <3>2 DEF ResolveFrom
    <3>7. QED
      BY <3>4, <3>5, <3>6 DEF VFSNode
  <2>8. QED
    BY <2>6, <2>7
<1>5. QED
  BY <1>3, <1>4

\* No folder gets a sub folder.
NoNewLinks == \A x \in Node : folders'[x].sub_folders \subseteq folders[x].sub_folders

\* Only creating and moving a folder makes a link from a folder to another one.
LEMMA FewerLinks ==
  ASSUME IInv,
         \/ \E f \in EstablishedFiles, name \in Name :
              RenameFile(f, name) \/ RenameFileOverrun(f, name)
         \/ \E d \in EstablishedFolders, name \in Name : RenameFolder(d, name)
         \/ \E f \in EstablishedFiles, d \in EstablishedFolders : MoveFile(f, d)
         \/ \E f \in EstablishedFiles : StoreData(f) \/ ClearData(f) \/ RemoveFile(f)
         \/ \E d \in EstablishedFolders : RemoveFolder(d) \/ RemoveTree(d)
         \/ RemovalStep
         \/ UNCHANGED entries
  PROVE  NoNewLinks
<1>1. TreeInv /\ TypeOK /\ CallInv
  BY DEF IInv, TreeInv
<1>2. ASSUME UNCHANGED folders PROVE NoNewLinks
  BY <1>2 DEF NoNewLinks
<1>3. ASSUME SameFolders PROVE NoNewLinks
  BY <1>3 DEF NoNewLinks, SameFolders
<1>4. ASSUME NEW d \in EstablishedFolders, DeleteFlatFolder(d) PROVE NoNewLinks
  <2>1. folders' = [WithoutFolder(d) EXCEPT ![d].name = NULL] /\ d # ROOT
    BY <1>4 DEF DeleteFlatFolder
  <2>2. d \in Folder /\ d \in Node /\ folders[d].parent_folder \in Node
    BY <1>1, <2>1, ParentOf DEF EstablishedFolders
  <2> DEFINE cut == WithoutFolder(d)
  <2>3. /\ cut \in [Node -> FolderRecord]
        /\ \A x \in Node : cut[x].sub_folders \subseteq folders[x].sub_folders
    BY <1>1, <2>2, WithoutFolderIs
  <2>4. folders' = [cut EXCEPT ![d].name = NULL]
    BY <2>1
  <2> HIDE DEF cut
  <2>5. \A x \in Node : folders'[x].sub_folders = cut[x].sub_folders
    BY <2>2, <2>3, <2>4 DEF FolderRecord
  <2>6. QED
    BY <2>3, <2>5 DEF NoNewLinks
<1>5. ASSUME NEW d \in EstablishedFolders, NEW name \in Name, RenameFolder(d, name)
      PROVE  NoNewLinks
  <2>1. folders' = [folders EXCEPT ![d].name = name]
    BY <1>5 DEF RenameFolder
  <2>2. QED
    BY <1>1, <2>1 DEF NoNewLinks, TypeOK
<1>6. ASSUME NEW f \in EstablishedFiles, NEW d \in EstablishedFolders, MoveFile(f, d)
      PROVE  NoNewLinks
  BY <1>1, <1>3, <1>6, MoveFileSameFolders
<1>7. ASSUME NEW f \in EstablishedFiles, StoreData(f) \/ ClearData(f) \/ RemoveFile(f)
      PROVE  NoNewLinks
  BY <1>1, <1>2, <1>3, <1>7, DeleteVfsFileSameFolders DEF StoreData, ClearData, RemoveFile
<1>8. ASSUME NEW d \in EstablishedFolders, RemoveFolder(d) \/ RemoveTree(d)
      PROVE  NoNewLinks
  BY <1>2, <1>4, <1>8 DEF RemoveFolder, RemoveTree
<1>9. ASSUME RemovalStep PROVE NoNewLinks
  <2>1. Running
    BY <1>9 DEF RemovalStep, RemoveSubFile, RemoveSubFolder, RemovalTooDeep, RemoveInside,
                RemovalOfRoot
  <2>2. Inside \in EstablishedFolders /\ Inside \in Node
    BY <1>1, <2>1, InsideFits DEF EstablishedFolders
  <2>3. ASSUME RemoveSubFile PROVE NoNewLinks
    <3>1. PICK f \in folders[Inside].sub_files : DeleteVfsFile(f)
      BY <2>3 DEF RemoveSubFile
    <3>2. f \in EstablishedFiles
      BY <1>1, <2>2, ListedEstablished
    <3>3. QED
      BY <1>1, <1>3, <3>1, <3>2, DeleteVfsFileSameFolders
  <2>4. ASSUME RemoveInside PROVE NoNewLinks
    BY <1>4, <2>2, <2>4 DEF RemoveInside
  <2>5. ASSUME RemoveSubFolder \/ RemovalTooDeep \/ RemovalOfRoot PROVE NoNewLinks
    BY <1>2, <2>5 DEF RemoveSubFolder, RemovalTooDeep, RemovalOfRoot
  <2>6. QED
    BY <1>9, <2>3, <2>4, <2>5 DEF RemovalStep
<1>10. ASSUME UNCHANGED entries PROVE NoNewLinks
  BY <1>2, <1>10 DEF entries
<1>11. ASSUME NEW f \in EstablishedFiles, NEW name \in Name, RenameFile(f, name)
       PROVE  NoNewLinks
  BY <1>2, <1>11 DEF RenameFile
<1>12. ASSUME NEW f \in EstablishedFiles, NEW name \in Name, RenameFileOverrun(f, name)
       PROVE  NoNewLinks
  <2>1. CASE UNCHANGED folders
    BY <1>2, <2>1
  <2>2. CASE ~UNCHANGED folders
    <3>1. PICK d \in Folder, address \in NullableNode :
            folders' = [folders EXCEPT ![d].parent_folder = address]
      BY <1>12, <2>2 DEF RenameFileOverrun
    <3>2. QED
      BY <1>1, <3>1 DEF NoNewLinks, TypeOK
  <2>3. QED
    BY <2>1, <2>2
<1>13. QED
  BY <1>5, <1>6, <1>7, <1>8, <1>9, <1>10, <1>11, <1>12

\* No step leads into a folder with a LongName, and none brings the current folder
\* below one.
LEMMA StepStaysOutside ==
  ASSUME WsInv, Defined, [Next]_vars, NEW d \in Folder, folders[d].name \in LongName,
         Established(cur_folder), cur_folder \notin Subtree(d)
  PROVE  cur_folder' \notin Subtree(d)'
<1>1. IInv /\ TreeInv /\ TypeOK /\ cur_folder \in Node /\ cur_folder \in EstablishedFolders
  BY DEF WsInv, SafeInv, IInv, TreeInv, EstablishedFolders
<1>2. PICK B \in SUBSET Node : B = Subtree(d)
  BY DEF Subtree
<1>3. d \in B /\ Closed(B) /\ ROOT \notin B /\ cur_folder \notin B
  BY <1>1, <1>2, SubtreeClosed, RootNotBelow DEF Node
<1>4. /\ ResolvedFiles \subseteq EstablishedFiles /\ ResolvedFolders \subseteq EstablishedFolders
      /\ \A e \in ResolvedFolders : e \notin B
  BY <1>1, <1>2, <1>3, ResolvedEstablished, ResolvedStaysOutside
<1>5. ASSUME \A x \in B : folders'[x].sub_folders \subseteq B, cur_folder' \notin B
      PROVE  cur_folder' \notin Subtree(d)'
  BY <1>3, <1>5 DEF Subtree
<1>6. ASSUME NoNewLinks, cur_folder' \notin B
      PROVE  cur_folder' \notin Subtree(d)'
  BY <1>3, <1>5, <1>6 DEF NoNewLinks, Closed
<1>7. ASSUME Refuse, UNCHANGED wsVars PROVE cur_folder' \notin Subtree(d)'
  BY <1>1, <1>3, <1>6, <1>7, FewerLinks DEF Refuse, wsVars
<1>8. CASE ChangeToPath
  <2>1. PICK e \in ResolvedFolders : Enter(e)
    BY <1>8 DEF ChangeToPath
  <2>2. cur_folder' = e /\ UNCHANGED entries
    BY <2>1 DEF Enter
  <2>3. QED
    BY <1>1, <1>4, <1>6, <2>2, FewerLinks
<1>9. CASE ChangeToParent
  <2>1. PICK e : e = folders[cur_folder].parent_folder
    OBVIOUS
  <2>2. cur_folder # ROOT /\ cur_folder' = e /\ UNCHANGED entries
    BY <1>9, <2>1 DEF ChangeToParent, Enter
  <2>3. e \in Node /\ cur_folder \in folders[e].sub_folders
    BY <1>1, <2>1, <2>2, ParentOf
  <2>4. e \notin B
    BY <1>3, <2>3 DEF Closed
  <2>5. QED
    BY <1>1, <1>6, <2>2, <2>4, FewerLinks
<1>10. CASE ChangeToNullParent
  <2>1. UNCHANGED entries /\ cur_folder' = cur_folder
    BY <1>10 DEF ChangeToNullParent, treeVars
  <2>2. QED
    BY <1>1, <1>3, <1>6, <2>1, FewerLinks
<1>11. ASSUME NEW name \in Name, Create(name), UNCHANGED wsVars
       PROVE  cur_folder' \notin Subtree(d)'
  <2>1. cur_folder' = cur_folder
    BY <1>11 DEF wsVars
  <2>2. CASE CreateFile(cur_folder, name)
    <3>1. PICK f \in File : folders' = [folders EXCEPT ![cur_folder].sub_files = @ \cup {f}]
      BY <2>2 DEF CreateFile
    <3>2. NoNewLinks
      BY <1>1, <3>1 DEF NoNewLinks, TypeOK
    <3>3. QED
      BY <1>3, <1>6, <2>1, <3>2
  <2>3. CASE CreateFolder(cur_folder, name)
    <3>1. PICK e \in Folder :
            folders' = [folders EXCEPT
                 ![e] = [parent_folder |-> cur_folder, name |-> name,
                         sub_files |-> {}, sub_folders |-> {}],
                 ![cur_folder].sub_folders = @ \cup {e}]
      BY <2>3 DEF CreateFolder
    <3>2. \A x \in B : folders'[x].sub_folders \subseteq folders[x].sub_folders
      BY <1>1, <1>3, <3>1 DEF TypeOK
    <3>3. \A x \in B : folders'[x].sub_folders \subseteq B
      BY <1>3, <3>2 DEF Closed
    <3>4. QED
      BY <1>3, <1>5, <2>1, <3>3
  <2>4. QED
    BY <1>7, <1>11, <2>2, <2>3 DEF Create
<1>12. ASSUME NEW name \in Name, RenameNode(name), UNCHANGED wsVars
       PROVE  cur_folder' \notin Subtree(d)'
  <2>1. cur_folder' = cur_folder
    BY <1>12 DEF wsVars
  <2>2. Refuse \/ NoNewLinks
    BY <1>1, <1>4, <1>12, FewerLinks DEF RenameNode
  <2>3. QED
    BY <1>3, <1>6, <1>7, <1>12, <2>1, <2>2
<1>13. CASE (RemoveNode \/ WriteFile) /\ UNCHANGED wsVars
  <2>1. cur_folder' = cur_folder
    BY <1>13 DEF wsVars
  <2>2. Refuse \/ NoNewLinks
    BY <1>1, <1>4, <1>13, FewerLinks DEF RemoveNode, WriteFile
  <2>3. QED
    BY <1>3, <1>6, <1>7, <1>13, <2>1, <2>2
<1>14. CASE MoveNode /\ UNCHANGED wsVars
  <2>1. cur_folder' = cur_folder
    BY <1>14 DEF wsVars
  <2>2. PICK p \in ResolvedFolders :
          \/ \E f \in ResolvedFiles : MoveFile(f, p) \/ (~CanMoveFile(f, p) /\ Refuse)
          \/ \E e \in ResolvedFolders : MoveFolder(e, p) \/ (~CanMoveFolder(e, p) /\ Refuse)
    BY <1>14 DEF MoveNode
  <2>3. CASE \E f \in ResolvedFiles : MoveFile(f, p) \/ (~CanMoveFile(f, p) /\ Refuse)
    <3>1. Refuse \/ NoNewLinks
      BY <1>1, <1>4, <2>3, FewerLinks
    <3>2. QED
      BY <1>3, <1>6, <1>7, <1>14, <2>1, <3>1
  <2>4. ASSUME NEW e \in ResolvedFolders, MoveFolder(e, p)
        PROVE  cur_folder' \notin Subtree(d)'
    <3>1. /\ folders' = [WithoutFolder(e) EXCEPT ![p].sub_folders = @ \cup {e},
                                                 ![e].parent_folder = p]
          /\ e # ROOT /\ e \in EstablishedFolders
      BY <1>1, <1>4, <2>4, AvailableName DEF MoveFolder, CanMoveFolder, TreeInv, RootNamed
    <3>2. e \in Folder /\ e \in Node /\ folders[e].parent_folder \in Node
      BY <1>1, <3>1, ParentOf DEF EstablishedFolders
    <3> DEFINE cut == WithoutFolder(e)
               with == [cut EXCEPT ![p].sub_folders = @ \cup {e}]
    <3>3. /\ cut \in [Node -> FolderRecord]
          /\ \A x \in Node : cut[x].sub_folders \subseteq folders[x].sub_folders
      BY <1>1, <3>2, WithoutFolderIs
    <3>4. folders' = [with EXCEPT ![e].parent_folder = p]
      BY <3>1
    <3> HIDE DEF cut
    <3>5. /\ DOMAIN with = Node
          /\ \A x \in Node : x # p => with[x].sub_folders = cut[x].sub_folders
      BY <3>3 DEF FolderRecord
    <3> HIDE DEF with
    <3>6. \A x \in Node : folders'[x].sub_folders = with[x].sub_folders
      <4>1. \A x \in Node : folders'[x] = IF x = e THEN [with[e] EXCEPT !.parent_folder = p]
                                          ELSE with[x]
        BY <3>2, <3>4, <3>5
      <4>2. [with[e] EXCEPT !.parent_folder = p].sub_folders = with[e].sub_folders
        OBVIOUS
      <4>3. QED
        BY <4>1, <4>2
    <3>7. \A x \in B : folders'[x].sub_folders \subseteq folders[x].sub_folders
      BY <1>4, <3>3, <3>5, <3>6
    <3>8. \A x \in B : folders'[x].sub_folders \subseteq B
      BY <1>3, <3>7 DEF Closed
    <3>9. QED
      BY <1>3, <1>5, <2>1, <3>8
  <2>5. QED
    BY <1>7, <1>14, <2>2, <2>3, <2>4
<1>15. CASE ChangeRefused /\ UNCHANGED wsVars
  BY <1>7, <1>15 DEF ChangeRefused
<1>16. CASE RemovalStep /\ UNCHANGED wsVars
  BY <1>1, <1>3, <1>6, <1>16, FewerLinks DEF wsVars
<1>17. CASE UNCHANGED vars
  <2>1. UNCHANGED entries /\ cur_folder' = cur_folder
    BY <1>17 DEF vars, treeVars, wsVars
  <2>2. QED
    BY <1>1, <1>3, <1>6, <2>1, FewerLinks
<1>18. QED
  BY <1>8, <1>9, <1>10, <1>11, <1>12, <1>13, <1>14, <1>15, <1>16, <1>17 DEF Next, Command

-----------------------------------------------------------------------------
(* The theorems *)

\* The path printed for an entry leads back to it, as long as it parses, and extends that
\* of its folder by its name (path_utils.c:95-197, queries.c:124-247).
THEOREM PathsRoundTrip == Spec => []PathRoundTrip
<1>1. WsInv => PathRoundTrip
  <2> SUFFICES ASSUME WsInv, Defined PROVE PathRoundTrip
    BY DEF PathRoundTrip
  <2>1. TreeInv /\ Tidy
    BY DEF WsInv, SafeInv, IInv
  <2>2. ASSUME NEW e \in EstablishedFiles \cup EstablishedFolders,
               ~EntryTooDeep(e), Parses(EntryPath(e))
        PROVE  Resolve([absolute |-> TRUE, names |-> EntryPath(e)]) = e
    <3>1. CASE e = ROOT
      <4>1. EntryPath(e) = <<>>
        BY <3>1, EntryStoreAssumption DEF EntryPath, NodePath
      <4>2. QED
        BY <3>1, <4>1 DEF Resolve
    <3>2. CASE e # ROOT
      <4>1. e \in Entries
        BY <3>2 DEF Entries
      <4>2. QED
        BY <2>1, <2>2, <4>1, EntryPathResolves
    <3>3. QED
      BY <3>1, <3>2
  <2>3. ASSUME NEW d \in EstablishedFolders, NEW e \in SubEntries(d), ~EntryTooDeep(e)
        PROVE  EntryPath(e) = Append(EntryPath(d), NameOf(e))
    <3>1. d \in Node /\ d \notin File
      BY EntryStoreAssumption DEF EstablishedFolders, Node
    <3>2. e \in Entries /\ ParentOfEntry(e) = d
      <4>1. CASE e \in folders[d].sub_files
        <5>1. e \in EstablishedFiles /\ e \in File
          BY <2>1, <3>1, <4>1, ListedEstablished DEF EstablishedFiles
        <5>2. QED
          BY <2>1, <3>1, <4>1, <5>1, ParentOfFile DEF Entries, ParentOfEntry
      <4>2. CASE e \in folders[d].sub_folders
        <5>1. e \in EstablishedFolders /\ e \in Folder /\ e # ROOT /\ e \notin File
          BY <2>1, <3>1, <4>2, ListedEstablished, EntryStoreAssumption DEF TreeInv, TypeOK
        <5>2. folders[e].parent_folder = d
          BY <2>1, <3>1, <4>2, <5>1, ParentOf
        <5>3. QED
          BY <5>1, <5>2 DEF Entries, ParentOfEntry
      <4>3. QED
        BY <4>1, <4>2 DEF SubEntries
    <3>3. EntryPath(e) = Append(NodePath(d), NameOf(e))
      BY <2>1, <2>3, <3>2, EntryPathLeads
    <3>4. QED
      BY <3>1, <3>3 DEF EntryPath
  <2>4. QED
    BY <2>2, <2>3 DEF PathRoundTrip
<1>2. QED
  BY <1>1, WorkspaceInvariant, PTL

\* find prints the paths of different matches, each of which leads to a match, and all of
\* them when it answers SUCCESS (command_exec.c:652-666).
THEOREM FindAlwaysExact == Spec => []FindIsExact
<1>1. WsInv => FindIsExact
  <2> SUFFICES ASSUME WsInv, Defined, NEW name \in Name, NEW scan \in Scans(name)
               PROVE  LET found == Find(scan) IN
                      /\ \A path \in Range(found.printed) :
                           Parses(path) =>
                             Resolve([absolute |-> TRUE, names |-> path]) \in Range(scan)
                      /\ IsInjective(found.printed)
                      /\ found.status = "SUCCESS" => Len(found.printed) = Len(scan)
    BY DEF FindIsExact
  <2>1. TreeInv /\ Tidy
    BY DEF WsInv, SafeInv, IInv
  <2>2. /\ scan \in Seq(Entries) /\ Len(scan) \in Nat /\ DOMAIN scan = 1 .. Len(scan)
        /\ \A i, j \in 1 .. Len(scan) : scan[i] = scan[j] => i = j
    BY <2>1, ScanIs
  <2> DEFINE printed == Find(scan).printed
  <2>3. CASE Find(scan) = [status |-> "DATA_OVER_FLOW", printed |-> <<>>]
    <3>1. printed = <<>> /\ DOMAIN printed = {} /\ Find(scan).status # "SUCCESS"
      BY <2>3
    <3>2. QED
      BY <3>1 DEF Range, IsInjective
  <2>4. CASE \E shown \in 0 .. Len(scan) :
               /\ printed = [i \in 1 .. shown |-> EntryPath(scan[i])]
               /\ \A i \in 1 .. shown : ~EntryTooDeep(scan[i])
               /\ Find(scan).status = "SUCCESS" => shown = Len(scan)
    <3>1. PICK shown \in 0 .. Len(scan) :
            /\ printed = [i \in 1 .. shown |-> EntryPath(scan[i])]
            /\ \A i \in 1 .. shown : ~EntryTooDeep(scan[i])
            /\ Find(scan).status = "SUCCESS" => shown = Len(scan)
      BY <2>4
    <3> HIDE DEF printed
    <3> DEFINE size == Len(scan)
    <3>a. size \in Nat /\ DOMAIN scan = 1 .. size /\ shown \in 0 .. size
      BY <2>2, <3>1
    <3> HIDE DEF size
    <3>b. shown \in Nat /\ shown <= size
      BY <3>a
    <3>d. \A i \in 1 .. shown : i \in 1 .. size
      BY ONLY <3>a
    <3> DEFINE row(i) == EntryPath(scan[i])
    <3>c. printed = [i \in 1 .. shown |-> row(i)]
      BY <3>1
    <3> HIDE DEF row
    <3>2. /\ shown \in Nat /\ DOMAIN printed = 1 .. shown /\ Len(printed) = shown
          /\ \A i \in 1 .. shown : printed[i] = EntryPath(scan[i])
      <4>1. DOMAIN printed = 1 .. shown /\ \A i \in 1 .. shown : printed[i] = row(i)
        BY <3>c
      <4>2. Len(printed) = shown
        BY <3>b, <3>c
      <4>3. QED
        BY <3>b, <4>1, <4>2 DEF row
    <3>3. \A i \in 1 .. shown : i \in 1 .. Len(scan) /\ scan[i] \in Entries
      <4> SUFFICES ASSUME NEW i \in 1 .. shown
                   PROVE  i \in 1 .. Len(scan) /\ scan[i] \in Entries
        OBVIOUS
      <4>1. i \in 1 .. size
        BY <3>d
      <4>2. i \in DOMAIN scan
        BY <3>a, <4>1
      <4>3. scan[i] \in Entries
        BY <2>2, <4>2, ElementOfSeq
      <4>4. QED
        BY <4>1, <4>3 DEF size
    <3>4. ASSUME NEW path \in Range(printed), Parses(path)
          PROVE  Resolve([absolute |-> TRUE, names |-> path]) \in Range(scan)
      <4>1. PICK i \in 1 .. shown : path = EntryPath(scan[i])
        BY <3>2 DEF Range
      <4>2. PICK e \in Entries : e = scan[i]
        BY <3>3
      <4>3. Resolve([absolute |-> TRUE, names |-> EntryPath(e)]) = e
        BY <2>1, <3>1, <3>4, <4>1, <4>2, EntryPathResolves
      <4>4. e \in Range(scan)
        BY <2>2, <3>3, <4>2 DEF Range
      <4>5. QED
        BY <4>1, <4>2, <4>3, <4>4
    <3>5. ASSUME NEW i \in 1 .. shown, NEW j \in 1 .. shown, printed[i] = printed[j]
          PROVE  i = j
      <4>1. EntryPath(scan[i]) = EntryPath(scan[j])
        BY <3>2, <3>5
      <4>2. scan[i] = scan[j]
        BY <2>1, <3>1, <3>3, <4>1, EntryPathTells
      <4>3. QED
        BY <2>2, <3>3, <4>2
    <3>6. QED
      BY <3>1, <3>2, <3>4, <3>5 DEF IsInjective, printed
  <2>5. QED
    BY <2>2, <2>3, <2>4, FindIs
<1>2. QED
  BY <1>1, WorkspaceInvariant, PTL

\* As long as every folder has a path, tree from the root shows all there is: the limit on
\* the way down and the one on the way up are the same (folders.c:574, path_utils.c:234).
THEOREM TreeAlwaysComplete == Spec => []TreeIsComplete
<1>1. WsInv => TreeIsComplete
  <2> SUFFICES ASSUME WsInv, Defined, PathsAreBounded PROVE TreeShowsAll
    BY DEF TreeIsComplete
  <2>1. TreeInv
    BY DEF WsInv, SafeInv, IInv
  <2> DEFINE shown == {d \in EstablishedFolders : HasPath(d)}
  <2>2. TreeFolders(ROOT) = shown
    BY <2>1, TreeFoldersIs
  <2>3. UNION {folders[e].sub_files : e \in shown} =
          {f \in EstablishedFiles : files[f].parent_folder \in shown}
    <3>1. ASSUME NEW e \in shown, NEW f \in folders[e].sub_files
          PROVE  f \in EstablishedFiles /\ files[f].parent_folder \in shown
      <4>1. e \in Node
        BY DEF EstablishedFolders
      <4>2. f \in EstablishedFiles
        BY <2>1, <4>1, ListedEstablished
      <4>3. QED
        BY <2>1, <4>1, <4>2, ParentOfFile
    <3>2. ASSUME NEW f \in EstablishedFiles, files[f].parent_folder \in shown
          PROVE  f \in folders[files[f].parent_folder].sub_files
      BY <2>1, ParentOfFile
    <3> HIDE DEF shown
    <3>3. QED
      BY <3>1, <3>2
  <2>4. Tree(ROOT) = shown \cup {f \in EstablishedFiles : files[f].parent_folder \in shown}
    <3> HIDE DEF shown
    <3> QED
      BY <2>2, <2>3 DEF Tree
  <2>5. shown = EstablishedFolders
    BY DEF HasPath, PathsAreBounded, EstablishedFolders, Established, Node
  <2>6. \A f \in EstablishedFiles : files[f].parent_folder \in shown
    BY <2>1, <2>5, ParentOfFile
  <2>7. QED
    BY <2>4, <2>5, <2>6 DEF TreeShowsAll, AllEntries
<1>2. QED
  BY <1>1, WorkspaceInvariant, PTL

\* Whoever is outside of a folder with a name of MAX_NAME_LENGTH characters never gets
\* into it or below it again, by any command (path_utils.c:307, :321).
THEOREM LongNameAlwaysLocksOut == Spec => LongNameLocksOut
<1> DEFINE LocksOut ==
      \A d \in Folder :
        /\ Established(d) /\ folders[d].name \in LongName
        /\ Established(cur_folder) /\ cur_folder \notin Subtree(d)
        => ~(Established(d)' /\ cur_folder' \in Subtree(d)')
<1>1. WsInv /\ [Next]_vars => LocksOut
  <2> SUFFICES ASSUME WsInv, [Next]_vars PROVE LocksOut
    OBVIOUS
  <2>1. CASE Defined
    BY <2>1, StepStaysOutside
  <2>2. CASE ~Defined
    <3>1. ~Running
      BY <2>2 DEF WsInv, SafeInv, Damaged
    <3>2. UNCHANGED vars
      BY <2>2, <3>1 DEF Next, Command, RemovalStep, RemoveSubFile, RemoveSubFolder,
           RemovalTooDeep, RemoveInside, RemovalOfRoot
    <3>3. QED
      BY <3>2 DEF vars, treeVars, entries, wsVars, Subtree
  <2>3. QED
    BY <2>1, <2>2
<1>2. LocksOut => [\A d \in Folder :
                     /\ Established(d) /\ folders[d].name \in LongName
                     /\ Established(cur_folder) /\ cur_folder \notin Subtree(d)
                     => ~(Established(d)' /\ cur_folder' \in Subtree(d)')]_vars
  OBVIOUS
<1>3. QED
  BY <1>1, <1>2, WorkspaceInvariant, PTL DEF Spec, LongNameLocksOut
====================================================================
