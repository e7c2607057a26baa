----------------------------- MODULE WorkspaceProofs -----------------------------
(***************************************************************************)
(* The workspace, for every number of slots and every length of paths:     *)
(* what a path can lead to, how far up a folder's path reaches, and from   *)
(* both that the workspace uses the entry store as EntryStore allows, so   *)
(* that all of EntryStoreProofs holds for the tree under user commands.    *)
(***************************************************************************)
EXTENDS Workspace, EntryStoreProofs, Induction

-----------------------------------------------------------------------------
(* From a path to an entry *)

\* What search_sub_folder and search_sub_file find is in the folder and has the name.
LEMMA SubFolderFinds ==
  ASSUME TypeOK, NEW d \in Node, NEW name
  PROVE  /\ SubFolder(d, name) \in Folder \cup {NULL}
         /\ SubFolder(d, name) # NULL =>
              /\ SubFolder(d, name) \in folders[d].sub_folders
              /\ folders[SubFolder(d, name)].name = name
         /\ \A e \in folders[d].sub_folders : folders[e].name = name => SubFolder(d, name) # NULL
<1>1. folders[d].sub_folders \subseteq Folder
  BY DEF TypeOK
<1>2. CASE \E e \in folders[d].sub_folders : folders[e].name = name
  BY <1>1, <1>2, EntryStoreAssumption DEF SubFolder
<1>3. CASE ~ \E e \in folders[d].sub_folders : folders[e].name = name
  BY <1>3 DEF SubFolder
<1>4. QED
  BY <1>2, <1>3

LEMMA SubFileFinds ==
  ASSUME TypeOK, NEW d \in Node, NEW name
  PROVE  /\ SubFile(d, name) \in File \cup {NULL}
         /\ SubFile(d, name) # NULL =>
              /\ SubFile(d, name) \in folders[d].sub_files
              /\ files[SubFile(d, name)].name = name
         /\ \A f \in folders[d].sub_files : files[f].name = name => SubFile(d, name) # NULL
<1>1. folders[d].sub_files \subseteq File
  BY DEF TypeOK
<1>2. CASE \E f \in folders[d].sub_files : files[f].name = name
  BY <1>1, <1>2, EntryStoreAssumption DEF SubFile
<1>3. CASE ~ \E f \in folders[d].sub_files : files[f].name = name
  BY <1>3 DEF SubFile
<1>4. QED
  BY <1>2, <1>3

\* The walk is what its recursive definition says.
LEMMA WalkSteps ==
  ASSUME TypeOK, NEW start \in Node, NEW names, Len(names) \in Nat
  PROVE  /\ Walk(start, names) \in [0 .. Len(names) -> NullableNode]
         /\ Walk(start, names)[0] = start
         /\ \A i \in 1 .. Len(names) :
              Walk(start, names)[i] =
                IF Walk(start, names)[i - 1] = NULL THEN NULL
                ELSE SubFolder(Walk(start, names)[i - 1], names[i])
<1> DEFINE n == Len(names)
           Next1(d, i) == IF d = NULL THEN NULL ELSE SubFolder(d, names[i])
           step == [i \in 1 .. n |-> [d \in NullableNode |-> Next1(d, i)]]
           Def(at) == at = [i \in 0 .. n |-> IF i = 0 THEN start ELSE Next1(at[i - 1], i)]
<1>1. ASSUME NEW d \in NullableNode, NEW i \in 1 .. n PROVE Next1(d, i) \in NullableNode
  <2>1. CASE d = NULL
    BY <2>1 DEF NullableNode
  <2>2. CASE d # NULL
    <3>1. d \in Node
      BY <2>2 DEF NullableNode
    <3>2. SubFolder(d, names[i]) \in Folder \cup {NULL}
      BY <3>1, SubFolderFinds
    <3>3. QED
      BY <2>2, <3>2 DEF NullableNode, Node
  <2>3. QED
    BY <2>1, <2>2
<1>2. start \in NullableNode
  BY DEF NullableNode
<1>3. PICK f \in [0 .. n -> NullableNode] :
        f[0] = start /\ \A i \in 1 .. n : f[i] = Next1(f[i - 1], i)
  <2> HIDE DEF Next1
  <2>1. step \in [1 .. n -> [NullableNode -> NullableNode]]
    BY <1>1
  <2>2. ASSUME NEW f \in [0 .. n -> NullableNode], NEW i \in 1 .. n
        PROVE  step[i][f[i - 1]] = Next1(f[i - 1], i)
    <3>1. f[i - 1] \in NullableNode
      OBVIOUS
    <3>2. QED
      BY <3>1
  <2> HIDE DEF step
  <2>3. \E f \in [0 .. n -> NullableNode] :
          f[0] = start /\ \A i \in 1 .. n : f[i] = step[i][f[i - 1]]
    <3>1. n \in Nat
      OBVIOUS
    <3> HIDE DEF n
    <3>2. QED
      BY ONLY <1>2, <2>1, <3>1, Recursion
  <2>4. QED
    BY <2>2, <2>3
<1>4. Def(f)
  <2> HIDE DEF Next1
  <2>1. \A i \in 0 .. n : i # 0 => i \in 1 .. n
    OBVIOUS
  <2>2. QED
    BY <1>3, <2>1
<1>5. Walk(start, names) = CHOOSE at : Def(at)
  BY DEF Walk
<1>6. Def(Walk(start, names))
  <2> HIDE DEF Def
  <2>1. QED
    BY <1>4, <1>5
<1> DEFINE w == Walk(start, names)
<1>7. w[0] = start /\ \A i \in 1 .. n : w[i] = Next1(w[i - 1], i)
  <2> HIDE DEF Next1, w
  <2>1. Def(w)
    BY <1>6 DEF w
  <2>2. QED
    BY <2>1
<1>8. w \in [0 .. n -> NullableNode]
  <2> DEFINE T == {i \in 0 .. n : w[i] \in NullableNode}
  <2>1. 0 \in T
    BY <1>2, <1>7
  <2>2. ASSUME NEW i \in 0 .. n - 1, i \in T PROVE i + 1 \in T
    <3>1. i + 1 \in 1 .. n /\ i + 1 - 1 = i /\ w[i] \in NullableNode
      BY <2>2
    <3> HIDE DEF Next1, w
    <3>2. w[i + 1] = Next1(w[i], i + 1)
      BY <1>7, <3>1
    <3>3. QED
      BY <1>1, <3>1, <3>2
  <2> HIDE DEF T
  <2>3. \A i \in 0 .. n : i \in T
    BY <2>1, <2>2, UpTo
  <2>4. \A i \in 0 .. n : w[i] \in NullableNode
    BY <2>3 DEF T
  <2> HIDE DEF w, Next1
  <2>5. Def(w)
    BY <1>6 DEF w
  <2>6. QED
    BY <2>4, <2>5
<1>9. QED
  BY <1>7, <1>8

-----------------------------------------------------------------------------
(* From a folder to its path *)

\* s climbs from d: from every folder to its parent, until the root or NULL is next
\* or it has gone up limit times.
ClimbTo(limit, d, s) ==
  /\ s \in Seq(Node) /\ Len(s) \in 1 .. limit + 1 /\ s[1] = d
  /\ \A i \in 1 .. Len(s) - 1 : s[i + 1] \in Folder /\ s[i + 1] = folders[s[i]].parent_folder
  /\ Len(s) <= limit => folders[s[Len(s)]].parent_folder \in {ROOT, NULL}

Climb(d, s) == ClimbTo(MAX_PATH_NODES_AMOUNT, d, s)

\* What get_parent_folders does with the folders it has so far.
Climbed(s) ==
  IF folders[Last(s)].parent_folder \in {ROOT, NULL} THEN s
  ELSE Append(s, folders[Last(s)].parent_folder)

LEMMA ClimbsOn ==
  ASSUME TypeOK, NEW limit \in Nat, NEW d, NEW s, ClimbTo(limit, d, s)
  PROVE  ClimbTo(limit + 1, d, Climbed(s))
<1> DEFINE n == Len(s)
           p == folders[s[n]].parent_folder
<1>1. /\ s \in Seq(Node) /\ n \in Nat \ {0} /\ n <= limit + 1 /\ s[1] = d
      /\ \A i \in 1 .. n - 1 : s[i + 1] \in Folder /\ s[i + 1] = folders[s[i]].parent_folder
      /\ n <= limit => p \in {ROOT, NULL}
  BY DEF ClimbTo
<1>2. s[n] \in Node /\ Last(s) = s[n]
  BY <1>1 DEF Last
<1>3. p \in NullableNode
  BY <1>2 DEF TypeOK
<1>4. CASE p \in {ROOT, NULL}
  <2>1. Climbed(s) = s
    BY <1>2, <1>4 DEF Climbed
  <2>2. QED
    BY <1>1, <1>4, <2>1 DEF ClimbTo
<1>5. CASE p \notin {ROOT, NULL}
  <2>1. p \in Folder /\ p \in Node
    BY <1>3, <1>5 DEF NullableNode, Node
  <2>2. Climbed(s) = Append(s, p)
    BY <1>2, <1>5 DEF Climbed
  <2> DEFINE t == Append(s, p)
  <2>3. t \in Seq(Node) /\ Len(t) = n + 1 /\ t[n + 1] = p /\ \A i \in 1 .. n : t[i] = s[i]
    BY <1>1, <2>1
  <2>4. n = limit + 1
    BY <1>1, <1>5
  <2> HIDE DEF t, n
  <2>5. ASSUME NEW i \in 1 .. Len(t) - 1
        PROVE  t[i + 1] \in Folder /\ t[i + 1] = folders[t[i]].parent_folder
    <3>1. CASE i = n
      <4>1. t[i] = s[n] /\ t[i + 1] = p
        BY <1>1, <2>3, <3>1
      <4>2. QED
        BY <2>1, <4>1 DEF n
    <3>2. CASE i \in 1 .. n - 1
      <4>1. t[i] = s[i] /\ t[i + 1] = s[i + 1]
        BY <1>1, <2>3, <3>2
      <4>2. QED
        BY <1>1, <3>2, <4>1
    <3>3. QED
      BY <1>1, <2>3, <3>1, <3>2
  <2>6. t[1] = d
    BY <1>1, <2>3
  <2>7. QED
    BY <1>1, <2>2, <2>3, <2>4, <2>5, <2>6 DEF ClimbTo, t
<1>6. QED
  BY <1>4, <1>5

\* get_parent_folders climbs.
LEMMA ParentFoldersClimb ==
  ASSUME TypeOK, NEW d \in Node
  PROVE  /\ Climb(d, <<d>> \o ParentFolders(d))
         /\ ParentFolders(d) \in Seq(Node)
         /\ Len(<<d>> \o ParentFolders(d)) = Len(ParentFolders(d)) + 1
<1> DEFINE n == MAX_PATH_NODES_AMOUNT
           S == Seq(Node) \ {<<>>}
           step == [i \in 1 .. n |-> [s \in S |-> Climbed(s)]]
           Def(up) == up = [i \in 0 .. n |-> IF i = 0 THEN <<d>> ELSE Climbed(up[i - 1])]
<1>1. n \in Nat
  BY EntryStoreAssumption
<1>2. ASSUME NEW s \in S PROVE Climbed(s) \in S
  <2>1. Last(s) \in Node
    BY DEF Last
  <2>2. folders[Last(s)].parent_folder \in NullableNode
    BY <2>1 DEF TypeOK
  <2>3. CASE folders[Last(s)].parent_folder \in {ROOT, NULL}
    BY <2>3 DEF Climbed
  <2>4. CASE folders[Last(s)].parent_folder \notin {ROOT, NULL}
    <3>1. folders[Last(s)].parent_folder \in Node
      BY <2>2, <2>4 DEF NullableNode
    <3>2. /\ Append(s, folders[Last(s)].parent_folder) \in Seq(Node)
          /\ Append(s, folders[Last(s)].parent_folder) # <<>>
      BY <3>1
    <3>3. QED
      BY <2>4, <3>2 DEF Climbed
  <2>5. QED
    BY <2>3, <2>4
<1>3. <<d>> \in S
  OBVIOUS
<1>4. PICK f \in [0 .. n -> S] : f[0] = <<d>> /\ \A i \in 1 .. n : f[i] = Climbed(f[i - 1])
  <2>1. step \in [1 .. n -> [S -> S]]
    <3> HIDE DEF S
    <3> QED
      BY <1>2
  <2> HIDE DEF S
  <2>2. ASSUME NEW f \in [0 .. n -> S], NEW i \in 1 .. n
        PROVE  step[i][f[i - 1]] = Climbed(f[i - 1])
    <3>1. f[i - 1] \in S
      BY <1>1
    <3>2. QED
      BY <3>1
  <2> HIDE DEF step, n
  <2>3. \E f \in [0 .. n -> S] :
          f[0] = <<d>> /\ \A i \in 1 .. n : f[i] = step[i][f[i - 1]]
    BY ONLY <1>1, <1>3, <2>1, Recursion
  <2>4. QED
    BY <2>2, <2>3
<1>5. Def(f)
  <2> HIDE DEF S, n
  <2>1. \A i \in 0 .. n : i # 0 => i \in 1 .. n
    BY <1>1
  <2>2. QED
    BY <1>4, <2>1
<1> DEFINE up == CHOOSE up : Def(up)
<1>6. Def(up)
  <2> HIDE DEF Def
  <2> QED
    BY <1>5
<1> HIDE DEF up
<1>7. up[0] = <<d>> /\ \A i \in 1 .. n : up[i] = Climbed(up[i - 1])
  <2> HIDE DEF n
  <2>1. \A i \in 1 .. n : i \in 0 .. n /\ i # 0
    BY <1>1
  <2>2. 0 \in 0 .. n
    BY <1>1
  <2>3. QED
    BY <1>6, <2>1, <2>2
<1>8. ParentFolders(d) = Tail(up[n])
  BY DEF ParentFolders, Climbed, up
<1>9. ClimbTo(n, d, up[n])
  <2> DEFINE T == {i \in 0 .. n : ClimbTo(i, d, up[i])}
  <2>1. 0 \in T
    <3>1. <<d>> \in Seq(Node) /\ Len(<<d>>) = 1 /\ <<d>>[1] = d
      OBVIOUS
    <3>2. ClimbTo(0, d, <<d>>)
      BY <3>1 DEF ClimbTo
    <3>3. ClimbTo(0, d, up[0]) /\ 0 \in 0 .. n
      BY <1>1, <1>7, <3>2
    <3> HIDE DEF n
    <3>4. QED
      BY <3>3
  <2>2. ASSUME NEW i \in 0 .. n - 1, i \in T PROVE i + 1 \in T
    <3>1. i \in Nat /\ i + 1 \in 1 .. n /\ i + 1 - 1 = i /\ i + 1 \in 0 .. n
      BY <1>1
    <3>2. ClimbTo(i, d, up[i])
      BY <2>2
    <3>3. ClimbTo(i + 1, d, Climbed(up[i]))
      BY <3>1, <3>2, ClimbsOn
    <3>4. QED
      BY <1>7, <3>1, <3>3
  <2> HIDE DEF T, n
  <2>3. \A i \in 0 .. n : i \in T
    BY <1>1, <2>1, <2>2, UpTo
  <2>4. n \in T
    BY <1>1, <2>3
  <2>5. QED
    BY <2>4 DEF T
<1>10. up[n] \in Seq(Node) /\ up[n] # <<>> /\ up[n][1] = d
  BY <1>9 DEF ClimbTo
<1>11. <<d>> \o Tail(up[n]) = up[n] /\ Tail(up[n]) \in Seq(Node)
  <2> HIDE DEF up, n
  <2>1. ASSUME NEW s \in Seq(Node), s # <<>>, s[1] = d
        PROVE  <<d>> \o Tail(s) = s /\ Tail(s) \in Seq(Node)
    BY <2>1
  <2>2. QED
    BY <1>10, <2>1
<1>12. QED
  <2>1. Len(<<d>> \o ParentFolders(d)) = Len(ParentFolders(d)) + 1
    BY <1>8, <1>11
  <2>2. QED
    BY <1>8, <1>9, <1>11, <2>1 DEF Climb

\* There is one climb from a folder.
LEMMA ShorterClimbIsSame ==
  ASSUME NEW d, NEW s, NEW t, Climb(d, s), Climb(d, t), Len(s) <= Len(t)
  PROVE  s = t
<1> DEFINE n == Len(s)
<1>1. /\ s \in Seq(Node) /\ t \in Seq(Node) /\ n \in Nat \ {0} /\ Len(t) \in Nat /\ n <= Len(t)
      /\ Len(t) <= MAX_PATH_NODES_AMOUNT + 1 /\ s[1] = d /\ t[1] = d
      /\ \A i \in 1 .. n - 1 : s[i + 1] = folders[s[i]].parent_folder
      /\ \A i \in 1 .. Len(t) - 1 : t[i + 1] \in Folder /\ t[i + 1] = folders[t[i]].parent_folder
      /\ n <= MAX_PATH_NODES_AMOUNT => folders[s[n]].parent_folder \in {ROOT, NULL}
  BY DEF Climb, ClimbTo
<1>2. \A i \in 1 .. n : s[i] = t[i]
  <2> DEFINE T == {i \in 0 .. n - 1 : s[i + 1] = t[i + 1]}
  <2>1. 0 \in T
    BY <1>1
  <2>2. ASSUME NEW i \in 0 .. n - 1 - 1, i \in T PROVE i + 1 \in T
    <3>1. i + 1 \in 1 .. n - 1 /\ i + 1 \in 1 .. Len(t) - 1 /\ i + 1 \in 0 .. n - 1
      BY <1>1
    <3>2. s[i + 1] = t[i + 1]
      BY <2>2
    <3>3. s[i + 1 + 1] = t[i + 1 + 1]
      BY <1>1, <3>1, <3>2
    <3>4. QED
      BY <3>1, <3>3
  <2> HIDE DEF T
  <2>3. \A i \in 0 .. n - 1 : i \in T
    <3>1. n - 1 \in Nat
      BY <1>1
    <3> HIDE DEF n
    <3>2. QED
      BY <2>1, <2>2, <3>1, UpTo
  <2>4. ASSUME NEW i \in 1 .. n PROVE s[i] = t[i]
    <3>1. i - 1 \in 0 .. n - 1 /\ i - 1 + 1 = i
      BY <1>1
    <3>2. i - 1 \in T
      BY <2>3, <3>1
    <3>3. QED
      BY <3>1, <3>2 DEF T
  <2>5. QED
    BY <2>4
<1>3. n = Len(t)
  <2> SUFFICES ASSUME n # Len(t) PROVE FALSE
    OBVIOUS
  <2>1. n \in 1 .. Len(t) - 1 /\ n <= MAX_PATH_NODES_AMOUNT /\ n \in 1 .. n
    BY <1>1, EntryStoreAssumption
  <2>2. t[n + 1] \in Folder /\ t[n + 1] = folders[s[n]].parent_folder
    BY <1>1, <1>2, <2>1
  <2>3. QED
    BY <1>1, <2>1, <2>2, EntryStoreAssumption
<1>4. QED
  BY <1>1, <1>2, <1>3, SeqEqual

LEMMA ClimbUnique ==
  ASSUME NEW d, NEW s, NEW t, Climb(d, s), Climb(d, t)
  PROVE  s = t
<1>1. Len(s) \in Nat /\ Len(t) \in Nat
  BY DEF Climb, ClimbTo
<1>2. Len(s) <= Len(t) \/ Len(t) <= Len(s)
  BY <1>1
<1>3. QED
  BY <1>2, ShorterClimbIsSame

\* A climb in the tree stays in the tree.
LEMMA ClimbInTree ==
  ASSUME TreeInv, NEW d \in EstablishedFolders, d # ROOT, NEW s, Climb(d, s)
  PROVE  /\ \A i \in 1 .. Len(s) : s[i] \in EstablishedFolders /\ s[i] \in Folder
         /\ Len(s) <= MAX_PATH_NODES_AMOUNT => folders[s[Len(s)]].parent_folder = ROOT
<1> DEFINE n == Len(s)
<1>1. /\ s \in Seq(Node) /\ n \in Nat \ {0} /\ s[1] = d
      /\ \A i \in 1 .. n - 1 : s[i + 1] \in Folder /\ s[i + 1] = folders[s[i]].parent_folder
      /\ n <= MAX_PATH_NODES_AMOUNT => folders[s[n]].parent_folder \in {ROOT, NULL}
  BY DEF Climb, ClimbTo
<1>2. d \in Folder
  BY DEF EstablishedFolders, Node
<1> DEFINE T == {i \in 0 .. n - 1 : s[i + 1] \in EstablishedFolders /\ s[i + 1] \in Folder}
<1>3. 0 \in T
  BY <1>1, <1>2
<1>4. ASSUME NEW i \in 0 .. n - 1 - 1, i \in T PROVE i + 1 \in T
  <2>1. i + 1 \in 1 .. n - 1 /\ i + 1 \in 0 .. n - 1
    BY <1>1
  <2>2. s[i + 1] \in EstablishedFolders /\ s[i + 1] \in Folder
    BY <1>4
  <2>3. s[i + 1 + 1] \in Folder /\ s[i + 1 + 1] = folders[s[i + 1]].parent_folder
    BY <1>1, <2>1
  <2>4. Established(s[i + 1 + 1]) /\ s[i + 1 + 1] \in Node
    <3>1. s[i + 1] # ROOT
      BY <2>2, EntryStoreAssumption
    <3>2. QED
      BY <2>2, <2>3, <3>1, ParentOf
  <2>5. QED
    BY <2>1, <2>3, <2>4 DEF EstablishedFolders
<1>5. \A i \in 0 .. n - 1 : i \in T
  <2> HIDE DEF T
  <2>1. n - 1 \in Nat
    BY <1>1
  <2> HIDE DEF n
  <2>2. QED
    BY <1>3, <1>4, <2>1, UpTo
<1>6. ASSUME NEW i \in 1 .. n PROVE s[i] \in EstablishedFolders /\ s[i] \in Folder
  <2>1. i - 1 \in 0 .. n - 1 /\ i - 1 + 1 = i
    BY <1>1
  <2>2. QED
    BY <1>5, <2>1
<1>7. n <= MAX_PATH_NODES_AMOUNT => folders[s[n]].parent_folder = ROOT
  <2>1. s[n] \in EstablishedFolders /\ s[n] # ROOT
    BY <1>1, <1>6, EntryStoreAssumption
  <2>2. folders[s[n]].parent_folder \in Node
    BY <2>1, ParentOf
  <2>3. QED
    BY <1>1, <2>2, EntryStoreAssumption DEF Node
<1>8. QED
  BY <1>6, <1>7

\* The climb from a folder is one step, and then the climb from its parent.
LEMMA ClimbOfChild ==
  ASSUME TreeInv, NEW e \in EstablishedFolders, e # ROOT, folders[e].parent_folder # ROOT,
         NEW s, Climb(e, s)
  PROVE  /\ Len(s) >= 2 /\ s[2] = folders[e].parent_folder
         /\ Len(s) <= MAX_PATH_NODES_AMOUNT =>
              Climb(s[2], Tail(s)) /\ Len(Tail(s)) = Len(s) - 1
<1> DEFINE n == Len(s)
           t == Tail(s)
<1>1. /\ s \in Seq(Node) /\ n \in Nat \ {0} /\ s[1] = e
      /\ \A i \in 1 .. n - 1 : s[i + 1] \in Folder /\ s[i + 1] = folders[s[i]].parent_folder
      /\ n <= MAX_PATH_NODES_AMOUNT => folders[s[n]].parent_folder \in {ROOT, NULL}
      /\ MAX_PATH_NODES_AMOUNT \in Nat \ {0}
  BY EntryStoreAssumption DEF Climb, ClimbTo
<1>2. folders[e].parent_folder \notin {ROOT, NULL}
  BY ParentOf, EntryStoreAssumption DEF Node
<1>3. n >= 2
  BY <1>1, <1>2
<1>4. s[2] = folders[e].parent_folder
  <2>1. 1 \in 1 .. n - 1 /\ 1 + 1 = 2
    BY <1>1, <1>3
  <2>2. QED
    BY <1>1, <2>1
<1>5. /\ t \in Seq(Node) /\ Len(t) = n - 1
      /\ \A i \in 1 .. n - 1 : t[i] = s[i + 1]
  BY <1>1, <1>3
<1>6. ASSUME n <= MAX_PATH_NODES_AMOUNT PROVE Climb(s[2], t)
  <2> HIDE DEF n, t
  <2>1. ASSUME NEW i \in 1 .. Len(t) - 1
        PROVE  t[i + 1] \in Folder /\ t[i + 1] = folders[t[i]].parent_folder
    <3>1. i \in 1 .. n - 1 /\ i + 1 \in 1 .. n - 1
      BY <1>1, <1>5
    <3>2. t[i] = s[i + 1] /\ t[i + 1] = s[i + 1 + 1]
      BY <1>5, <3>1
    <3>3. QED
      BY <1>1, <3>1, <3>2
  <2>2. t[1] = s[2] /\ t[Len(t)] = s[n]
    <3>1. 1 \in 1 .. n - 1 /\ 1 + 1 = 2 /\ n - 1 \in 1 .. n - 1 /\ n - 1 + 1 = n
      BY <1>1, <1>3
    <3>2. QED
      BY <1>5, <3>1
  <2>3. Len(t) \in 1 .. MAX_PATH_NODES_AMOUNT + 1
    BY <1>1, <1>3, <1>5, <1>6
  <2>4. QED
    BY <1>1, <1>5, <1>6, <2>1, <2>2, <2>3 DEF Climb, ClimbTo
<1>7. QED
  BY <1>3, <1>4, <1>5, <1>6

LEMMA ChildClimbs ==
  ASSUME NEW e \in Node, NEW d \in Folder, folders[e].parent_folder = d,
         NEW s, Climb(d, s), Len(s) <= MAX_PATH_NODES_AMOUNT
  PROVE  Climb(e, <<e>> \o s) /\ Len(<<e>> \o s) = Len(s) + 1
<1> DEFINE n == Len(s)
           t == <<e>> \o s
<1>1. /\ s \in Seq(Node) /\ n \in Nat \ {0} /\ s[1] = d
      /\ \A i \in 1 .. n - 1 : s[i + 1] \in Folder /\ s[i + 1] = folders[s[i]].parent_folder
      /\ folders[s[n]].parent_folder \in {ROOT, NULL}
      /\ n <= MAX_PATH_NODES_AMOUNT /\ MAX_PATH_NODES_AMOUNT \in Nat
  BY EntryStoreAssumption DEF Climb, ClimbTo
<1>2. /\ t \in Seq(Node) /\ Len(t) = n + 1 /\ t[1] = e
      /\ \A i \in 1 .. n : t[i + 1] = s[i]
  BY <1>1
<1> HIDE DEF n, t
<1>3. ASSUME NEW i \in 1 .. Len(t) - 1
      PROVE  t[i + 1] \in Folder /\ t[i + 1] = folders[t[i]].parent_folder
  <2>1. i \in 1 .. n
    BY <1>1, <1>2
  <2>2. CASE i = 1
    <3>1. t[i + 1] = d /\ t[i] = e
      BY <1>1, <1>2, <2>1, <2>2
    <3>2. QED
      BY <3>1
  <2>3. CASE i # 1
    <3>1. i - 1 \in 1 .. n - 1 /\ i - 1 \in 1 .. n /\ i - 1 + 1 = i
      BY <1>1, <2>1, <2>3
    <3>2. t[i + 1] = s[i] /\ t[i] = s[i - 1]
      BY <1>2, <2>1, <3>1
    <3>3. QED
      BY <1>1, <3>1, <3>2
  <2>4. QED
    BY <2>2, <2>3
<1>4. t[Len(t)] = s[n] /\ Len(t) \in 1 .. MAX_PATH_NODES_AMOUNT + 1
  BY <1>1, <1>2
<1>5. Climb(e, t)
  BY <1>1, <1>2, <1>3, <1>4 DEF Climb, ClimbTo
<1>6. QED
  BY <1>2, <1>5 DEF n, t

-----------------------------------------------------------------------------
(* What paths lead to *)

LEMMA PathNames ==
  ASSUME NEW path \in Path
  PROVE  path.names \in Seq(Name)
<1>1. ASSUME NEW m \in Nat, NEW names \in [1 .. m -> Name] PROVE names \in Seq(Name)
  OBVIOUS
<1>2. MAX_PATH_NODES_AMOUNT + 1 \in Nat /\ ROOT_NAME \in Name
  BY EntryStoreAssumption
<1>3. TooLongNames \in Seq(Name)
  <2>1. TooLongNames \in [1 .. MAX_PATH_NODES_AMOUNT + 1 -> Name]
    BY <1>2 DEF TooLongNames
  <2>2. QED
    BY <1>1, <1>2, <2>1
<1>4. ASSUME NEW names \in BoundedSeq(Name, MAX_PATH_NODES_AMOUNT) PROVE names \in Seq(Name)
  <2>1. PICK m \in 0 .. MAX_PATH_NODES_AMOUNT : names \in [1 .. m -> Name]
    BY DEF BoundedSeq, SeqOf
  <2>2. m \in Nat
    BY EntryStoreAssumption
  <2>3. QED
    BY <1>1, <2>1, <2>2
<1>5. path.names \in BoundedSeq(Name, MAX_PATH_NODES_AMOUNT) \cup {TooLongNames}
  BY DEF Path
<1>6. QED
  BY <1>3, <1>4, <1>5

\* Whatever lies in a folder is an established entry.
LEMMA ListedEstablished ==
  ASSUME TreeInv, NEW d \in Node
  PROVE  folders[d].sub_folders \subseteq EstablishedFolders
         /\ folders[d].sub_files \subseteq EstablishedFiles
BY DEF TreeInv, TypeOK, BothEndsAgree, FolderLinksAgree, FileLinksAgree, EstablishedFolders,
       EstablishedFiles, Established, Node

\* A path from any folder, also from one that is not in the tree, leads to an entry of
\* the tree or to nothing.
LEMMA ResolveFromEstablished ==
  ASSUME TreeInv, NEW start \in Node, NEW names \in Seq(Name), names # <<>>
  PROVE  ResolveFrom(start, names) \in EstablishedFiles \cup EstablishedFolders \cup {NULL}
<1> DEFINE parent == Walk(start, names)[Len(names) - 1]
<1>1. Len(names) \in Nat /\ Len(names) - 1 \in 0 .. Len(names) /\ TypeOK
  BY DEF TreeInv
<1>2. parent \in NullableNode
  <2>1. Walk(start, names) \in [0 .. Len(names) -> NullableNode]
    BY <1>1, WalkSteps
  <2>2. QED
    BY <1>1, <2>1
<1>3. CASE parent = NULL
  BY <1>3 DEF ResolveFrom
<1>4. CASE parent # NULL
  <2>1. parent \in Node
    BY <1>2, <1>4 DEF NullableNode
  <2> DEFINE name == Last(names)
  <2>2. VFSNode(parent, name) \in folders[parent].sub_files \cup folders[parent].sub_folders
                                    \cup {NULL}
    <3> HIDE DEF parent, name
    <3>1. QED
      BY <1>1, <2>1, SubFileFinds, SubFolderFinds DEF VFSNode
  <2>3. VFSNode(parent, name) \in EstablishedFiles \cup EstablishedFolders \cup {NULL}
    <3> HIDE DEF parent, name
    <3>1. QED
      BY <2>1, <2>2, ListedEstablished
  <2>4. QED
    BY <2>3 DEF ResolveFrom
<1>5. QED
  BY <1>3, <1>4

\* So what the user names is in the tree, wherever the current folder is.
LEMMA ResolvedEstablished ==
  ASSUME TreeInv, cur_folder \in Node
  PROVE  /\ ResolvedFiles \subseteq EstablishedFiles
         /\ ResolvedFolders \subseteq EstablishedFolders
<1>1. ASSUME NEW path \in Path
      PROVE  Resolve(path) \in EstablishedFiles \cup EstablishedFolders \cup {NULL}
  <2>1. path.names \in Seq(Name)
    BY PathNames
  <2>2. CASE path.names = <<>>
    BY <2>2 DEF Resolve, EstablishedFolders, Established, Node
  <2>3. CASE path.names # <<>>
    <3>1. PICK start \in Node : start = IF path.absolute THEN ROOT ELSE cur_folder
      BY DEF Node
    <3>2. ResolveFrom(start, path.names) \in EstablishedFiles \cup EstablishedFolders \cup {NULL}
      BY <2>1, <2>3, ResolveFromEstablished
    <3>3. Resolve(path) = ResolveFrom(start, path.names)
      BY <2>3, <3>1 DEF Resolve
    <3>4. QED
      BY <3>2, <3>3
  <2>4. QED
    BY <2>2, <2>3
<1>2. EstablishedFolders \subseteq Node /\ EstablishedFiles \subseteq File
  BY DEF EstablishedFolders, EstablishedFiles
<1>3. Node \cap File = {} /\ NULL \notin Node /\ NULL \notin File
  BY EntryStoreAssumption DEF Node
<1>4. QED
  BY <1>1, <1>2, <1>3 DEF ResolvedFiles, ResolvedFolders, Resolved

-----------------------------------------------------------------------------
(* The path of a folder *)

ClimbOf(d) == <<d>> \o ParentFolders(d)

\* A path is the names along the climb, in the other order.
LEMMA NodePathIs ==
  ASSUME TypeOK, NEW d \in Node, d # ROOT
  PROVE  /\ Climb(d, ClimbOf(d)) /\ Len(ClimbOf(d)) \in Nat \ {0}
         /\ PathTooLong(d) <=> Len(ClimbOf(d)) > MAX_PATH_NODES_AMOUNT
         /\ DOMAIN NodePath(d) = 1 .. Len(ClimbOf(d)) /\ Len(NodePath(d)) = Len(ClimbOf(d))
         /\ \A i \in 1 .. Len(ClimbOf(d)) :
              NodePath(d)[i] = folders[ClimbOf(d)[Len(ClimbOf(d)) - i + 1]].name
<1>1. /\ Climb(d, ClimbOf(d)) /\ ParentFolders(d) \in Seq(Node)
      /\ Len(ClimbOf(d)) = Len(ParentFolders(d)) + 1
  BY ParentFoldersClimb DEF ClimbOf
<1>2. Len(ParentFolders(d)) \in Nat /\ MAX_PATH_NODES_AMOUNT \in Nat
  BY <1>1, EntryStoreAssumption
<1> DEFINE n == Len(ClimbOf(d))
<1>3. NodePath(d) = [i \in 1 .. n |-> folders[Reverse(ClimbOf(d))[i]].name]
  BY <1>1 DEF NodePath, ClimbOf
<1>4. Reverse(ClimbOf(d)) = [i \in 1 .. n |-> ClimbOf(d)[n - i + 1]]
  BY DEF Reverse
<1>5. n \in Nat \ {0}
  BY <1>1, <1>2
<1>6. DOMAIN NodePath(d) = 1 .. n /\ Len(NodePath(d)) = n
  <2> HIDE DEF n
  <2> QED
    BY <1>3, <1>5
<1>7. \A i \in 1 .. n : NodePath(d)[i] = folders[ClimbOf(d)[n - i + 1]].name
  <2> HIDE DEF n
  <2> QED
    BY <1>3, <1>4
<1>8. PathTooLong(d) <=> n > MAX_PATH_NODES_AMOUNT
  BY <1>1, <1>2 DEF PathTooLong
<1>9. QED
  BY <1>1, <1>5, <1>6, <1>7, <1>8

-----------------------------------------------------------------------------
(* The inductive invariant of the workspace *)

\* Folders of the tree have names users gave; a folder that was freed has no parent,
\* so that a removed current folder cannot be left upwards.
Tidy ==
  \A d \in Node :
    IF Established(d) THEN folders[d].name \in Name ELSE folders[d].parent_folder = NULL

WsInv ==
  /\ SafeInv /\ Tidy
  /\ cur_folder \in Node
  /\ cur_path \in Seq(Name) /\ Len(cur_path) <= MAX_PATH_NODES_AMOUNT
  /\ crashed \in BOOLEAN

\* A folder that is entered has a path that fits.
LEMMA PathFits ==
  ASSUME TreeInv, Tidy, NEW d \in EstablishedFolders, d = ROOT \/ ~PathTooLong(d)
  PROVE  NodePath(d) \in Seq(Name) /\ Len(NodePath(d)) <= MAX_PATH_NODES_AMOUNT
<1>1. CASE d = ROOT
  BY <1>1, EntryStoreAssumption DEF NodePath
<1>2. CASE d # ROOT
  <2> DEFINE s == ClimbOf(d)
             n == Len(s)
  <2>1. d \in Node /\ TypeOK
    BY DEF EstablishedFolders, TreeInv
  <2>2. /\ Climb(d, s) /\ n \in Nat \ {0} /\ (PathTooLong(d) <=> n > MAX_PATH_NODES_AMOUNT)
        /\ DOMAIN NodePath(d) = 1 .. n /\ Len(NodePath(d)) = n
        /\ \A i \in 1 .. n : NodePath(d)[i] = folders[s[n - i + 1]].name
    BY <1>2, <2>1, NodePathIs
  <2> HIDE DEF s
  <2>3. \A i \in 1 .. n : s[i] \in EstablishedFolders
    BY <1>2, <2>2, ClimbInTree
  <2>4. ASSUME NEW i \in 1 .. n PROVE NodePath(d)[i] \in Name
    <3>1. n - i + 1 \in 1 .. n
      BY <2>2
    <3>2. s[n - i + 1] \in EstablishedFolders
      BY <2>3, <3>1
    <3>3. QED
      BY <2>2, <3>2 DEF Tidy, EstablishedFolders
  <2>5. n <= MAX_PATH_NODES_AMOUNT
    BY <1>2, <2>2, EntryStoreAssumption
  <2>6. NodePath(d) \in Seq(Name)
    <3> HIDE DEF n
    <3>1. NodePath(d) = [i \in 1 .. n |-> NodePath(d)[i]]
      <4>1. NodePath(d) = [i \in 1 .. Len(ParentFolders(d)) + 1 |->
                             folders[Reverse(<<d>> \o ParentFolders(d))[i]].name]
        BY <1>2 DEF NodePath
      <4>2. QED
        BY <2>2, <4>1
    <3>2. QED
      BY <2>2, <2>4, <3>1
  <2>7. QED
    BY <2>2, <2>5, <2>6
<1>3. QED
  BY <1>1, <1>2

LEMMA WsInitEstablishes == Init => WsInv
<1> SUFFICES ASSUME Init PROVE WsInv
  OBVIOUS
<1>1. SafeInv
  BY InitEstablishes DEF Init, SafeInv, TreeInit, Defined
<1>2. Tidy
  BY EntryStoreAssumption DEF Init, TreeInit, Tidy, Established, FreeFolder, Node
<1>3. cur_path \in Seq(Name) /\ Len(cur_path) <= MAX_PATH_NODES_AMOUNT
  BY EntryStoreAssumption DEF Init
<1>4. QED
  BY <1>1, <1>2, <1>3 DEF Init, WsInv, Node

-----------------------------------------------------------------------------
(* What the operations do to names and parents *)

\* Every folder gets a name, or loses its parent with its place, or stays as it was.
LEMMA TidyKept ==
  ASSUME Tidy,
         \A d \in Node :
           \/ Established(d)' /\ folders'[d].name \in Name
           \/ ~Established(d)' /\ folders'[d].parent_folder = NULL
           \/ /\ Established(d)' <=> Established(d)
              /\ folders'[d].name = folders[d].name
              /\ folders'[d].parent_folder = folders[d].parent_folder
  PROVE  Tidy'
BY DEF Tidy

LEMMA TidyKeptByFiles ==
  ASSUME Tidy, SameFolders
  PROVE  Tidy'
BY DEF Tidy, SameFolders, Established

LEMMA CreationTidy ==
  ASSUME IInv, Tidy, NEW parent \in Node, NEW name \in Name,
         CreateFile(parent, name) \/ CreateFolder(parent, name)
  PROVE  Tidy'
<1>1. TypeOK
  BY DEF IInv, TreeInv
<1>2. CASE CreateFile(parent, name)
  <2>1. PICK f \in File : folders' = [folders EXCEPT ![parent].sub_files = @ \cup {f}]
    BY <1>2 DEF CreateFile
  <2>2. UNCHANGED folders_allocation_map
    BY <1>2 DEF CreateFile
  <2>3. QED
    BY <1>1, <2>1, <2>2, TidyKept DEF TypeOK, Established
<1>3. CASE CreateFolder(parent, name)
  <2>1. PICK d \in Folder :
          /\ ~folders_allocation_map[d]
          /\ folders_allocation_map' = [folders_allocation_map EXCEPT ![d] = TRUE]
          /\ folders' = [folders EXCEPT
               ![d] = [parent_folder |-> parent, name |-> name,
                       sub_files |-> {}, sub_folders |-> {}],
               ![parent].sub_folders = @ \cup {d}]
    BY <1>3 DEF CreateFolder
  <2>2. d # parent
    BY <1>3, <2>1, EntryStoreAssumption DEF CreateFolder, CanCreateFolder, Established
  <2>3. ASSUME NEW x \in Node
        PROVE  \/ Established(x)' /\ folders'[x].name \in Name
               \/ /\ Established(x)' <=> Established(x)
                  /\ folders'[x].name = folders[x].name
                  /\ folders'[x].parent_folder = folders[x].parent_folder
    <3>1. CASE x = d
      BY <1>1, <2>1, <2>2, <3>1 DEF TypeOK, Established
    <3>2. CASE x # d
      <4>1. Established(x)' <=> Established(x)
        BY <1>1, <2>1, <3>2 DEF TypeOK, Established
      <4>2. /\ folders'[x].name = folders[x].name
            /\ folders'[x].parent_folder = folders[x].parent_folder
        BY <1>1, <2>1, <2>2, <3>2 DEF TypeOK
      <4>3. QED
        BY <4>1, <4>2
    <3>3. QED
      BY <3>1, <3>2
  <2>4. QED
    BY <2>3, TidyKept
<1>4. QED
  BY <1>2, <1>3

LEMMA MoveFolderTidy ==
  ASSUME TreeInv, Tidy, NEW d \in EstablishedFolders, NEW new_parent \in EstablishedFolders,
         MoveFolder(d, new_parent)
  PROVE  Tidy'
<1>1. /\ folders' = [WithoutFolder(d) EXCEPT ![new_parent].sub_folders = @ \cup {d},
                                             ![d].parent_folder = new_parent]
      /\ UNCHANGED folders_allocation_map /\ d # ROOT
  BY AvailableName DEF MoveFolder, CanMoveFolder, TreeInv, RootNamed
<1>2. d \in Folder /\ d \in Node /\ new_parent \in Node /\ folders[d].parent_folder \in Node
  BY <1>1, ParentOf DEF EstablishedFolders
<1>3. /\ WithoutFolder(d) \in [Node -> FolderRecord]
      /\ \A x \in Node :
           /\ WithoutFolder(d)[x].name = folders[x].name
           /\ x # d => WithoutFolder(d)[x].parent_folder = folders[x].parent_folder
  BY <1>2, WithoutFolderIs DEF TreeInv
<1> DEFINE cut == WithoutFolder(d)
<1>4. \A x \in Node : /\ folders'[x].name = cut[x].name
                      /\ x # d => folders'[x].parent_folder = cut[x].parent_folder
  <2>1. folders' = [cut EXCEPT ![new_parent].sub_folders = @ \cup {d},
                               ![d].parent_folder = new_parent]
    BY <1>1
  <2>2. cut \in [Node -> FolderRecord]
    BY <1>3
  <2> HIDE DEF cut
  <2>3. QED
    BY <1>2, <2>1, <2>2 DEF FolderRecord
<1>5. Established(d)
  BY DEF EstablishedFolders
<1>6. ASSUME NEW x \in Node
      PROVE  IF Established(x)' THEN folders'[x].name \in Name
             ELSE folders'[x].parent_folder = NULL
  <2>1. Established(x)' <=> Established(x)
    BY <1>1 DEF Established
  <2>2. IF Established(x) THEN folders[x].name \in Name ELSE folders[x].parent_folder = NULL
    BY DEF Tidy
  <2>3. folders'[x].name = folders[x].name
    BY <1>3, <1>4
  <2>4. x # d => folders'[x].parent_folder = folders[x].parent_folder
    BY <1>3, <1>4
  <2>5. QED
    BY <1>5, <2>1, <2>2, <2>3, <2>4
<1>7. QED
  BY <1>6 DEF Tidy

LEMMA DeleteFlatFolderTidy ==
  ASSUME TreeInv, Tidy, NEW d \in EstablishedFolders, DeleteFlatFolder(d)
  PROVE  Tidy' /\ \A x : Established(x)' => Established(x)
<1>1. /\ folders' = [WithoutFolder(d) EXCEPT ![d].name = NULL] /\ d # ROOT
      /\ folders_allocation_map' = [folders_allocation_map EXCEPT ![d] = FALSE]
  BY DEF DeleteFlatFolder
<1>2. d \in Folder /\ d \in Node /\ folders[d].parent_folder \in Node
  BY <1>1, ParentOf DEF EstablishedFolders
<1> DEFINE p == folders[d].parent_folder
           loose == [folders EXCEPT ![p].sub_folders = @ \ {d}]
           cut == [loose EXCEPT ![d].parent_folder = NULL]
<1>3. /\ loose \in [Node -> FolderRecord]
      /\ \A x \in Node : loose[x].name = folders[x].name
                         /\ loose[x].parent_folder = folders[x].parent_folder
  <2>1. folders \in [Node -> FolderRecord] /\ p \in Node
    BY <1>2 DEF TreeInv, TypeOK, FolderRecord
  <2> HIDE DEF p
  <2>2. QED
    BY <2>1 DEF FolderRecord
<1>4. WithoutFolder(d) = cut
  BY DEF WithoutFolder
<1> HIDE DEF loose
<1>5. /\ cut \in [Node -> FolderRecord] /\ cut[d].parent_folder = NULL
      /\ \A x \in Node : /\ cut[x].name = loose[x].name
                         /\ x # d => cut[x].parent_folder = loose[x].parent_folder
  BY <1>2, <1>3 DEF FolderRecord, NullableNode
<1> HIDE DEF cut
<1>6. /\ folders'[d].parent_folder = NULL
      /\ \A x \in Node : x # d => /\ folders'[x].name = cut[x].name
                                  /\ folders'[x].parent_folder = cut[x].parent_folder
  BY <1>1, <1>2, <1>4, <1>5 DEF FolderRecord
<1>7. \A x : Established(x)' <=> Established(x) /\ x # d
  BY <1>1, <1>2 DEF TreeInv, TypeOK, Established
<1>8. Tidy'
  BY <1>3, <1>5, <1>6, <1>7, TidyKept
<1>9. QED
  BY <1>7, <1>8

LEMMA MoveFileSameFolders ==
  ASSUME TypeOK, NEW f \in EstablishedFiles, NEW d \in EstablishedFolders, MoveFile(f, d)
  PROVE  SameFolders
<1>1. /\ f \in File /\ folders' = [WithoutFile(f) EXCEPT ![d].sub_files = @ \cup {f}]
      /\ UNCHANGED folders_allocation_map
  BY DEF MoveFile, EstablishedFiles
<1> DEFINE cut == WithoutFile(f)
<1>2. /\ cut \in [Node -> FolderRecord]
      /\ \A x \in Node : /\ cut[x].sub_folders = folders[x].sub_folders
                         /\ cut[x].name = folders[x].name
                         /\ cut[x].parent_folder = folders[x].parent_folder
  BY <1>1, WithoutFileIs
<1>3. folders' = [cut EXCEPT ![d].sub_files = @ \cup {f}]
  BY <1>1
<1> HIDE DEF cut
<1>4. QED
  <2>1. d \in Node
    BY DEF EstablishedFolders
  <2>2. /\ folders' \in [Node -> FolderRecord]
        /\ \A x \in Node : /\ folders'[x].sub_folders = cut[x].sub_folders
                           /\ folders'[x].name = cut[x].name
                           /\ folders'[x].parent_folder = cut[x].parent_folder
    <3>1. cut[d] \in FolderRecord
      BY <1>2, <2>1
    <3>2. [cut[d] EXCEPT !.sub_files = @ \cup {f}] \in FolderRecord
      BY <1>1, <3>1 DEF FolderRecord
    <3>3. folders' = [cut EXCEPT ![d] = [cut[d] EXCEPT !.sub_files = @ \cup {f}]]
      BY <1>3
    <3>4. \A x \in Node : folders'[x] = IF x = d THEN [cut[d] EXCEPT !.sub_files = @ \cup {f}]
                                        ELSE cut[x]
      BY <1>2, <3>3
    <3>5. folders' \in [Node -> FolderRecord]
      BY <1>2, <2>1, <3>2, <3>3
    <3>6. QED
      BY <3>1, <3>4, <3>5 DEF FolderRecord
  <2>3. QED
    BY <1>1, <1>2, <2>2 DEF SameFolders

LEMMA DeleteVfsFileSameFolders ==
  ASSUME TypeOK, NEW f \in EstablishedFiles, DeleteVfsFile(f)
  PROVE  SameFolders
<1>1. f \in File /\ folders' = WithoutFile(f) /\ UNCHANGED folders_allocation_map
  BY DEF DeleteVfsFile, EstablishedFiles
<1>2. QED
  BY <1>1, WithoutFileIs DEF SameFolders

\* What users do to entries they name, and what a removal does: everything but
\* creation.
ChangeNamed ==
  \/ \E f \in EstablishedFiles, name \in Name :
       RenameFile(f, name) \/ RenameFileOverrun(f, name)
  \/ \E d \in EstablishedFolders, name \in Name : RenameFolder(d, name)
  \/ \E f \in EstablishedFiles, d \in EstablishedFolders : MoveFile(f, d)
  \/ \E d, e \in EstablishedFolders : MoveFolder(d, e)
  \/ \E f \in EstablishedFiles : StoreData(f) \/ ClearData(f) \/ RemoveFile(f)
  \/ \E d \in EstablishedFolders : RemoveFolder(d) \/ RemoveTree(d)

\* Only creation takes a slot for a folder.
LEMMA ChangeTidy ==
  ASSUME IInv, Tidy, ChangeNamed \/ RemovalStep
  PROVE  Tidy' /\ \A x : Established(x)' => Established(x)
<1>1. TreeInv /\ TypeOK
  BY DEF IInv, TreeInv
<1>2. ASSUME UNCHANGED <<folders_allocation_map, folders>>
      PROVE  Tidy' /\ \A x : Established(x)' => Established(x)
  BY <1>2 DEF Tidy, Established
<1>3. ASSUME SameFolders
      PROVE  Tidy' /\ \A x : Established(x)' => Established(x)
  <2>1. Tidy'
    BY <1>3, TidyKeptByFiles
  <2>2. \A x : Established(x)' => Established(x)
    BY <1>3 DEF SameFolders, Established
  <2>3. QED
    BY <2>1, <2>2
<1>4. ASSUME NEW f \in EstablishedFiles, DeleteVfsFile(f)
      PROVE  SameFolders
  BY <1>1, <1>4, DeleteVfsFileSameFolders
<1>5. ASSUME NEW f \in EstablishedFiles, NEW name \in Name, RenameFile(f, name)
      PROVE  Tidy' /\ \A x : Established(x)' => Established(x)
  BY <1>2, <1>5 DEF RenameFile
<1>6. ASSUME NEW d \in EstablishedFolders, NEW name \in Name, RenameFolder(d, name)
      PROVE  Tidy' /\ \A x : Established(x)' => Established(x)
  <2>1. /\ folders' = [folders EXCEPT ![d].name = name] /\ d \in Node /\ Established(d)
        /\ UNCHANGED folders_allocation_map
    BY <1>6 DEF RenameFolder, EstablishedFolders
  <2>2. \A x : Established(x)' <=> Established(x)
    BY <2>1 DEF Established
  <2>3. \A x \in Node : /\ x # d => folders'[x].name = folders[x].name
                        /\ x = d => folders'[x].name = name
                        /\ folders'[x].parent_folder = folders[x].parent_folder
    BY <1>1, <2>1 DEF TypeOK
  <2>4. Tidy'
    BY <2>1, <2>2, <2>3, TidyKept
  <2>5. QED
    BY <2>2, <2>4
<1>7. ASSUME NEW f \in EstablishedFiles, NEW d \in EstablishedFolders, MoveFile(f, d)
      PROVE  Tidy' /\ \A x : Established(x)' => Established(x)
  <2>1. SameFolders
    BY <1>1, <1>7, MoveFileSameFolders
  <2>2. QED
    BY <1>3, <2>1
<1>8. ASSUME NEW d \in EstablishedFolders, NEW e \in EstablishedFolders, MoveFolder(d, e)
      PROVE  Tidy' /\ \A x : Established(x)' => Established(x)
  <2>1. Tidy'
    BY <1>1, <1>8, MoveFolderTidy
  <2>2. UNCHANGED folders_allocation_map
    BY <1>8 DEF MoveFolder
  <2>3. QED
    BY <2>1, <2>2 DEF Established
<1>9. ASSUME NEW f \in EstablishedFiles, StoreData(f) \/ ClearData(f) \/ RemoveFile(f)
      PROVE  Tidy' /\ \A x : Established(x)' => Established(x)
  BY <1>2, <1>3, <1>4, <1>9 DEF StoreData, ClearData, RemoveFile
<1>10. ASSUME NEW d \in EstablishedFolders, RemoveFolder(d) \/ RemoveTree(d)
       PROVE  Tidy' /\ \A x : Established(x)' => Established(x)
  BY <1>1, <1>2, <1>10, DeleteFlatFolderTidy DEF RemoveFolder, RemoveTree
<1>11. CASE RemovalStep
  <2>1. Running /\ CallInv
    BY <1>11 DEF IInv, RemovalStep, RemoveSubFile, RemoveSubFolder, RemovalTooDeep,
                 RemoveInside, RemovalOfRoot
  <2>2. Inside \in EstablishedFolders
    BY <1>1, <2>1, InsideFits
  <2>3. CASE RemoveSubFile
    <3>1. PICK f \in folders[Inside].sub_files : DeleteVfsFile(f)
      BY <2>3 DEF RemoveSubFile
    <3>2. f \in EstablishedFiles
      BY <1>1, <2>2, ListedEstablished DEF EstablishedFolders
    <3>3. QED
      BY <1>3, <1>4, <3>1, <3>2
  <2>4. CASE RemoveInside
    BY <1>1, <2>2, <2>4, DeleteFlatFolderTidy DEF RemoveInside
  <2>5. CASE RemoveSubFolder \/ RemovalTooDeep \/ RemovalOfRoot
    BY <1>2, <2>5 DEF RemoveSubFolder, RemovalTooDeep, RemovalOfRoot
  <2>6. QED
    BY <1>11, <2>3, <2>4, <2>5 DEF RemovalStep
<1>12. ASSUME NEW f \in EstablishedFiles, NEW name \in Name, RenameFileOverrun(f, name)
       PROVE  Tidy' /\ \A x : Established(x)' => Established(x)
  <2>1. \A x : Established(x)' <=> Established(x)
    BY <1>12 DEF RenameFileOverrun, Established
  <2>2. CASE UNCHANGED folders
    BY <2>1, <2>2 DEF Tidy
  <2>3. CASE ~UNCHANGED folders
    <3>1. PICK d \in Folder, address \in NullableNode :
            /\ folders_allocation_map[d]
            /\ folders' = [folders EXCEPT ![d].parent_folder = address]
      BY <1>12, <2>3 DEF RenameFileOverrun
    <3>2. \A x \in Node : /\ folders'[x].name = folders[x].name
                          /\ x # d => folders'[x].parent_folder = folders[x].parent_folder
      BY <1>1, <3>1 DEF TypeOK
    <3>3. Established(d) /\ d \in Node
      BY <3>1 DEF Established, Node
    <3>4. Tidy'
      BY <2>1, <3>2, <3>3 DEF Tidy
    <3>5. QED
      BY <2>1, <3>4
  <2>4. QED
    BY <2>2, <2>3
<1>13. QED
  BY <1>5, <1>6, <1>7, <1>8, <1>9, <1>10, <1>11, <1>12 DEF ChangeNamed

-----------------------------------------------------------------------------
(* What a command does *)

\* An answer, and nothing else.
Answered == Defined /\ UNCHANGED entries /\ status' \in {"SUCCESS", "FAILURE", "RUNNING"}

CreateHere(name) == CreateFile(cur_folder, name) \/ CreateFolder(cur_folder, name)

\* Every command creates something in the current folder, changes something that is in
\* the tree, or leaves the tree alone.
LEMMA CommandCases ==
  ASSUME WsInv, Command
  PROVE  \/ UNCHANGED wsVars /\ ~Running /\ \E name \in Name : CreateHere(name)
         \/ UNCHANGED wsVars /\ ~Running /\ ChangeNamed
         \/ UNCHANGED wsVars /\ Answered
         \/ \E d \in EstablishedFolders : Enter(d)
         \/ UNCHANGED treeVars /\ UNCHANGED <<cur_folder, cur_path>> /\ crashed' \in BOOLEAN
<1>1. /\ TreeInv /\ Tidy /\ cur_folder \in Node
      /\ ResolvedFiles \subseteq EstablishedFiles /\ ResolvedFolders \subseteq EstablishedFolders
  BY ResolvedEstablished DEF WsInv, SafeInv, IInv, Command
<1>2. ~Running /\ Defined
  BY DEF Command
<1>3. ASSUME Refuse PROVE Answered
  BY <1>2, <1>3 DEF Refuse, Answered
<1>4. CASE ChangeToPath
  BY <1>1, <1>4 DEF ChangeToPath
<1>5. CASE ChangeToParent
  <2>1. cur_folder # ROOT /\ folders[cur_folder].parent_folder # NULL
        /\ Enter(folders[cur_folder].parent_folder)
    BY <1>5 DEF ChangeToParent
  <2>2. cur_folder \in EstablishedFolders
    BY <1>1, <2>1 DEF Tidy, EstablishedFolders
  <2>3. folders[cur_folder].parent_folder \in EstablishedFolders
    BY <1>1, <2>1, <2>2, ParentOf DEF EstablishedFolders
  <2>4. QED
    BY <2>1, <2>3
<1>6. CASE ChangeToNullParent
  BY <1>6 DEF ChangeToNullParent
<1>7. CASE ChangeRefused /\ UNCHANGED wsVars
  BY <1>3, <1>7 DEF ChangeRefused
<1>8. ASSUME NEW name \in Name, Create(name), UNCHANGED wsVars
      PROVE  \/ UNCHANGED wsVars /\ ~Running /\ CreateHere(name)
             \/ UNCHANGED wsVars /\ Answered
  BY <1>2, <1>3, <1>8 DEF Create, CreateHere
<1>9. ASSUME NEW name \in Name, RenameNode(name), UNCHANGED wsVars
      PROVE  \/ UNCHANGED wsVars /\ ~Running /\ ChangeNamed
             \/ UNCHANGED wsVars /\ Answered
  BY <1>1, <1>2, <1>3, <1>9 DEF RenameNode, ChangeNamed
<1>10. CASE RemoveNode /\ UNCHANGED wsVars
  BY <1>1, <1>2, <1>3, <1>10 DEF RemoveNode, ChangeNamed
<1>11. CASE MoveNode /\ UNCHANGED wsVars
  BY <1>1, <1>2, <1>3, <1>11 DEF MoveNode, ChangeNamed
<1>12. CASE WriteFile /\ UNCHANGED wsVars
  BY <1>1, <1>2, <1>12 DEF WriteFile, ChangeNamed
<1>13. QED
  BY <1>4, <1>5, <1>6, <1>7, <1>8, <1>9, <1>10, <1>11, <1>12 DEF Command

\* A step of the workspace is a step of the entry store, or leaves the tree alone.
LEMMA StepUsesEntryStore ==
  ASSUME WsInv, [Next]_vars
  PROVE  TreeNext \/ Answered \/ UNCHANGED treeVars
<1>1. cur_folder \in Node
  BY DEF WsInv
<1>2. CASE Command
  <2> Defined
    BY <1>2 DEF Command
  <2>1. ASSUME ~Running, NEW name \in Name, CreateHere(name) PROVE TreeNext
    BY <1>1, <2>1 DEF CreateHere, TreeNext, Operation
  <2>2. ASSUME ~Running, ChangeNamed PROVE TreeNext
    BY <2>2 DEF ChangeNamed, TreeNext, Operation
  <2>3. ASSUME NEW d, Enter(d) PROVE Answered
    BY <2>3 DEF Enter, Answered
  <2>4. QED
    BY <1>2, <2>1, <2>2, <2>3, CommandCases
<1>3. CASE RemovalStep /\ UNCHANGED wsVars
  BY <1>3 DEF TreeNext
<1>4. CASE UNCHANGED vars
  BY <1>4 DEF vars
<1>5. QED
  BY <1>2, <1>3, <1>4 DEF Next

\* Only creation takes a slot for a folder, and only in the current folder.
LEMMA SlotsAndNames ==
  ASSUME WsInv, [Next]_vars
  PROVE  /\ Tidy'
         /\ \/ \E name \in Name : CreateHere(name)
            \/ \A d : Established(d)' => Established(d)
<1>1. /\ Tidy /\ cur_folder \in Node
      /\ Defined => IInv
      /\ ~Defined => ~Running
  BY DEF WsInv, SafeInv, Damaged
<1>2. ASSUME UNCHANGED entries
      PROVE  Tidy' /\ \A d : Established(d)' => Established(d)
  BY <1>1, <1>2 DEF entries, Tidy, Established
<1>3. CASE Command
  <2> IInv
    BY <1>1, <1>3 DEF Command
  <2>1. ASSUME NEW name \in Name, CreateHere(name) PROVE Tidy'
    BY <1>1, <2>1, CreationTidy DEF CreateHere
  <2>2. ASSUME ChangeNamed PROVE Tidy' /\ \A d : Established(d)' => Established(d)
    BY <1>1, <2>2, ChangeTidy
  <2>3. ASSUME NEW d, Enter(d) PROVE UNCHANGED entries
    BY <2>3 DEF Enter
  <2>4. Answered \/ UNCHANGED treeVars => UNCHANGED entries
    BY DEF Answered, treeVars
  <2>5. QED
    BY <1>2, <1>3, <2>1, <2>2, <2>3, <2>4, CommandCases
<1>4. CASE RemovalStep /\ UNCHANGED wsVars
  <2>1. Running
    BY <1>4 DEF RemovalStep, RemoveSubFile, RemoveSubFolder, RemovalTooDeep, RemoveInside,
         RemovalOfRoot
  <2>2. QED
    BY <1>1, <1>4, <2>1, ChangeTidy
<1>5. CASE UNCHANGED vars
  BY <1>2, <1>5 DEF vars, treeVars
<1>6. QED
  BY <1>3, <1>4, <1>5 DEF Next

LEMMA WsStepPreserves == WsInv /\ [Next]_vars => WsInv'
<1> SUFFICES ASSUME WsInv, [Next]_vars PROVE WsInv'
  OBVIOUS
<1>1. /\ SafeInv /\ Tidy /\ cur_folder \in Node
      /\ cur_path \in Seq(Name) /\ Len(cur_path) <= MAX_PATH_NODES_AMOUNT
      /\ crashed \in BOOLEAN
  BY DEF WsInv
<1>2. SafeInv'
  <2>1. CASE TreeNext \/ UNCHANGED treeVars
    BY <1>1, <2>1, SafeStep
  <2>2. CASE Answered
    <3>1. IInv'
      BY <1>1, <2>2, AnswerDoesNotMatter DEF Answered, SafeInv
    <3>2. Defined'
      BY <2>2 DEF Answered, Defined
    <3>3. QED
      BY <3>1, <3>2 DEF SafeInv
  <2>3. QED
    BY <2>1, <2>2, StepUsesEntryStore
<1>3. Tidy'
  BY SlotsAndNames
<1> DEFINE WsTyped == /\ cur_folder \in Node
                      /\ cur_path \in Seq(Name) /\ Len(cur_path) <= MAX_PATH_NODES_AMOUNT
                      /\ crashed \in BOOLEAN
<1>4. ASSUME UNCHANGED wsVars PROVE WsTyped'
  BY <1>1, <1>4 DEF wsVars
<1>5. ASSUME TreeInv, NEW d \in EstablishedFolders, Enter(d) PROVE WsTyped'
  <2>1. (d = ROOT \/ ~PathTooLong(d)) /\ cur_folder' = d /\ cur_path' = NodePath(d)
        /\ crashed' = crashed
    BY <1>5 DEF Enter
  <2>2. NodePath(d) \in Seq(Name) /\ Len(NodePath(d)) <= MAX_PATH_NODES_AMOUNT
    BY <1>1, <1>5, <2>1, PathFits
  <2>3. d \in Node
    BY DEF EstablishedFolders
  <2>4. QED
    BY <1>1, <2>1, <2>2, <2>3
<1>6. WsTyped'
  <2>1. CASE Command
    <3> TreeInv
      BY <1>1, <2>1 DEF Command, SafeInv, IInv
    <3>1. ASSUME UNCHANGED <<cur_folder, cur_path>>, crashed' \in BOOLEAN PROVE WsTyped'
      BY <1>1, <3>1
    <3> HIDE DEF WsTyped
    <3>2. QED
      BY <1>4, <1>5, <2>1, <3>1, CommandCases
  <2>2. CASE UNCHANGED wsVars
    BY <1>4, <2>2
  <2>3. QED
    BY <2>1, <2>2 DEF Next, vars
<1>7. QED
  BY <1>2, <1>3, <1>6 DEF WsInv

-----------------------------------------------------------------------------
(* The theorems *)

\* The inductive invariant of the tree, and with it LinksAgree, NamesUnique, NoOrphans
\* and NoOrphanData, holds whatever commands the user gives (src/workspace), up to a
\* rename that writes behind its array (folders.c:290).
THEOREM WorkspaceInvariant == Spec => []WsInv
BY WsInitEstablishes, WsStepPreserves, PTL DEF Spec

\* The current folder is always a folder slot, and its path fits the buffers of
\* navigation.c:109-131.
THEOREM WorkspaceTypeCorrect == Spec => []WsTypeOK
<1>1. WsInv => WsTypeOK
  BY DEF WsInv, SafeInv, Damaged, IInv, TreeInv, WsTypeOK
<1>2. QED
  BY <1>1, WorkspaceInvariant, PTL

\* The tree is sound under every sequence of commands: links agree, names are unique,
\* nothing is orphaned and no call of a removal is in a freed folder, although
\* cur_folder may point to one (workspace.h:15-27).
THEOREM TreeSoundInUse ==
  Spec => [](LinksAgree /\ NamesUnique /\ NoOrphans /\ NoOrphanData /\ CallsInEstablished)
<1>1. WsInv => LinksAgree /\ NamesUnique /\ NoOrphans /\ NoOrphanData /\ CallsInEstablished
  BY DEF WsInv, SafeInv, Damaged, IInv, TreeInv, CallInv, LinksAgree
<1>2. QED
  BY <1>1, WorkspaceInvariant, PTL

\* The workspace implements the use of the entry store that EntryStore describes: it
\* never moves, renames or fills what is not in the tree (entry_relocation.c:95).
THEOREM WorkspaceUsesEntryStore == Spec => UsesEntryStore
<1>1. Init => TreeInit
  BY DEF Init
<1>2. WsInv /\ [Next]_vars => [TreeNext]_entries
  BY StepUsesEntryStore DEF Answered, treeVars
<1>3. QED
  BY <1>1, <1>2, WorkspaceInvariant, PTL DEF Spec, UsesEntryStore

\* Nothing is ever found through a current folder that was removed
\* (vfs_entry_store.c:177-229 frees it without telling the workspace).
THEOREM RemovedFolderAlwaysEmpty == Spec => []RemovedFolderIsEmpty
<1>1. WsInv => RemovedFolderIsEmpty
  <2> SUFFICES ASSUME WsInv PROVE FreeFoldersEmpty
    BY DEF RemovedFolderIsEmpty, FreeFoldersEmpty, WsInv
  <2>1. CASE Defined
    BY <2>1, FreeFolderEmpty DEF WsInv, SafeInv, IInv, TreeInv
  <2>2. CASE ~Defined
    BY <2>2 DEF WsInv, SafeInv, Damaged
  <2>3. QED
    BY <2>1, <2>2
<1>2. QED
  BY <1>1, WorkspaceInvariant, PTL

\* The slot of a removed current folder is taken by nobody, so the user is never in
\* a folder without having gone there: creation is refused in a folder that is not
\* established (vfs_entry_store.c:382), and nothing else takes a slot.
THEOREM RemovedFolderAlwaysStaysRemoved == Spec => RemovedFolderStaysRemoved
<1> DEFINE Stays ==
      ~Established(cur_folder) /\ cur_folder' = cur_folder => ~Established(cur_folder)'
<1>1. WsInv /\ [Next]_vars => Stays
  <2> SUFFICES ASSUME WsInv, [Next]_vars, ~Established(cur_folder), cur_folder' = cur_folder
               PROVE  ~Established(cur_folder)'
    OBVIOUS
  <2>1. ASSUME NEW name \in Name PROVE ~CreateFolder(cur_folder, name)
                                       /\ ~CreateFile(cur_folder, name)
    BY DEF CreateFolder, CanCreateFolder, CreateFile, CanCreateFile
  <2>2. \A d : Established(d)' => Established(d)
    BY <2>1, SlotsAndNames DEF CreateHere
  <2>3. QED
    BY <2>2 DEF Established
<1>2. Stays => [~Established(cur_folder) /\ cur_folder' = cur_folder
                  => ~Established(cur_folder)']_vars
  OBVIOUS
<1>3. QED
  BY <1>1, <1>2, WorkspaceInvariant, PTL DEF Spec, RemovedFolderStaysRemoved
=============================================================================
