---------------------------- MODULE BundleProofs ----------------------------
(***************************************************************************)
(* Theorems about Bundle, for any archives and directories: how a search   *)
(* and its result relate, what an extraction leaves behind, when it fails, *)
(* and what is found in it.                                                *)
(***************************************************************************)
EXTENDS Bundle, SequenceTheorems, TLAPS

(* What an entry of an archive is.                                         *)
LEMMA EntryFacts ==
  ASSUME NEW a \in Archives, NEW i \in 1..Len(a)
  PROVE  a[i] \in EntryType
BY ArchivesAssumption

LEMMA ArchiveLength ==
  ASSUME NEW a \in Archives \cup {<<>>}
  PROVE  Len(a) \in Nat /\ Len(<<>>) = 0
<1>1. CASE a \in Archives
  BY <1>1, ArchivesAssumption
<1> QED
  BY <1>1

LEMMA NodeTypes ==
  /\ Directory \in Nodes
  /\ \A i \in Nat, whole \in BOOLEAN : File(i, whole) \in Nodes
BY DEF Directory, Node, File, Nodes

(* Between two calls of tarReader.Next an entry for a file is at hand.      *)
AtFile ==
  step \in {"mkdir", "create", "copy"} =>
    next <= Len(archive) /\ Entry.type = "file" /\ Entry.local

(* NextFile comes to the entry, and no step before the next leaves it.     *)
LEMMA AtFileStep == AtFile /\ [Next]_vars => AtFile'
<1> USE DEF AtFile, At, Goto, Entry, unwalked, input
<1>1. ASSUME AtFile, UNCHANGED <<archive, next>>,
             step' \in {"mkdir", "create", "copy"} => step \in {"mkdir", "create", "copy"}
      PROVE  AtFile'
  BY <1>1
<1>2. ASSUME AtFile, Fail \/ Open \/ EndOfArchive \/ BadHeader \/ SkipEntry
      PROVE  AtFile'
  BY <1>2 DEF Fail, Open, EndOfArchive, BadHeader, SkipEntry
<1>3. ASSUME AtFile, NextFile
      PROVE  AtFile'
  BY <1>3 DEF NextFile
<1>4. ASSUME AtFile, MkdirAll \/ CreateFile
      PROVE  AtFile'
  BY <1>1, <1>4 DEF MkdirAll, CreateFile
<1>5. ASSUME AtFile, Copy
      PROVE  AtFile'
  BY <1>5 DEF Copy
<1>6. ASSUME AtFile, FindClusterData
      PROVE  AtFile'
  BY <1>1, <1>6 DEF FindClusterData, Visit, WalkEnds, WalkFails
<1>7. ASSUME AtFile, UNCHANGED vars
      PROVE  AtFile'
  BY <1>1, <1>7 DEF vars
<1> QED
  BY <1>2, <1>3, <1>4, <1>5, <1>6, <1>7, Zenon DEF Next, ExtractBundle

(* The variables of Bundle keep the values the type invariant lists.       *)
LEMMA TypeInit == Init => TypeOK
<1> SUFFICES ASSUME Init
             PROVE  TypeOK
  OBVIOUS
<1>1. archive \in Archives \cup {<<>>} /\ step \in Steps
  BY DEF Init, InitArchive, InitDirectory, Steps
<1>2. ASSUME InitArchive
      PROVE  DOMAIN tree \subseteq Paths /\ \A p \in DOMAIN tree : tree[p] \in Nodes
  BY <1>2, PathsAssumption, NodeTypes DEF InitArchive
<1>3. ASSUME InitDirectory
      PROVE  DOMAIN tree \subseteq Paths /\ \A p \in DOMAIN tree : tree[p] \in Nodes
  <2>1. PICK d \in Directories : tree = [p \in DOMAIN d |-> Node(d[p])]
    BY <1>3 DEF InitDirectory
  <2> QED
    BY <2>1, ArchivesAssumption DEF Node, Nodes
<1>4. /\ DOMAIN tree \subseteq Paths /\ \A p \in DOMAIN tree : tree[p] \in Nodes
      /\ todo \subseteq Paths
  <2>1. InitArchive => todo = {}
    BY DEF InitArchive
  <2>2. InitDirectory => todo \subseteq DOMAIN tree
    BY DEF InitDirectory, Reached
  <2>3. InitArchive \/ InitDirectory
    BY DEF Init
  <2> QED
    BY <1>2, <1>3, <2>1, <2>2, <2>3
<1>6. next \in 1..(Len(archive) + 1)
  BY <1>1, ArchiveLength DEF Init
<1>7. /\ ioFailed \in BOOLEAN
      /\ clusterResourcesDir = NoPath /\ clusterInfoFile = NoPath
  BY DEF Init
<1> QED
  BY <1>1, <1>4, <1>6, <1>7 DEF TypeOK

(* One step per action.                                                    *)
LEMMA TypeStep == TypeOK /\ AtFile /\ [Next]_vars => TypeOK'
<1> SUFFICES ASSUME TypeOK, AtFile, [Next]_vars
             PROVE  TypeOK'
  OBVIOUS
<1>1. Len(archive) \in Nat
  BY ArchiveLength DEF TypeOK
<1>2. ASSUME next <= Len(archive)
      PROVE  Entry \in EntryType /\ next \in Nat
  <2>1. archive \in Archives
    BY <1>2, <1>1, ArchiveLength DEF TypeOK
  <2> QED
    BY <1>1, <1>2, <2>1, EntryFacts DEF TypeOK, Entry
<1> USE DEF At, Goto, unwalked, input, result
<1>3. ASSUME UNCHANGED <<archive, tree, todo, clusterResourcesDir, clusterInfoFile>>,
             step' \in Steps, next' \in 1..(Len(archive) + 1), ioFailed' \in BOOLEAN
      PROVE  TypeOK'
  BY <1>3 DEF TypeOK
(* A step that puts a node where an entry says, and returns to a step. *)
<1>4. ASSUME UNCHANGED <<archive, todo, clusterResourcesDir, clusterInfoFile>>,
             step' \in Steps, next' \in 1..(Len(archive) + 1), ioFailed' \in BOOLEAN,
             NEW p \in Paths, NEW node \in Nodes, Put(p, node)
      PROVE  TypeOK'
  <2>1. DOMAIN tree' \subseteq Paths /\ \A q \in DOMAIN tree' : tree'[q] \in Nodes
    BY <1>4 DEF TypeOK, Put
  <2> QED
    BY <1>4, <2>1 DEF TypeOK
<1>5. /\ next \in 1..(Len(archive) + 1)
      /\ ioFailed \in BOOLEAN /\ TRUE \in BOOLEAN
      /\ {"open", "next", "mkdir", "create", "copy", "walk", "found", "failed"} = Steps
  BY DEF TypeOK, Steps
<1>6. CASE Fail \/ Open \/ BadHeader
  BY <1>3, <1>5, <1>6, Zenon DEF Fail, Open, BadHeader
<1>7. CASE SkipEntry
  <2>1. next + 1 \in 1..(Len(archive) + 1)
    BY <1>1, <1>5, <1>7 DEF SkipEntry
  <2> QED
    BY <1>3, <1>5, <1>7, <2>1, Zenon DEF SkipEntry
<1>8. CASE NextFile
  <2>1. step' \in Steps /\ UNCHANGED <<archive, tree, todo, clusterResourcesDir,
                                       clusterInfoFile, next, ioFailed>>
    BY <1>5, <1>8 DEF NextFile
  <2> QED
    BY <1>3, <1>5, <2>1
<1>9. CASE EndOfArchive
  BY <1>9 DEF EndOfArchive, TypeOK, Steps, Reached
<1>10. CASE MkdirAll
  <2>1. CASE UNCHANGED tree
    <3>1. UNCHANGED <<archive, tree, todo, clusterResourcesDir, clusterInfoFile, next,
                      ioFailed>>
          /\ step' \in Steps
      BY <1>5, <1>10, <2>1 DEF MkdirAll
    <3> QED
      BY <1>3, <1>5, <3>1
  <2>2. CASE tree' = [p \in DOMAIN tree \cup Ancestors(Entry.path) |->
                        IF p \in DOMAIN tree THEN tree[p] ELSE Directory]
    <3>1. DOMAIN tree' \subseteq Paths
      BY <2>2 DEF TypeOK, Ancestors
    <3>2. \A p \in DOMAIN tree' : tree'[p] \in Nodes
      BY <2>2, NodeTypes DEF TypeOK
    <3>3. UNCHANGED <<archive, todo, clusterResourcesDir, clusterInfoFile, next, ioFailed>>
          /\ step' \in Steps
      BY <1>5, <1>10 DEF MkdirAll
    <3> QED
      BY <3>1, <3>2, <3>3 DEF TypeOK
  <2> QED
    BY <1>10, <2>1, <2>2 DEF MkdirAll
<1>11. CASE CreateFile
  <2>1. CASE UNCHANGED tree
    <3>1. UNCHANGED <<archive, tree, todo, clusterResourcesDir, clusterInfoFile, next,
                      ioFailed>>
          /\ step' \in Steps
      BY <1>5, <1>11, <2>1 DEF CreateFile
    <3> QED
      BY <1>3, <1>5, <3>1
  <2>2. CASE Put(Entry.path, File(next, FALSE)) /\ step = "create"
    <3>1. Entry.path \in Paths /\ File(next, FALSE) \in Nodes
      BY <1>2, <2>2, NodeTypes DEF EntryType, AtFile
    <3>2. UNCHANGED <<archive, todo, clusterResourcesDir, clusterInfoFile, next, ioFailed>>
          /\ step' \in Steps
      BY <1>5, <1>11 DEF CreateFile
    <3> QED
      BY <1>4, <1>5, <2>2, <3>1, <3>2
  <2> QED
    BY <1>11, <2>1, <2>2 DEF CreateFile
<1>12. CASE Copy
  <2>1. next <= Len(archive) /\ Entry.path \in Paths /\ File(next, Entry.whole) \in Nodes
    BY <1>2, <1>12, NodeTypes DEF EntryType, AtFile, Copy
  <2>2. step' \in Steps /\ next' \in 1..(Len(archive) + 1)
    BY <1>1, <1>5, <1>12, <2>1 DEF Copy
  <2>3. /\ UNCHANGED <<archive, todo, clusterResourcesDir, clusterInfoFile, ioFailed>>
        /\ Put(Entry.path, File(next, Entry.whole))
    BY <1>12 DEF Copy
  <2> QED
    BY <1>4, <1>5, <2>1, <2>2, <2>3
<1>13. CASE Visit
  <2>1. PICK p \in todo :
          /\ todo' = todo \ {p}
          /\ clusterResourcesDir' \in {p, clusterResourcesDir}
          /\ clusterInfoFile' \in {p, clusterInfoFile}
    BY <1>13 DEF Visit
  <2>2. UNCHANGED <<archive, tree, step, next, ioFailed>>
    BY <1>13 DEF Visit
  <2>3. /\ todo' \subseteq Paths
        /\ clusterResourcesDir' \in Paths \cup {NoPath}
        /\ clusterInfoFile' \in Paths \cup {NoPath}
    BY <2>1 DEF TypeOK
  <2> QED
    BY <2>2, <2>3 DEF TypeOK
<1>14. CASE WalkEnds \/ WalkFails
  BY <1>3, <1>5, <1>14, Zenon DEF WalkEnds, WalkFails
<1>15. CASE UNCHANGED vars
  BY <1>15, Zenon DEF TypeOK, vars
<1> QED
  BY <1>6, <1>7, <1>8, <1>9, <1>10, <1>11, <1>12, <1>13, <1>14, <1>15, Zenon
  DEF Next, ExtractBundle, FindClusterData

(* Extraction and search keep their variables in range: the entry at hand   *)
(* is one of the archive's, and what is found is a path of the bundle.      *)
THEOREM TypeCorrect == Spec => []TypeOK
<1>1. Init => TypeOK /\ AtFile
  <2>1. Init => AtFile
    BY DEF Init, InitArchive, InitDirectory, AtFile
  <2> QED
    BY <2>1, TypeInit
<1>2. (TypeOK /\ AtFile) /\ [Next]_vars => (TypeOK /\ AtFile)'
  BY TypeStep, AtFileStep
<1> QED
  BY <1>1, <1>2, PTL DEF Spec

-----------------------------------------------------------------------------
(* The search.                                                             *)

(* Of the cluster-resources directories that are no longer to be visited,  *)
(* and are not behind a link, the one that is kept has the shortest path.  *)
Candidates == ClusterResources \cap Reached

WalkInv ==
  /\ clusterResourcesDir # NoPath => clusterResourcesDir \in Candidates
  /\ step \notin {"walk", "found", "failed"} => clusterResourcesDir = NoPath
  /\ step = "walk" => todo \subseteq Reached
  /\ step \in {"walk", "found"} =>
       \A p \in Candidates \ todo :
         /\ clusterResourcesDir # NoPath
         /\ PathLength[clusterResourcesDir] <= PathLength[p]
  /\ step = "found" => todo = {}

LEMMA WalkInit == Init => WalkInv
BY DEF Init, InitArchive, InitDirectory, WalkInv, Candidates

(* A visit keeps the shorter of two paths.                                 *)
LEMMA WalkStep == TypeOK /\ WalkInv /\ [Next]_vars => WalkInv'
<1> SUFFICES ASSUME TypeOK, WalkInv, [Next]_vars
             PROVE  WalkInv'
  OBVIOUS
<1> USE DEF At, Goto, unwalked, input, result
<1>1. ASSUME UNCHANGED <<rootName, tree>>
      PROVE  ClusterResources' = ClusterResources /\ Reached' = Reached
                 /\ Candidates' = Candidates
  <2>1. \A p : Ancestors(p)' = Ancestors(p) /\ LinkAt(p)' = LinkAt(p)
    BY <1>1 DEF Ancestors, LinkAt
  <2>2. Reached' = Reached
    BY <1>1, <2>1 DEF Reached
  <2>3. ClusterResources' = ClusterResources
    BY <1>1 DEF ClusterResources, DirectoryAt, Name
  <2> QED
    BY <2>2, <2>3 DEF Candidates
<1>2. CASE Open \/ BadHeader \/ SkipEntry \/ NextFile \/ MkdirAll \/ CreateFile \/ Copy \/ Fail
  <2>1. /\ clusterResourcesDir = NoPath /\ clusterResourcesDir' = NoPath
        /\ step' \notin {"walk", "found"}
        /\ NoPath' = NoPath
    BY <1>2 DEF Open, BadHeader, SkipEntry, NextFile, MkdirAll, CreateFile, Copy, Fail,
                WalkInv, NoPath
  <2> QED
    BY <2>1 DEF WalkInv
<1>3. CASE EndOfArchive
  <2>1. /\ UNCHANGED <<rootName, tree>> /\ todo' = Reached /\ step' = "walk"
        /\ clusterResourcesDir' = NoPath
    BY <1>3 DEF EndOfArchive, WalkInv
  <2>2. Candidates' \subseteq todo' /\ todo' \subseteq Reached'
    BY <2>1, <1>1 DEF Candidates
  <2> QED
    BY <2>1, <2>2 DEF WalkInv
<1>4. CASE Visit
  <2>1. PICK p \in todo :
          /\ todo' = todo \ {p}
          /\ clusterResourcesDir' =
               IF p \in ClusterResources /\ Better(p) THEN p ELSE clusterResourcesDir
    BY <1>4 DEF Visit
  <2>2. step = "walk" /\ step' = "walk" /\ UNCHANGED <<rootName, tree>>
    BY <1>4 DEF Visit
  <2>3. Candidates \subseteq Paths /\ p \in Paths /\ NoPath \notin Paths
        /\ \A q \in Paths : PathLength[q] \in Nat
    BY <2>1, PathsAssumption DEF TypeOK, Candidates, ClusterResources
  <2>4. \A q \in Candidates \ todo' :
          /\ clusterResourcesDir' # NoPath
          /\ PathLength[clusterResourcesDir'] <= PathLength[q]
    <3>1. CASE p \in ClusterResources /\ Better(p)
      <4>1. clusterResourcesDir' = p
        BY <2>1, <3>1
      <4>2. CASE clusterResourcesDir = NoPath
        BY <2>1, <2>2, <2>3, <4>1, <4>2 DEF WalkInv
      <4>3. CASE clusterResourcesDir # NoPath
        <5>1. PathLength[p] < PathLength[clusterResourcesDir]
              /\ clusterResourcesDir \in Paths
          BY <3>1, <4>3, <2>3 DEF Better, WalkInv
        <5> QED
          BY <2>1, <2>2, <2>3, <4>1, <5>1 DEF WalkInv
      <4> QED
        BY <4>2, <4>3
    <3>2. CASE p \in ClusterResources /\ ~Better(p)
      <4>1. /\ clusterResourcesDir' = clusterResourcesDir
            /\ clusterResourcesDir # NoPath /\ clusterResourcesDir \in Paths
            /\ ~(PathLength[p] < PathLength[clusterResourcesDir])
        BY <2>1, <2>3, <3>2 DEF Better, WalkInv
      <4> QED
        BY <2>1, <2>2, <2>3, <4>1 DEF WalkInv
    <3>3. CASE p \notin ClusterResources
      BY <2>1, <2>2, <3>3 DEF WalkInv, Candidates
    <3> QED
      BY <3>1, <3>2, <3>3
  <2>5. clusterResourcesDir' # NoPath => clusterResourcesDir' \in Candidates
    BY <2>1, <2>2 DEF WalkInv, Candidates
  <2> QED
    BY <1>1, <2>1, <2>2, <2>4, <2>5 DEF WalkInv
<1>5. CASE WalkEnds \/ WalkFails
  <2>1. UNCHANGED <<rootName, tree, todo, clusterResourcesDir>>
        /\ step = "walk" /\ step' \in {"found", "failed"}
        /\ (step' = "found" => todo = {})
    BY <1>5 DEF WalkEnds, WalkFails
  <2> QED
    BY <1>1, <2>1 DEF WalkInv
<1>6. CASE UNCHANGED vars
  BY <1>1, <1>6 DEF WalkInv, vars
<1> QED
  BY <1>2, <1>3, <1>4, <1>5, <1>6, Zenon DEF Next, ExtractBundle, FindClusterData

(* The invariant of the search holds in every behaviour.                   *)
LEMMA WalkAlways == Spec => [](TypeOK /\ AtFile /\ WalkInv)
<1>1. Init => TypeOK /\ AtFile /\ WalkInv
  BY TypeInit, WalkInit DEF Init, InitArchive, InitDirectory, AtFile
<1>2. (TypeOK /\ AtFile /\ WalkInv) /\ [Next]_vars => (TypeOK /\ AtFile /\ WalkInv)'
  BY TypeStep, AtFileStep, WalkStep
<1> QED
  BY <1>1, <1>2, PTL DEF Spec

-----------------------------------------------------------------------------
(* Paths                                                                   *)

(* One path is on the way to another if it is shorter and agrees with it.  *)
LEMMA AncestorByNames ==
  ASSUME NEW p \in Paths, NEW q \in Paths
  PROVE  Ancestor(p, q) <=>
           Len(p) <= Len(q) /\ p # q /\ \A i \in 1..Len(p) : p[i] = q[i]
<1>1. p \in Seq(STRING) /\ q \in Seq(STRING)
  BY PathsAssumption
<1>2. ASSUME Len(p) <= Len(q)
      PROVE  SubSeq(p, 1, Len(p)) = SubSeq(q, 1, Len(p))
               <=> \A i \in 1..Len(p) : p[i] = q[i]
  <2>1. /\ SubSeq(p, 1, Len(p)) = [i \in 1..Len(p) |-> p[i]]
        /\ SubSeq(q, 1, Len(p)) = [i \in 1..Len(p) |-> q[i]]
    BY <1>1, <1>2
  <2> QED
    BY <2>1
<1> QED
  BY <1>2 DEF Ancestor, IsStrictPrefix, IsPrefix

LEMMA AncestorIsStrict == \A p : ~Ancestor(p, p)
BY DEF Ancestor, IsStrictPrefix

(* Paths are told apart by their names.                                    *)
LEMMA SamePath ==
  ASSUME NEW p \in Paths, NEW q \in Paths, Len(p) = Len(q),
         \A i \in 1..Len(p) : p[i] = q[i]
  PROVE  p = q
<1>1. p \in Seq(STRING) /\ q \in Seq(STRING)
  BY PathsAssumption
<1>2. p = [i \in 1..Len(p) |-> p[i]] /\ q = [i \in 1..Len(q) |-> q[i]]
  BY <1>1
<1> QED
  BY <1>2

(* What is on the way to a path on the way is on the way.                  *)
LEMMA AncestorIsTransitive ==
  ASSUME NEW p \in Paths, NEW q \in Paths, NEW r \in Paths,
         Ancestor(p, q), Ancestor(q, r)
  PROVE  Ancestor(p, r)
<1>1. Len(p) \in Nat /\ Len(q) \in Nat /\ Len(r) \in Nat
  BY PathsAssumption
<1>2. /\ Len(p) <= Len(q) /\ p # q /\ \A i \in 1..Len(p) : p[i] = q[i]
      /\ Len(q) <= Len(r) /\ q # r /\ \A i \in 1..Len(q) : q[i] = r[i]
  BY AncestorByNames
<1>3. \A i \in 1..Len(p) : p[i] = r[i]
  BY <1>1, <1>2
<1>4. p # r
  BY <1>1, <1>2, SamePath
<1> QED
  BY <1>1, <1>2, <1>3, <1>4, AncestorByNames

LEMMA NothingAboveRoot == \A r \in Paths : ~Ancestor(r, <<>>)
<1> SUFFICES ASSUME NEW r \in Paths, Ancestor(r, <<>>)
             PROVE  FALSE
  OBVIOUS
<1>1. Len(r) = 0 /\ Len(<<>>) = 0 /\ <<>> \in Paths
  BY AncestorByNames, PathsAssumption
<1>2. r = <<>>
  BY <1>1, SamePath
<1> QED
  BY <1>2, AncestorIsStrict

(* All names of a path but the last.                                       *)
LEMMA FrontByNames ==
  ASSUME NEW p \in Seq(STRING), p # <<>>
  PROVE  /\ Len(Front(p)) = Len(p) - 1
         /\ \A i \in 1..(Len(p) - 1) : Front(p)[i] = p[i]
<1> DEFINE n == Len(p) - 1
           front == SubSeq(p, 1, n)
<1>1. n \in Nat /\ \A i \in 1..Len(p) : p[i] \in STRING
  BY EmptySeq, ElementOfSeq
<1>2. \A i \in 1..n : p[i] \in STRING
  BY <1>1
<1>3. front = Front(p)
  BY DEF Front
<1> HIDE DEF n
<1>4. /\ Len(front) = IF 1 <= n THEN n - 1 + 1 ELSE 0
      /\ \A i \in 1..(n - 1 + 1) : front[i] = p[1 + i - 1]
  <2> 1 \in Int /\ n \in Int
    BY <1>1
  <2> QED
    BY <1>2, SubSeqProperties
<1> HIDE DEF front
<1>5. Len(front) = n /\ \A i \in 1..n : front[i] = p[i]
  BY <1>1, <1>4
<1> QED
  BY <1>3, <1>5 DEF n

(* What is not behind a link has nothing behind a link above or beside its *)
(* way to the root.                                                        *)
LEMMA AboveIsReached ==
  ASSUME NEW p \in DOMAIN tree, NEW d \in Reached, DOMAIN tree \subseteq Paths,
         Above(p, d)
  PROVE  p \in Reached
<1> SUFFICES ASSUME NEW r \in Paths, Ancestor(r, p)
             PROVE  ~LinkAt(r)
  BY DEF Reached, Ancestors
<1>1. /\ p \in Paths /\ p \in Seq(STRING) /\ d \in Paths /\ d \in Seq(STRING)
      /\ r \in Seq(STRING) /\ Len(r) \in Nat /\ Len(p) \in Nat /\ Len(d) \in Nat
  BY PathsAssumption DEF Reached
<1>2. Len(r) <= Len(p) /\ p # r /\ \A i \in 1..Len(r) : r[i] = p[i]
  BY <1>1, AncestorByNames
<1>3. Len(r) < Len(p)
  BY <1>1, <1>2, SamePath
<1>4. p # <<>> /\ d # <<>> /\ Ancestor(Front(p), Front(d))
  BY <1>1, <1>3 DEF Above
<1>5. /\ Front(p) \in Paths /\ Front(d) \in Paths
      /\ Len(Front(p)) = Len(p) - 1 /\ Len(Front(d)) = Len(d) - 1
      /\ \A i \in 1..(Len(p) - 1) : Front(p)[i] = p[i]
      /\ \A i \in 1..(Len(d) - 1) : Front(d)[i] = d[i]
  BY <1>1, <1>4, FrontByNames, PathsAssumption
<1>6. /\ Len(Front(p)) <= Len(Front(d))
      /\ \A i \in 1..Len(Front(p)) : Front(p)[i] = Front(d)[i]
  BY <1>4, <1>5, AncestorByNames
<1>7. Len(r) < Len(d) /\ \A i \in 1..Len(r) : r[i] = d[i]
  BY <1>1, <1>2, <1>3, <1>5, <1>6
<1>8. r \in Ancestors(d)
  BY <1>1, <1>7, AncestorByNames DEF Ancestors
<1> QED
  BY <1>8 DEF Reached

(* The directory that is found does not lie in or beside another on its    *)
(* way to the root: such a one is visited too and has the shorter path,    *)
(* whatever the names.                                                     *)
THEOREM FoundIsNotNested == Spec => []NotNested
<1>1. TypeOK /\ WalkInv => NotNested
  <2> SUFFICES ASSUME TypeOK, WalkInv, step = "found",
                      NEW p \in ClusterResources, Above(p, clusterResourcesDir)
               PROVE  FALSE
    BY DEF NotNested
  <2> DEFINE d == clusterResourcesDir
  <2>1. d \in Candidates
    <3>1. CASE p \in Reached
      BY <3>1 DEF WalkInv, Candidates
    <3>2. CASE p \notin Reached
      <4>1. p # <<>>
        BY <3>2, NothingAboveRoot DEF ClusterResources, Reached, Ancestors
      <4>2. d # NoPath
        <5> SUFFICES ASSUME d = NoPath
                     PROVE  FALSE
          OBVIOUS
        <5>1. Front(p) \in Paths /\ <<>> \in Paths
          BY <4>1, PathsAssumption DEF ClusterResources, TypeOK
        <5>2. Front(d) = <<>>
          <6>1. Len(<<"">>) - 1 = 0
            OBVIOUS
          <6>2. SubSeq(<<"">>, 1, 0) = <<>>
            BY SubSeqEmpty
          <6> QED
            BY <6>1, <6>2 DEF Front, NoPath
        <5>3. Ancestor(Front(p), <<>>)
          BY <4>1, <5>2 DEF Above
        <5> QED
          BY <5>1, <5>3, NothingAboveRoot
      <4> QED
        BY <4>2 DEF WalkInv
    <3> QED
      BY <3>1, <3>2
  <2>2. d \in Paths /\ p \in Paths /\ PathLength[d] \in Nat /\ PathLength[p] \in Nat
    BY <2>1, PathsAssumption DEF TypeOK, Candidates, ClusterResources
  <2>3. p \in Candidates
    BY <2>1, AboveIsReached DEF TypeOK, Candidates, ClusterResources
  <2>4. PathLength[d] <= PathLength[p]
    BY <2>3 DEF WalkInv
  <2>5. p # d /\ (p = <<>> \/ (d # <<>> /\ Ancestor(Front(p), Front(d))))
    BY DEF Above
  <2>6. PathLength[p] < PathLength[d]
    <3>1. CASE p = <<>>
      BY <2>2, <2>5, <3>1, LengthOfRoot
    <3>2. CASE p # <<>> /\ d # <<>> /\ Ancestor(Front(p), Front(d))
      <4>1. Last(p) = Last(d)
        BY <2>1, <3>2 DEF Candidates, ClusterResources, Name
      <4> QED
        BY <2>2, <3>2, <4>1, LengthAssumption
    <3> QED
      BY <2>5, <3>1, <3>2
  <2> QED
    BY <2>2, <2>4, <2>6
<1> QED
  BY <1>1, WalkAlways, PTL

-----------------------------------------------------------------------------
(* The invariants                                                          *)

(* Nothing changes the archive or the name of its directory.               *)
LEMMA InputKept == [Next]_vars => UNCHANGED <<archive, rootName>>
<1> SUFFICES ASSUME Next
             PROVE  UNCHANGED <<archive, rootName>>
  BY DEF vars, input
<1> USE DEF unwalked, input
<1>1. Fail \/ Open \/ EndOfArchive \/ BadHeader \/ SkipEntry => UNCHANGED <<archive, rootName>>
  BY DEF Fail, Open, EndOfArchive, BadHeader, SkipEntry
<1>2. NextFile \/ MkdirAll \/ CreateFile \/ Copy => UNCHANGED <<archive, rootName>>
  BY DEF NextFile, MkdirAll, CreateFile, Copy
<1>3. FindClusterData => UNCHANGED <<archive, rootName>>
  BY DEF FindClusterData, Visit, WalkEnds, WalkFails
<1> QED
  BY <1>1, <1>2, <1>3 DEF Next, ExtractBundle

(* What is extracted is a tree without links: what is on the way to a node *)
(* is a directory, and every directory but the bundle's own is on the way  *)
(* to a file, or to the one that is about to be created.                   *)
TreeInv ==
  archive # <<>> =>
    /\ rootName # "cluster-resources"
    /\ DirectoryAt(<<>>)
    /\ \A p \in DOMAIN tree : tree[p].kind # "link"
    /\ \A p \in DOMAIN tree : \A q \in Ancestors(p) : DirectoryAt(q)
    /\ step = "create" => \A q \in Ancestors(Entry.path) : DirectoryAt(q)
    /\ step = "copy" => FileAt(Entry.path)
    /\ step # "failed" =>
         \A p \in DOMAIN tree \ (FilesIn(tree) \cup {<<>>}) :
           \/ \E q \in FilesIn(tree) : Ancestor(p, q)
           \/ step = "create" /\ Ancestor(p, Entry.path)

(* Writers of an archive a, and the paths the first n entries write to.    *)
WritersIn(a, p, n) == {i \in 1..n : a[i].type = "file" /\ a[i].path = p}
Touched(a, n) == {p \in Paths : WritersIn(a, p, n) # {}}

(* p holds the whole data of the last of the first n entries of its path.  *)
Written(a, t, p, n) ==
  /\ t[p].whole
  /\ t[p].entry \in WritersIn(a, p, n)
  /\ \A i \in WritersIn(a, p, n) : i <= t[p].entry

(* The files are those of the entries before the one at hand, and while    *)
(* that is copied, the one it is copied to.                                *)
FilesInv ==
  archive # <<>> =>
    /\ step \in {"open", "next", "mkdir", "create", "walk", "found"} =>
         /\ FilesIn(tree) = Touched(archive, next - 1)
         /\ \A p \in FilesIn(tree) : Written(archive, tree, p, next - 1)
    /\ step = "copy" =>
         /\ FilesIn(tree) = Touched(archive, next - 1) \cup {Entry.path}
         /\ \A p \in FilesIn(tree) \ {Entry.path} : Written(archive, tree, p, next - 1)

(* The entries that are done were sound by themselves, the archive is not  *)
(* sound if the extraction failed for what is in it, and is done with when *)
(* the search begins.                                                      *)
SoundInv ==
  archive # <<>> =>
    /\ \A i \in 1..(next - 1) :
         /\ archive[i].type # "bad"
         /\ archive[i].type = "file" =>
              archive[i].local /\ archive[i].whole /\ archive[i].path # <<>>
    /\ step = "copy" => Entry.path # <<>>
    /\ step = "failed" /\ ~ioFailed => ~Sound(archive)
    /\ step \in {"walk", "found"} => next = Len(archive) + 1

-----------------------------------------------------------------------------
(* The tree                                                                *)

(* The directory os.MkdirTemp makes is such a tree.                        *)
LEMMA TreeInit == Init => TreeInv
<1> SUFFICES ASSUME Init, archive # <<>>
             PROVE  TreeInv
  BY DEF TreeInv
<1>1. rootName = "sbctl" /\ step = "open" /\ tree = [p \in {<<>>} |-> Directory]
  BY DEF Init, InitArchive, InitDirectory
<1>2. DirectoryAt(<<>>) /\ DOMAIN tree = {<<>>} /\ tree[<<>>].kind = "dir"
  BY <1>1 DEF DirectoryAt, Directory, Node
<1>3. \A q \in Ancestors(<<>>) : FALSE
  BY NothingAboveRoot DEF Ancestors
<1> QED
  BY <1>1, <1>2, <1>3 DEF TreeInv

(* A step that leaves the tree alone.                                      *)
LEMMA TreeKept ==
  ASSUME TreeInv, UNCHANGED <<archive, rootName, tree>>,
         step' \notin {"create", "copy"},
         step' # "failed" => step \notin {"create", "failed"}
  PROVE  TreeInv'
BY DEF TreeInv, DirectoryAt, FilesIn

(* MkdirAll adds what is on the way, and a file is never put where a        *)
(* directory is.                                                           *)
LEMMA TreeStep == TypeOK /\ AtFile /\ TreeInv /\ [Next]_vars => TreeInv'
<1> SUFFICES ASSUME TypeOK, AtFile, TreeInv, [Next]_vars, archive # <<>>,
                    archive' = archive, rootName' = rootName
             PROVE  TreeInv'
  BY InputKept DEF TreeInv
<1> USE DEF At, Goto, unwalked, input, result
<1>1. ASSUME step \in {"mkdir", "create", "copy"}
      PROVE  Entry.path \in Paths /\ Entry.path \notin Ancestors(Entry.path)
  <2>1. archive \in Archives /\ next \in 1..Len(archive)
    BY <1>1, ArchiveLength DEF TypeOK, AtFile
  <2> QED
    BY <2>1, EntryFacts, AncestorIsStrict DEF Entry, EntryType, Ancestors
<1>2. CASE Fail \/ Open \/ BadHeader \/ SkipEntry \/ NextFile \/ EndOfArchive
  <2>1. /\ UNCHANGED tree
        /\ step' \notin {"create", "copy"}
        /\ step' # "failed" => step \notin {"create", "failed"}
    BY <1>2 DEF Fail, Open, BadHeader, SkipEntry, NextFile, EndOfArchive
  <2> QED
    BY <2>1, TreeKept
<1>3. CASE FindClusterData
  <2>1. /\ UNCHANGED tree
        /\ step' \notin {"create", "copy"}
        /\ step' # "failed" => step \notin {"create", "failed"}
    BY <1>3 DEF FindClusterData, Visit, WalkEnds, WalkFails
  <2> QED
    BY <2>1, TreeKept
<1>4. CASE UNCHANGED vars
  BY <1>4 DEF TreeInv, vars, DirectoryAt, FileAt, FilesIn, Entry
<1>5. CASE MkdirAll
  <2>1. CASE UNCHANGED tree /\ step' = "failed"
    BY <2>1, TreeKept
  <2>2. CASE /\ \A p \in Ancestors(Entry.path) : ~FileAt(p)
             /\ step' = "create"
             /\ tree' = [p \in DOMAIN tree \cup Ancestors(Entry.path) |->
                           IF p \in DOMAIN tree THEN tree[p] ELSE Directory]
    <3>1. step = "mkdir" /\ Entry' = Entry
      BY <1>5 DEF MkdirAll, Entry
    <3>2. \A p \in DOMAIN tree : p \in DOMAIN tree' /\ tree'[p] = tree[p]
      BY <2>2
    <3>3. \A p \in DOMAIN tree : DirectoryAt(p) => DirectoryAt(p)'
      BY <3>2 DEF DirectoryAt
    <3>4. \A p \in Ancestors(Entry.path) : DirectoryAt(p)'
      <4> SUFFICES ASSUME NEW p \in Ancestors(Entry.path)
                   PROVE  DirectoryAt(p)'
        OBVIOUS
      <4>1. CASE p \in DOMAIN tree
        <5>1. tree[p].kind = "dir"
          BY <2>2, <4>1 DEF TypeOK, Nodes, FileAt, TreeInv
        <5> QED
          BY <3>3, <4>1, <5>1 DEF DirectoryAt
      <4>2. CASE p \notin DOMAIN tree
        BY <2>2, <4>2 DEF DirectoryAt, Directory, Node
      <4> QED
        BY <4>1, <4>2
    <3>5. FilesIn(tree') = FilesIn(tree)
      BY <2>2 DEF FilesIn, Directory, Node
    <3>6. ASSUME NEW p \in DOMAIN tree', NEW q \in Ancestors(p)
          PROVE  DirectoryAt(q)'
      <4>1. CASE p \in DOMAIN tree
        BY <3>3, <4>1, <3>6 DEF TreeInv, DirectoryAt
      <4>2. CASE p \in Ancestors(Entry.path)
        <5>1. q \in Ancestors(Entry.path)
          BY <1>1, <3>1, <3>6, <4>2, AncestorIsTransitive DEF Ancestors
        <5> QED
          BY <3>4, <5>1
      <4> QED
        BY <2>2, <4>1, <4>2
    <3>7. ASSUME NEW p \in DOMAIN tree' \ (FilesIn(tree') \cup {<<>>})
          PROVE  \/ \E q \in FilesIn(tree') : Ancestor(p, q)
                 \/ Ancestor(p, Entry.path)
      <4>1. CASE p \in DOMAIN tree
        BY <3>1, <3>5, <3>7, <4>1 DEF TreeInv
      <4>2. CASE p \in Ancestors(Entry.path)
        BY <4>2 DEF Ancestors
      <4> QED
        BY <2>2, <3>7, <4>1, <4>2
    <3>8. DirectoryAt(<<>>)'
      BY <3>3 DEF TreeInv, DirectoryAt
    <3>9. Ancestors(Entry.path)' = Ancestors(Entry.path)
      BY <3>1 DEF Ancestors
    <3>10. /\ \A p \in DOMAIN tree' : \A q \in Ancestors(p) : DirectoryAt(q)'
           /\ \A q \in Ancestors(Entry.path) : DirectoryAt(q)'
      BY <3>4, <3>6
    <3>11. \A p \in DOMAIN tree' \ (FilesIn(tree') \cup {<<>>}) :
             \/ \E q \in FilesIn(tree') : Ancestor(p, q)
             \/ Ancestor(p, Entry.path)
      BY <3>7
    <3>12. \A p \in DOMAIN tree' : tree'[p].kind # "link"
      BY <2>2 DEF TreeInv, Directory, Node
    <3> QED
      BY <2>2, <3>1, <3>8, <3>9, <3>10, <3>11, <3>12 DEF TreeInv
  <2> QED
    BY <1>5, <2>1, <2>2 DEF MkdirAll
(* A step that writes the file of the entry at hand, whose parents exist.  *)
<1>6. ASSUME NEW node, node.kind = "file", Put(Entry.path, node),
             step \in {"create", "copy"}, step' \in {"copy", "next", "failed"},
             step' = "copy" => Entry' = Entry,
             ~DirectoryAt(Entry.path),
             \A q \in Ancestors(Entry.path) : DirectoryAt(q)
      PROVE  TreeInv'
  <2> DEFINE path == Entry.path
  <2>1. /\ DOMAIN tree' = DOMAIN tree \cup {path}
        /\ tree'[path] = node
        /\ \A p \in DOMAIN tree : p # path => tree'[p] = tree[p]
    BY <1>6 DEF Put
  <2>2. \A p : DirectoryAt(p) => DirectoryAt(p)'
    BY <1>6, <2>1 DEF DirectoryAt
  <2>3. FilesIn(tree') = FilesIn(tree) \cup {path}
    BY <1>6, <2>1 DEF FilesIn
  <2>4. \A p \in DOMAIN tree' : \A q \in Ancestors(p) : DirectoryAt(q)'
    BY <1>6, <2>1, <2>2 DEF TreeInv
  <2>5. \A p \in DOMAIN tree' \ (FilesIn(tree') \cup {<<>>}) :
          \E q \in FilesIn(tree') : Ancestor(p, q)
    <3> SUFFICES ASSUME NEW p \in DOMAIN tree' \ (FilesIn(tree') \cup {<<>>})
                 PROVE  \E q \in FilesIn(tree') : Ancestor(p, q)
      OBVIOUS
    <3>1. p \in DOMAIN tree \ (FilesIn(tree) \cup {<<>>})
      BY <2>1, <2>3
    <3>2. step # "failed"
      BY <1>6
    <3>3. (\E q \in FilesIn(tree) : Ancestor(p, q)) \/ Ancestor(p, path)
      BY <3>1, <3>2 DEF TreeInv
    <3> QED
      BY <2>3, <3>3
  <2>6. DirectoryAt(<<>>)'
    BY <2>2 DEF TreeInv
  <2>7. step' = "copy" => FileAt(Entry.path)'
    BY <1>6, <2>1 DEF FileAt
  <2>8. \A p : Ancestors(p)' = Ancestors(p)
    BY DEF Ancestors
  <2>9. \A p \in DOMAIN tree' : tree'[p].kind # "link"
    BY <1>6, <2>1 DEF TreeInv
  <2> QED
    BY <1>6, <2>4, <2>5, <2>6, <2>7, <2>8, <2>9 DEF TreeInv
<1>7. CASE CreateFile
  <2>1. CASE UNCHANGED tree /\ step' = "failed"
    BY <2>1, TreeKept
  <2>2. CASE ~DirectoryAt(Entry.path) /\ step' = "copy" /\ Put(Entry.path, File(next, FALSE))
    <3>1. step = "create" /\ Entry' = Entry /\ File(next, FALSE).kind = "file"
      BY <1>7 DEF CreateFile, Entry, File
    <3>2. \A q \in Ancestors(Entry.path) : DirectoryAt(q)
      BY <3>1 DEF TreeInv
    <3> QED
      BY <1>6, <2>2, <3>1, <3>2
  <2> QED
    BY <1>7, <2>1, <2>2 DEF CreateFile
<1>8. CASE Copy
  <2>1. /\ step = "copy" /\ step' \in {"next", "failed"}
        /\ Put(Entry.path, File(next, Entry.whole))
        /\ File(next, Entry.whole).kind = "file"
    BY <1>8 DEF Copy, File
  <2>2. Entry.path \in DOMAIN tree /\ ~DirectoryAt(Entry.path)
    BY <2>1 DEF TreeInv, FileAt, DirectoryAt
  <2>3. \A q \in Ancestors(Entry.path) : DirectoryAt(q)
    BY <2>2 DEF TreeInv
  <2> QED
    BY <1>6, <2>1, <2>2, <2>3
<1> QED
  BY <1>2, <1>3, <1>4, <1>5, <1>7, <1>8, Zenon DEF Next, ExtractBundle

-----------------------------------------------------------------------------
(* The files                                                               *)

(* An entry adds itself to the writers of its path.                        *)
LEMMA WritersOfNext ==
  ASSUME NEW a, NEW n \in Nat, n >= 1, NEW p
  PROVE  WritersIn(a, p, n) = IF a[n].type = "file" /\ a[n].path = p
                              THEN WritersIn(a, p, n - 1) \cup {n}
                              ELSE WritersIn(a, p, n - 1)
<1>1. 1..n = (1..(n - 1)) \cup {n}
  OBVIOUS
<1> QED
  BY <1>1 DEF WritersIn

LEMMA FilesInit == Init => FilesInv
<1> SUFFICES ASSUME Init, archive # <<>>
             PROVE  step = "open" /\ FilesIn(tree) = {} /\ Touched(archive, next - 1) = {}
  BY DEF FilesInv
<1>1. step = "open" /\ tree = [p \in {<<>>} |-> Directory] /\ next = 1
  BY DEF Init, InitArchive, InitDirectory
<1>2. FilesIn(tree) = {}
  BY <1>1 DEF FilesIn, Directory, Node
<1>3. Touched(archive, 0) = {}
  BY DEF Touched, WritersIn
<1> QED
  BY <1>1, <1>2, <1>3

(* The files stay those of the entries before the one at hand.             *)
LEMMA FilesStep ==
  TypeOK /\ AtFile /\ FilesInv /\ [Next]_vars => FilesInv'
<1> SUFFICES ASSUME TypeOK, AtFile, FilesInv, [Next]_vars, archive # <<>>,
                    archive' = archive, step' # "failed"
             PROVE  FilesInv'
  BY InputKept DEF FilesInv
<1> USE DEF At, Goto, unwalked, input, result
<1>1. next \in Nat /\ next >= 1
  BY ArchiveLength DEF TypeOK
<1> DEFINE Settled == {"open", "next", "mkdir", "create", "walk", "found"}
(* A step that writes no file. *)
<1>3. ASSUME step \in Settled, step' \in Settled, UNCHANGED next,
             FilesIn(tree') = FilesIn(tree),
             \A p \in FilesIn(tree) : tree'[p] = tree[p]
      PROVE  FilesInv'
  <2>1. /\ FilesIn(tree') = Touched(archive', next' - 1)
        /\ \A p \in FilesIn(tree') : Written(archive', tree, p, next' - 1)
    BY <1>3 DEF FilesInv
  <2>2. \A p \in FilesIn(tree') : Written(archive', tree', p, next' - 1)
    BY <1>3, <2>1 DEF Written
  <2> QED
    BY <1>3, <2>1, <2>2 DEF FilesInv
<1>4. CASE Open \/ NextFile \/ EndOfArchive
  <2>1. step \in Settled /\ step' \in Settled /\ UNCHANGED <<next, tree>>
    BY <1>4 DEF Open, NextFile, EndOfArchive
  <2> QED
    BY <1>3, <2>1
<1>11. CASE FindClusterData
  <2>1. step \in Settled /\ step' \in Settled /\ UNCHANGED <<next, tree>>
    BY <1>11 DEF FindClusterData, Visit, WalkEnds, WalkFails
  <2> QED
    BY <1>3, <2>1
<1>12. CASE BadHeader \/ Fail
  BY <1>12 DEF BadHeader, Fail
<1>5. CASE UNCHANGED vars
  BY <1>5 DEF vars, FilesInv, Entry
<1>6. CASE MkdirAll
  <2>1. /\ step = "mkdir" /\ step' = "create" /\ UNCHANGED next
        /\ tree' = [p \in DOMAIN tree \cup Ancestors(Entry.path) |->
                      IF p \in DOMAIN tree THEN tree[p] ELSE Directory]
    BY <1>6 DEF MkdirAll
  <2>2. /\ FilesIn(tree') = FilesIn(tree)
        /\ \A p \in FilesIn(tree) : tree'[p] = tree[p]
    BY <2>1 DEF FilesIn, Directory, Node
  <2> QED
    BY <1>3, <2>1, <2>2
<1>7. CASE SkipEntry
  <2>1. /\ step = "next" /\ step' = "next" /\ next' = next + 1 /\ UNCHANGED tree
        /\ archive[next].type = "other"
    BY <1>7 DEF SkipEntry, Entry
  <2>2. \A p : WritersIn(archive, p, next) = WritersIn(archive, p, next - 1)
    BY <1>1, <2>1, WritersOfNext
  <2>3. Touched(archive, next) = Touched(archive, next - 1)
    BY <2>2 DEF Touched
  <2>4. /\ FilesIn(tree) = Touched(archive, next)
        /\ \A p \in FilesIn(tree) : Written(archive, tree, p, next)
    BY <2>1, <2>2, <2>3 DEF FilesInv, Written
  <2>5. next' - 1 = next
    BY <1>1, <2>1
  <2> QED
    BY <2>1, <2>4, <2>5 DEF FilesInv
(* What putting a file at the path of the entry does to the files. *)
<1>8. ASSUME NEW node, node.kind = "file", Put(Entry.path, node)
      PROVE  /\ FilesIn(tree') = FilesIn(tree) \cup {Entry.path}
             /\ tree'[Entry.path] = node
             /\ \A p \in FilesIn(tree) \ {Entry.path} : tree'[p] = tree[p]
  BY <1>8 DEF Put, FilesIn
<1>9. CASE CreateFile
  <2>1. /\ step = "create" /\ step' = "copy" /\ UNCHANGED next
        /\ Put(Entry.path, File(next, FALSE)) /\ File(next, FALSE).kind = "file"
        /\ Entry' = Entry
    BY <1>9 DEF CreateFile, File, Entry
  <2>2. /\ FilesIn(tree') = FilesIn(tree) \cup {Entry.path}
        /\ \A p \in FilesIn(tree) \ {Entry.path} : tree'[p] = tree[p]
    BY <1>8, <2>1
  <2>3. \A p \in FilesIn(tree') \ {Entry.path} : Written(archive, tree', p, next - 1)
    <3>1. \A p \in FilesIn(tree) : Written(archive, tree, p, next - 1)
      BY <2>1 DEF FilesInv
    <3> QED
      BY <2>2, <3>1 DEF Written
  <2>4. FilesIn(tree') = Touched(archive, next - 1) \cup {Entry.path}
    BY <2>1, <2>2 DEF FilesInv
  <2> QED
    BY <2>1, <2>3, <2>4 DEF FilesInv
<1>10. CASE Copy
  <2>1. /\ step = "copy" /\ step' = "next" /\ next' = next + 1 /\ Entry.whole
        /\ Put(Entry.path, File(next, Entry.whole)) /\ File(next, Entry.whole).kind = "file"
        /\ File(next, Entry.whole).entry = next /\ File(next, Entry.whole).whole = Entry.whole
    BY <1>10 DEF Copy, File
  <2>2. archive[next].type = "file" /\ archive[next].path = Entry.path /\ Entry.path \in Paths
    <3>1. archive \in Archives /\ next \in 1..Len(archive)
      BY <1>1, <2>1, ArchiveLength DEF TypeOK, AtFile
    <3> QED
      BY <2>1, <3>1, EntryFacts DEF AtFile, Entry, EntryType
  <2>3. /\ \A p : p # Entry.path =>
              WritersIn(archive, p, next) = WritersIn(archive, p, next - 1)
        /\ WritersIn(archive, Entry.path, next) =
              WritersIn(archive, Entry.path, next - 1) \cup {next}
    BY <1>1, <2>2, WritersOfNext
  <2>4. Touched(archive, next) = Touched(archive, next - 1) \cup {Entry.path}
    BY <2>2, <2>3 DEF Touched
  <2>5. /\ FilesIn(tree') = FilesIn(tree) \cup {Entry.path}
        /\ tree'[Entry.path] = File(next, Entry.whole)
        /\ \A p \in FilesIn(tree) \ {Entry.path} : tree'[p] = tree[p]
    BY <1>8, <2>1
  <2>6. FilesIn(tree') = Touched(archive, next)
    BY <2>1, <2>4, <2>5 DEF FilesInv
  <2>7. ASSUME NEW p \in FilesIn(tree')
        PROVE  Written(archive, tree', p, next)
    <3>1. CASE p = Entry.path
      <4>1. \A i \in WritersIn(archive, p, next) : i <= next
        BY <1>1 DEF WritersIn
      <4> QED
        BY <2>1, <2>3, <2>5, <3>1, <4>1 DEF Written
    <3>2. CASE p # Entry.path
      <4>1. Written(archive, tree, p, next - 1)
        BY <2>1, <2>5, <2>7, <3>2 DEF FilesInv
      <4> QED
        BY <2>3, <2>5, <2>7, <3>2, <4>1 DEF Written
    <3> QED
      BY <3>1, <3>2
  <2>8. next' - 1 = next
    BY <1>1, <2>1
  <2> QED
    BY <2>1, <2>6, <2>7, <2>8 DEF FilesInv
<1> QED
  BY <1>4, <1>5, <1>6, <1>7, <1>9, <1>10, <1>11, <1>12, Zenon
  DEF Next, ExtractBundle

-----------------------------------------------------------------------------
(* Sound archives                                                          *)

LEMMA SoundInit == Init => SoundInv
BY DEF Init, InitArchive, InitDirectory, SoundInv

(* An extraction that fails for what is in the archive.                    *)
LEMMA FailsIfNotSound ==
  ASSUME TypeOK, AtFile, TreeInv, FilesInv, archive # <<>>,
         BadHeader \/ NextFile \/ MkdirAll \/ CreateFile \/ Copy, step' = "failed"
  PROVE  ~Sound(archive)
<1> USE DEF At, Goto
<1>1. next \in DOMAIN archive /\ archive[next] = Entry /\ archive \in Archives
  <2>1. next \in Nat /\ next >= 1 /\ next <= Len(archive)
    BY ArchiveLength DEF TypeOK, AtFile, BadHeader, NextFile, MkdirAll, CreateFile, Copy
  <2>2. archive \in Archives /\ DOMAIN archive = 1..Len(archive)
    BY ArchivesAssumption DEF TypeOK
  <2> QED
    BY <2>1, <2>2 DEF Entry
<1>2. CASE BadHeader
  BY <1>1, <1>2 DEF BadHeader, Sound
<1>3. CASE NextFile
  BY <1>1, <1>3 DEF NextFile, Sound
<1>4. CASE Copy
  BY <1>1, <1>4 DEF Copy, Sound, AtFile
(* Each file of the tree is one of the archive's. *)
<1>5. ASSUME step \in {"mkdir", "create"}, NEW p \in FilesIn(tree)
      PROVE  \E i \in DOMAIN archive : archive[i].type = "file" /\ archive[i].path = p
  <2>1. PICK i \in 1..(next - 1) : archive[i].type = "file" /\ archive[i].path = p
    BY <1>5 DEF FilesInv, Touched, WritersIn
  <2>2. i \in DOMAIN archive
    BY <1>1, ArchivesAssumption
  <2> QED
    BY <2>1, <2>2
<1>6. CASE MkdirAll
  <2>1. PICK p \in Ancestors(Entry.path) : FileAt(p)
    BY <1>6 DEF MkdirAll
  <2>2. step = "mkdir" /\ p \in FilesIn(tree) /\ Ancestor(p, Entry.path)
    BY <1>6, <2>1 DEF MkdirAll, FileAt, FilesIn, Ancestors
  <2> QED
    BY <1>1, <1>5, <2>2 DEF Sound, AtFile
<1>7. CASE CreateFile
  <2>1. step = "create" /\ DirectoryAt(Entry.path)
    BY <1>7 DEF CreateFile
  <2>2. CASE Entry.path = <<>>
    BY <1>1, <2>1, <2>2 DEF Sound, AtFile
  <2>3. CASE Entry.path # <<>>
    <3>1. Entry.path \in DOMAIN tree \ (FilesIn(tree) \cup {<<>>})
      BY <2>1, <2>3 DEF DirectoryAt, FilesIn
    <3>2. PICK q \in FilesIn(tree) : Ancestor(Entry.path, q)
      BY <2>1, <3>1, AncestorIsStrict DEF TreeInv
    <3> QED
      BY <1>1, <1>5, <2>1, <3>2 DEF Sound, AtFile
  <2> QED
    BY <2>2, <2>3
<1> QED
  BY <1>2, <1>3, <1>4, <1>6, <1>7

(* An entry that is done was sound; one that fails is a reason.            *)
LEMMA SoundStep ==
  TypeOK /\ AtFile /\ TreeInv /\ FilesInv /\ SoundInv /\ [Next]_vars => SoundInv'
<1> SUFFICES ASSUME TypeOK, AtFile, TreeInv, FilesInv, SoundInv, [Next]_vars,
                    archive # <<>>, archive' = archive
             PROVE  SoundInv'
  BY InputKept DEF SoundInv
<1> USE DEF At, Goto, unwalked, input, result
<1>1. next \in Nat /\ next >= 1 /\ next <= Len(archive) + 1 /\ Len(archive) \in Nat
  BY ArchiveLength DEF TypeOK
<1> DEFINE Good(i) ==
      /\ archive[i].type # "bad"
      /\ archive[i].type = "file" =>
           archive[i].local /\ archive[i].whole /\ archive[i].path # <<>>
(* A step within an entry. *)
<1>2. ASSUME UNCHANGED next, step' \notin {"copy", "walk", "found"},
             step' = "failed" /\ ~ioFailed' => ~Sound(archive)
      PROVE  SoundInv'
  BY <1>2 DEF SoundInv
(* A step to the next entry. *)
<1>3. ASSUME next' = next + 1, step' \notin {"copy", "walk", "found", "failed"}, Good(next)
      PROVE  SoundInv'
  <2>1. \A i \in 1..(next' - 1) : Good(i)
    BY <1>1, <1>3 DEF SoundInv
  <2> QED
    BY <1>3, <2>1 DEF SoundInv
<1>4. CASE Fail \/ Open
  BY <1>2, <1>4 DEF Fail, Open
<1>5. CASE BadHeader \/ NextFile \/ MkdirAll
  <2>1. UNCHANGED next /\ step' \notin {"copy", "walk", "found"}
    BY <1>5 DEF BadHeader, NextFile, MkdirAll
  <2>2. step' = "failed" => ~Sound(archive)
    BY <1>5, FailsIfNotSound
  <2> QED
    BY <1>2, <2>1, <2>2
<1>6. CASE CreateFile
  <2>1. UNCHANGED next /\ step' \in {"copy", "failed"} /\ Entry' = Entry
    BY <1>6 DEF CreateFile, Entry
  <2>2. step' = "failed" => ~Sound(archive)
    BY <1>6, FailsIfNotSound
  <2>3. step' = "copy" => Entry.path # <<>>
    BY <1>6 DEF CreateFile, TreeInv
  <2> QED
    BY <2>1, <2>2, <2>3 DEF SoundInv
<1>7. CASE Copy
  <2>1. CASE step' = "failed"
    <3>1. UNCHANGED next
      BY <1>7, <2>1 DEF Copy
    <3>2. ~Sound(archive)
      BY <1>7, <2>1, FailsIfNotSound
    <3> QED
      BY <1>2, <2>1, <3>1, <3>2
  <2>2. CASE step' = "next"
    <3>1. next' = next + 1 /\ step = "copy" /\ Entry.whole
      BY <1>7, <2>2 DEF Copy
    <3>2. Good(next)
      BY <3>1 DEF AtFile, SoundInv, Entry
    <3> QED
      BY <1>3, <2>2, <3>1, <3>2
  <2> QED
    BY <1>7, <2>1, <2>2 DEF Copy
<1>8. CASE SkipEntry
  <2>1. next' = next + 1 /\ step = "next" /\ step' = "next" /\ archive[next].type = "other"
    BY <1>8 DEF SkipEntry, Entry
  <2> QED
    BY <1>3, <2>1
<1>9. CASE EndOfArchive
  BY <1>1, <1>9 DEF EndOfArchive, SoundInv
<1>10. CASE FindClusterData
  <2>1. UNCHANGED next /\ step = "walk" /\ step' \in {"walk", "found", "failed"}
        /\ (step' = "failed" => ioFailed')
    BY <1>10 DEF FindClusterData, Visit, WalkEnds, WalkFails
  <2> QED
    BY <2>1 DEF SoundInv
<1>11. CASE UNCHANGED vars
  BY <1>11 DEF vars, SoundInv, Entry
<1> QED
  BY <1>4, <1>5, <1>6, <1>7, <1>8, <1>9, <1>10, <1>11, Zenon DEF Next, ExtractBundle

-----------------------------------------------------------------------------
(* Theorems                                                                *)

BundleInv == TypeOK /\ AtFile /\ WalkInv /\ TreeInv /\ FilesInv /\ SoundInv

(* All of the invariants hold in every behaviour.                          *)
LEMMA BundleAlways == Spec => []BundleInv
<1>1. Init => BundleInv
  BY TypeInit, WalkInit, TreeInit, FilesInit, SoundInit
  DEF BundleInv, Init, InitArchive, InitDirectory, AtFile
<1>2. BundleInv /\ [Next]_vars => BundleInv'
  BY TypeStep, AtFileStep, WalkStep, TreeStep, FilesStep, SoundStep, Zenon DEF BundleInv
<1> QED
  BY <1>1, <1>2, PTL DEF Spec

(* Whatever the archive repeats, skips or nests, what is on disk after     *)
(* each of its entries is what the entries so far say.                     *)
THEOREM ExtractionIsTheArchive == Spec => []ExtractedSoFar
<1>1. BundleInv => ExtractedSoFar
  <2> SUFFICES ASSUME BundleInv, archive # <<>>, step \in {"next", "walk", "found"}
               PROVE  ExtractedSoFar
    BY DEF ExtractedSoFar
  <2>1. /\ FilesIn(tree) = Touched(archive, next - 1)
        /\ \A p \in FilesIn(tree) : Written(archive, tree, p, next - 1)
    BY DEF BundleInv, FilesInv
  <2>2. \A p \in DOMAIN tree \ (FilesIn(tree) \cup {<<>>}) :
          \E q \in FilesIn(tree) : Ancestor(p, q)
    BY DEF BundleInv, TreeInv
  <2>3. \A p : Writers(p, next - 1) = WritersIn(archive, p, next - 1)
    BY DEF Writers, WritersIn
  <2> QED
    BY <2>1, <2>2, <2>3 DEF ExtractedSoFar, Touched, Written
<1> QED
  BY <1>1, BundleAlways, PTL

(* Only what is wrong with an archive, or a failing disk, stops its        *)
(* extraction, and what is wrong with it always does.                      *)
THEOREM ExtractionFailsIfUnsound == Spec => []ExtractsIffSound
<1>1. BundleInv => ExtractsIffSound
  <2> SUFFICES ASSUME BundleInv, archive # <<>>, step \in {"walk", "found"}
               PROVE  Sound(archive)
    BY DEF ExtractsIffSound, BundleInv, SoundInv
  <2>1. next = Len(archive) + 1 /\ archive \in Archives /\ archive \in Seq(EntryType)
    BY ArchivesAssumption DEF BundleInv, SoundInv, TypeOK
  <2>2. DOMAIN archive = 1..(next - 1) /\ \A i \in DOMAIN archive : archive[i] \in EntryType
    BY <2>1
  <2>3. ASSUME NEW i \in DOMAIN archive, NEW j \in DOMAIN archive,
               archive[i].type = "file", archive[j].type = "file"
        PROVE  ~Ancestor(archive[i].path, archive[j].path)
    <3>1. archive[i].path \in Paths /\ archive[j].path \in Paths
      BY <2>2 DEF EntryType
    <3>2. archive[i].path \in FilesIn(tree) /\ archive[j].path \in FilesIn(tree)
      BY <2>2, <2>3, <3>1 DEF BundleInv, FilesInv, Touched, WritersIn
    <3>3. Ancestor(archive[i].path, archive[j].path) => DirectoryAt(archive[i].path)
      BY <3>1, <3>2 DEF BundleInv, TreeInv, FilesIn, Ancestors
    <3> QED
      BY <3>2, <3>3 DEF FilesIn, DirectoryAt
  <2>4. \A i \in DOMAIN archive :
          /\ archive[i].type # "bad"
          /\ archive[i].type = "file" =>
               archive[i].local /\ archive[i].whole /\ archive[i].path # <<>>
    BY <2>2 DEF BundleInv, SoundInv
  <2> QED
    BY <2>3, <2>4 DEF Sound
<1> QED
  BY <1>1, BundleAlways, PTL

(* A search of what was extracted finds cluster resources if and only if a *)
(* regular file of the archive lies below a directory of that name; one of *)
(* a directory of the user's, if and only if a directory has that name and *)
(* is not behind a link.                                                   *)
THEOREM SearchFindsWhatIsThere == Spec => []FoundIffThere
<1>1. BundleInv => FoundIffThere
  <2> SUFFICES ASSUME BundleInv, step = "found"
               PROVE  clusterResourcesDir # NoPath <=> HasClusterResources
    BY DEF FoundIffThere
  <2>1. clusterResourcesDir # NoPath <=> Candidates # {}
    BY DEF BundleInv, WalkInv
  <2>2. DOMAIN tree \subseteq Paths
    BY DEF BundleInv, TypeOK
  <2>3. CASE archive = <<>>
    <3>1. Candidates = {p \in DOMAIN tree :
                         /\ DirectoryAt(p) /\ Name(p) = "cluster-resources"
                         /\ \A q \in DOMAIN tree : Ancestor(q, p) => ~LinkAt(q)}
      BY <2>2 DEF Candidates, ClusterResources, Reached, Ancestors, LinkAt
    <3> QED
      BY <2>1, <2>3, <3>1 DEF HasClusterResources
  <2>4. CASE archive # <<>>
    <3>1. /\ Candidates = ClusterResources
          /\ rootName # "cluster-resources"
          /\ \A p \in DOMAIN tree : \A q \in Ancestors(p) : DirectoryAt(q)
          /\ \A p \in DOMAIN tree \ (FilesIn(tree) \cup {<<>>}) :
               \E q \in FilesIn(tree) : Ancestor(p, q)
      BY <2>4 DEF BundleInv, TreeInv, Candidates, ClusterResources, Reached, LinkAt
    <3>2. /\ next = Len(archive) + 1 /\ FilesIn(tree) = Touched(archive, next - 1)
          /\ archive \in Archives /\ archive \in Seq(EntryType)
      BY <2>4, ArchivesAssumption DEF BundleInv, SoundInv, FilesInv, TypeOK
    <3>3. /\ DOMAIN archive = 1..(next - 1)
          /\ \A i \in DOMAIN archive : archive[i].path \in Paths
      <4>1. /\ Len(archive) \in Nat /\ DOMAIN archive = 1..Len(archive)
            /\ \A i \in 1..Len(archive) : archive[i] \in EntryType
        BY <3>2, LenProperties, ElementOfSeq
      <4>2. next - 1 = Len(archive)
        BY <3>2, <4>1
      <4> QED
        BY <4>1, <4>2 DEF EntryType
    <3>4. FilesIn(tree) = {archive[i].path : i \in {j \in DOMAIN archive : archive[j].type = "file"}}
      BY <3>2, <3>3 DEF Touched, WritersIn
    <3>5. ASSUME NEW d \in ClusterResources
          PROVE  HasClusterResources
      <4>1. d \in DOMAIN tree /\ d \in Paths /\ DirectoryAt(d)
            /\ Name(d) = "cluster-resources"
        BY <2>2 DEF ClusterResources
      <4>2. d # <<>> /\ Last(d) = "cluster-resources"
        BY <3>1, <4>1 DEF Name
      <4>3. PICK q \in FilesIn(tree) : Ancestor(d, q)
        BY <3>1, <4>1, <4>2 DEF DirectoryAt, FilesIn
      <4>4. PICK i \in DOMAIN archive : archive[i].type = "file" /\ archive[i].path = q
        BY <3>4
      <4> QED
        BY <2>4, <4>1, <4>2, <4>3, <4>4 DEF HasClusterResources, Below, Ancestors
    <3>6. ASSUME HasClusterResources
          PROVE  ClusterResources # {}
      <4>1. PICK i \in DOMAIN archive :
              archive[i].type = "file" /\ Below(archive[i].path, "cluster-resources")
        BY <2>4, <3>6 DEF HasClusterResources
      <4>2. PICK q \in Ancestors(archive[i].path) \ {<<>>} : Last(q) = "cluster-resources"
        BY <4>1 DEF Below
      <4>3. archive[i].path \in FilesIn(tree)
        BY <3>4, <4>1
      <4>4. DirectoryAt(q)
        BY <3>1, <4>2, <4>3 DEF FilesIn
      <4> QED
        BY <4>2, <4>4 DEF ClusterResources, DirectoryAt, Name
    <3> QED
      BY <2>1, <3>1, <3>5, <3>6
  <2> QED
    BY <2>3, <2>4
<1> QED
  BY <1>1, BundleAlways, PTL
=============================================================================
