-------------------------- MODULE ApiServerComplete --------------------------
(***************************************************************************)
(* The proof that a list answered by ApiServer holds every selected object *)
(* of every expected file that still exists (ListCoversSurvivors).         *)
(*                                                                         *)
(* The argument follows a handler through its steps.  Expected(rq) only    *)
(* shrinks.  The handler settles on the directory of the expected files    *)
(* (Looks), os.ReadDir finds all of them, and from then on each of them is *)
(* still in todo, is the file being read, or has been merged (Merging); a  *)
(* handler of one file reads the only one there can be (OnlyFile).         *)
(***************************************************************************)
EXTENDS ApiServerProofs

(* A directory exists as long as a file in it does, and before the cleanup *)
(* all of them exist.                                                      *)
StorageInv ==
  /\ \A p \in files : p.ns # 0 => p.dir \in dirs
  /\ ~cleaning => dirs = bundle.dirs

Known(rq) == rq.resource \in DOMAIN DirResources(rq.route)
KnownType(rq) == DirResources(rq.route)[rq.resource]

(* The directory a list handler has settled on is that of the expected     *)
(* files, and what it knows of the resource before it reads the directory. *)
Looks(c) ==
  /\ pc[c] \in {"readdir", "loop", "stat", "read"} /\ req[c].route \in Lists
       => \A p \in Expected(req[c]) : p.dir = dir[c]
  /\ pc[c] \in {"probedir", "readdir"} =>
       req[c].resource \notin DOMAIN FileResources(req[c].route)
  /\ pc[c] = "probedir" => ~Known(req[c])
  /\ pc[c] \in {"probedir", "readdir"} /\ ~Known(req[c])
       => req[c].route = "ApisList"
  /\ pc[c] = "readdir" /\ Known(req[c]) => result[c].type = KnownType(req[c])
  /\ pc[c] = "probefile" => req[c].route \notin SelectingRoutes

(* A handler that answers from one file has the only expected one. *)
OnlyFile(c) ==
  /\ req[c].route \in NamespaceLists /\ pc[c] \in {"stat", "read"}
       => \A p \in Expected(req[c]) : p = CurrentFile(c)
  /\ req[c].route \in ClusterLists /\ single[c] /\ pc[c] = "loop"
       => \A p \in Expected(req[c]) : todo[c] = {p.ns}
  /\ req[c].route \in ClusterLists /\ single[c] /\ pc[c] = "read"
       => \A p \in Expected(req[c]) : p = CurrentFile(c)

(* A handler that merges several files has lost none of them. *)
Covers(c, p) == bundle.data[p].items \cap Selected(req[c]) \subseteq result[c].items

MergingOne(c, p) ==
  /\ Known(req[c])
  /\ result[c].type = KnownType(req[c])
  /\ \A q \in HomeFiles(req[c]) :
       Decode(req[c].resource, bundle.data[q]).type = KnownType(req[c])
  /\ todo[c] \subseteq HomeNumbers(req[c])
  /\ pc[c] = "read" => ns[c] \in HomeNumbers(req[c])
  /\ \/ p.ns \in todo[c]
     \/ pc[c] = "read" /\ p = CurrentFile(c)
     \/ Covers(c, p)

Merging(c) ==
  /\ req[c].route \in ClusterLists /\ ~single[c]
  /\ pc[c] \in {"loop", "read"} /\ Mergeable(req[c])
  => \A p \in Expected(req[c]) : MergingOne(c, p)

Answered(c) ==
  Listed(c) /\ Mergeable(req[c]) =>
    \A p \in Expected(req[c]) :
      bundle.data[p].items \cap Selected(req[c]) \subseteq resp[c].value.items

Complete(c) == Looks(c) /\ OnlyFile(c) /\ Merging(c) /\ Answered(c)
CompleteInv == StorageInv /\ \A c \in Clients : Complete(c)

-----------------------------------------------------------------------------
LEMMA StorageStep ==
  ASSUME TypeOK, StorageInv, [Next]_vars
  PROVE  StorageInv'
<1>1. bundle' = bundle
  BY Frame
<1>2. CASE Cleanup
  BY <1>1, <1>2
  DEF StorageInv, Cleanup, StartCleanup, RemoveFile, RemoveDir, Exit
<1>3. ASSUME NEW c \in Clients, Handle(c)
      PROVE  StorageInv'
  BY <1>3, HandleFrame DEF StorageInv, storage
<1>4. CASE UNCHANGED vars
  BY <1>4 DEF StorageInv, vars, storage
<1> QED BY <1>2, <1>3, <1>4 DEF Next

(* What depends on the bundle and the request alone does not change. *)
LEMMA BundleFrame ==
  ASSUME [Next]_vars, NEW c \in Clients
  PROVE  /\ HomeFiles(req[c])' = HomeFiles(req[c])
         /\ HomeNumbers(req[c])' = HomeNumbers(req[c])
         /\ Home(req[c])' = Home(req[c])
         /\ Mergeable(req[c])' = Mergeable(req[c])
         /\ Selected(req[c])' = Selected(req[c])
         /\ Known(req[c])' = Known(req[c])
         /\ KnownType(req[c])' = KnownType(req[c])
<1>1. bundle' = bundle /\ req' = req
  BY Frame
<1>2. Home(req[c])' = Home(req[c])
  BY <1>1 DEF Home, Stored, BaseDir, CustomDir
<1>3. HomeNumbers(req[c])' = HomeNumbers(req[c])
  BY <1>1, <1>2 DEF HomeNumbers, NamespacesOf, Stored
<1>4. HomeFiles(req[c])' = HomeFiles(req[c])
  BY <1>1, <1>2, <1>3 DEF HomeFiles
<1>5. Mergeable(req[c])' = Mergeable(req[c])
  BY <1>1, <1>4 DEF Mergeable
<1>6. /\ Selected(req[c])' = Selected(req[c])
      /\ Known(req[c])' = Known(req[c])
      /\ KnownType(req[c])' = KnownType(req[c])
  BY <1>1 DEF Selected, Known, KnownType
<1> QED BY <1>2, <1>3, <1>4, <1>5, <1>6

LEMMA ExpectedShrinks ==
  ASSUME TypeOK, [Next]_vars, NEW c \in Clients
  PROVE  Expected(req[c])' \subseteq Expected(req[c])
<1>1. bundle' = bundle /\ HomeFiles(req[c])' = HomeFiles(req[c])
  BY Frame, BundleFrame
<1>2. files' \subseteq files /\ (cleaning => cleaning')
  <2>1. CASE Cleanup
    BY <2>1 DEF Cleanup, StartCleanup, RemoveFile, RemoveDir, Exit
  <2>2. ASSUME NEW d \in Clients, Handle(d)
        PROVE  files' \subseteq files /\ (cleaning => cleaning')
    BY <2>2, HandleFrame DEF storage
  <2>3. CASE UNCHANGED vars
    BY <2>3 DEF vars, storage
  <2> QED BY <2>1, <2>2, <2>3 DEF Next
<1> QED BY <1>1, <1>2 DEF Expected

(* What is known of an expected file. *)
LEMMA ExpectedFacts ==
  ASSUME TypeOK, NEW rq \in Requests, NEW p \in Expected(rq)
  PROVE  /\ p \in files /\ p \in HomeFiles(rq) /\ p \in DOMAIN bundle.data
         /\ p.dir = Home(rq) /\ p.ns \in HomeNumbers(rq)
         /\ p.ns \in Namespaces \cup {0}
         /\ p = [dir |-> p.dir, ns |-> p.ns]
         /\ cleaning => p.ns # 0 \/ p.dir \notin bundle.dirs
BY BundlesAssumption DEF Expected, HomeFiles, TypeOK

-----------------------------------------------------------------------------
(* The steps of one handler *)

(* ProbeDir settles on the directory of the expected files. *)
LEMMA ProbeDirLooks ==
  ASSUME TypeOK, StorageInv, NEW c \in Clients, Where(c), Looks(c), ProbeDir(c),
         NEW p \in Expected(req[c])
  PROVE  p.dir = dir'[c]
<1> DEFINE rq == req[c]
<1>1. /\ rq \in Requests /\ rq.route = "ApisList" /\ dir[c] = BaseDir(rq)
      /\ ~Known(rq) /\ rq.resource \notin DOMAIN FileResources(rq.route)
  BY DEF TypeOK, ProbeDir, At, Where, Looks
<1>2. Home(rq) = IF BaseDir(rq) \in bundle.dirs THEN BaseDir(rq) ELSE CustomDir(rq)
  BY <1>1 DEF Home, Known, DirResources, FileResources
<1>3. dir'[c] = IF BaseDir(rq) \in dirs THEN BaseDir(rq) ELSE CustomDir(rq)
  BY <1>1 DEF ProbeDir, TypeOK
<1>4. /\ p.dir = Home(rq) /\ p \in files
      /\ cleaning => p.ns # 0 \/ p.dir \notin bundle.dirs
  BY <1>1, ExpectedFacts
<1>5. dirs \subseteq bundle.dirs
  BY DEF TypeOK
<1> HIDE DEF rq
<1> QED
  BY <1>2, <1>3, <1>4, <1>5 DEF StorageInv

(* ProbeFile settles on the expected file. *)
LEMMA ProbeFileLooks ==
  ASSUME TypeOK, NEW c \in Clients, Where(c), Looks(c), ProbeFile(c),
         req[c].route \in Lists, NEW p \in Expected(req[c])
  PROVE  p.dir = dir'[c] /\ p.ns = ns[c]
<1> DEFINE rq == req[c]
<1>1. /\ rq \in Requests /\ rq.route = "ApisNsList" /\ dir[c] = BaseDir(rq)
      /\ ns[c] = rq.ns
  BY DEF TypeOK, ProbeFile, At, Where, Looks, Lists, ClusterLists,
         NamespaceLists, SelectingRoutes
<1>2. Home(rq) = IF Stored(BaseDir(rq), rq.ns) THEN BaseDir(rq) ELSE CustomDir(rq)
  BY <1>1 DEF Home
<1>3. dir'[c] = IF [dir |-> BaseDir(rq), ns |-> rq.ns] \in files
                  THEN BaseDir(rq) ELSE CustomDir(rq)
  BY <1>1 DEF ProbeFile, TypeOK, FileExists, CurrentFile
<1>4. /\ p.dir = Home(rq) /\ p \in files /\ p.ns \in HomeNumbers(rq)
      /\ p = [dir |-> p.dir, ns |-> p.ns]
  BY <1>1, ExpectedFacts
<1>5. p.ns = rq.ns
  BY <1>1, <1>4 DEF HomeNumbers, ClusterLists
<1>6. [dir |-> BaseDir(rq), ns |-> rq.ns] \in files => Stored(BaseDir(rq), rq.ns)
  BY DEF TypeOK, Stored
<1> HIDE DEF rq
<1> QED
  BY <1>1, <1>2, <1>3, <1>4, <1>5, <1>6

(* Reading the directory finds every expected file. *)
LEMMA ReadDirFindsAll ==
  ASSUME TypeOK, StorageInv, NEW c \in Clients, Where(c), Looks(c), ReadDir(c),
         NEW p \in Expected(req[c])
  PROVE  /\ p.ns \in todo'[c]
         /\ ~single'[c] => /\ todo'[c] \subseteq HomeNumbers(req[c])
                          /\ \A n \in todo'[c] :
                               [dir |-> Home(req[c]), ns |-> n] \in HomeFiles(req[c])
         /\ single'[c] <=> \E n \in todo'[c] : todo'[c] = {n}
<1> DEFINE rq == req[c]
           found == IF dir[c] \in dirs THEN JSONFilesOf(dir[c]) ELSE {}
           names == IF found = {} /\ ~Known(rq) THEN {0} ELSE found
<1>1. /\ todo'[c] = names
      /\ single'[c] = (\E n \in names : names = {n})
      /\ Known(rq) => dir[c] \in dirs
  BY DEF ReadDir, TypeOK, Known
<1>2. /\ rq \in Requests /\ rq.route \in ClusterLists /\ rq.route \in Lists
      /\ rq.resource \notin DOMAIN FileResources(rq.route)
      /\ ~Known(rq) => rq.route = "ApisList"
  BY DEF TypeOK, ReadDir, At, Where, Looks, Lists
<1>3. /\ p \in files /\ p = [dir |-> p.dir, ns |-> p.ns]
      /\ p.dir = Home(rq) /\ p.ns \in HomeNumbers(rq)
      /\ p.ns \in Namespaces \cup {0}
  BY <1>2, ExpectedFacts
<1>4. p.dir = dir[c]
  BY <1>2 DEF Looks, ReadDir, At
<1>5. HomeNumbers(rq) = IF Known(rq) THEN NamespacesOf(rq)
                        ELSE IF NamespacesOf(rq) = {} THEN {0}
                        ELSE NamespacesOf(rq)
  BY <1>2 DEF HomeNumbers, Known
<1>6. 0 \notin Namespaces
  BY NamespacesAssumption
<1>7. JSONFilesOf(dir[c]) \subseteq NamespacesOf(rq)
  BY <1>3, <1>4 DEF JSONFilesOf, NamespacesOf, Stored, TypeOK
<1>8. NamespacesOf(rq) \subseteq Namespaces
  BY DEF NamespacesOf
<1>9. CASE p.ns # 0
  <2>1. p.ns \in found
    BY <1>3, <1>4, <1>9 DEF JSONFilesOf, StorageInv
  <2>2. names = found /\ found \subseteq NamespacesOf(rq)
    BY <1>7, <2>1
  <2>3. HomeNumbers(rq) = NamespacesOf(rq)
    BY <1>3, <1>5, <1>9
  <2>4. \A n \in NamespacesOf(rq) : [dir |-> Home(rq), ns |-> n] \in HomeFiles(rq)
    BY <2>3 DEF NamespacesOf, Stored, HomeFiles
  <2> HIDE DEF found
  <2> QED BY <1>1, <2>1, <2>2, <2>3, <2>4
<1>10. CASE p.ns = 0
  <2>1. ~Known(rq) /\ NamespacesOf(rq) = {}
    BY <1>3, <1>5, <1>6, <1>8, <1>10
  <2>2. names = {0}
    BY <1>7, <2>1
  <2> QED BY <1>1, <1>10, <2>2
<1> QED BY <1>9, <1>10

(* Resources the switch knows are looked up in the base directory only. *)
LEMMA HomeIsBase ==
  ASSUME NEW rq \in Requests,
         \/ rq.route \in SelectingRoutes
         \/ /\ rq.route = "ApisList"
            /\ Known(rq) \/ rq.resource \in DOMAIN FileResources(rq.route)
  PROVE  Home(rq) = BaseDir(rq)
BY DEF Home, SelectingRoutes, Known, DirResources, FileResources

LEMMA TablesDisjoint ==
  ASSUME NEW rq \in Requests, Known(rq)
  PROVE  rq.resource \notin DOMAIN FileResources(rq.route)
<1>1. CASE rq.route = "V1List"
  BY <1>1 DEF Known, DirResources, FileResources, V1DirResources, V1FileResources
<1>2. CASE rq.route # "V1List"
  BY <1>2
  DEF Known, DirResources, FileResources, ApisDirResources, ApisFileResources
<1> QED BY <1>1, <1>2

LEMMA LooksStep ==
  ASSUME TypeOK, StorageInv, NEW c \in Clients, Where(c), Looks(c), Handle(c)
  PROVE  Looks(c)'
<1> DEFINE rq == req[c]
           E == Expected(rq)
<1>1. /\ req' = req /\ E' \subseteq E /\ rq \in Requests
      /\ Known(rq)' = Known(rq) /\ KnownType(rq)' = KnownType(rq)
      /\ FileResources(rq.route)' = FileResources(rq.route)
  <2>1. Next
    BY DEF Next
  <2> QED
    BY <2>1, Frame, ExpectedShrinks, BundleFrame DEF TypeOK, FileResources
<1>2. \A p \in E : p.dir = Home(rq)
  BY <1>1, ExpectedFacts
<1>3. ASSUME NEW code, NEW value, Reply(c, code, value)
      PROVE  Looks(c)'
  BY <1>3, ReplyFacts DEF Looks
<1> HIDE DEF E
<1>4. ASSUME pc'[c] \in {"loop", "read"}, dir'[c] = dir[c],
             pc[c] \in {"readdir", "loop", "stat", "read"}
      PROVE  Looks(c)'
  BY <1>1, <1>4 DEF Looks, E
<1>5. ASSUME pc'[c] \in {"loop", "stat"}, dir'[c] = dir[c],
             dir[c] = BaseDir(rq), Home(rq) = BaseDir(rq)
      PROVE  Looks(c)'
  BY <1>1, <1>2, <1>5 DEF Looks, E
<1> USE DEF TypeOK, Goto, At, handler
<1>6. CASE Refuse(c)
  BY <1>3, <1>6 DEF Refuse
<1>7. CASE CallDirList(c)
  <2>1. /\ pc'[c] = "readdir" /\ dir'[c] = dir[c] /\ dir[c] = BaseDir(rq)
        /\ Known(rq) /\ rq.route \in ClusterLists
        /\ result'[c].type = KnownType(rq)
    BY <1>7 DEF CallDirList, Accept, Where, Known, KnownType, Empty
  <2>2. Home(rq) = BaseDir(rq)
    BY <1>1, <2>1, HomeIsBase DEF ClusterLists, SelectingRoutes
  <2>3. rq.resource \notin DOMAIN FileResources(rq.route)
    BY <1>1, <2>1, TablesDisjoint
  <2> QED BY <1>1, <1>2, <2>1, <2>2, <2>3 DEF Looks, E
<1>8. CASE CallFileList(c)
  <2>1. /\ pc'[c] = "loop" /\ dir'[c] = dir[c] /\ dir[c] = BaseDir(rq)
        /\ rq.resource \in DOMAIN FileResources(rq.route)
        /\ rq.route \in ClusterLists
    BY <1>8 DEF CallFileList, Accept, Where
  <2>2. Home(rq) = BaseDir(rq)
    BY <1>1, <2>1, HomeIsBase DEF ClusterLists, SelectingRoutes
  <2> QED BY <1>5, <2>1, <2>2
<1>9. CASE CallOtherList(c)
  <2>1. /\ dir'[c] = dir[c] /\ dir[c] = BaseDir(rq)
        /\ ~Known(rq) /\ rq.resource \notin DOMAIN FileResources(rq.route)
        /\ rq.route \in ClusterLists
        /\ pc'[c] = IF rq.route = "V1List" THEN "loop" ELSE "probedir"
    BY <1>9 DEF CallOtherList, Accept, Where, Known
  <2>2. CASE rq.route = "V1List"
    BY <1>1, <1>5, <2>1, <2>2, HomeIsBase DEF SelectingRoutes
  <2>3. CASE rq.route # "V1List"
    BY <1>1, <2>1, <2>3 DEF Looks, ClusterLists
  <2> QED BY <2>2, <2>3
<1>10. CASE CallOneFile(c)
  <2>1. /\ dir'[c] = dir[c] /\ dir[c] = BaseDir(rq)
        /\ rq.route \notin ClusterLists
        /\ pc'[c] = FirstStep[rq.route]
    BY <1>10 DEF CallOneFile, Accept, Where
  <2>2. rq.route \in Lists \cup Gets
    BY <1>1, RequestsAssumption DEF RequestsType
  <2>3. CASE rq.route = "V1NsList"
    <3>1. pc'[c] = "stat"
      BY <2>1, <2>3 DEF FirstStep
    <3> QED BY <1>1, <1>5, <2>1, <2>3, <3>1, HomeIsBase DEF SelectingRoutes
  <2>4. CASE rq.route \in {"V1NsGet", "V1Get"}
    <3>1. pc'[c] = "read"
      BY <2>1, <2>4 DEF FirstStep
    <3> QED
      BY <1>1, <2>4, <3>1 DEF Looks, Lists, ClusterLists, NamespaceLists
  <2>5. CASE rq.route \in {"ApisNsList", "ApisNsGet", "ApisGet"}
    <3>1. pc'[c] = "probefile"
      BY <2>1, <2>5 DEF FirstStep
    <3> QED BY <1>1, <2>5, <3>1 DEF Looks, SelectingRoutes
  <2> QED
    BY <2>1, <2>2, <2>3, <2>4, <2>5 DEF Lists, ClusterLists, NamespaceLists, Gets
<1>11. CASE ProbeDir(c)
  <2>1. \A p \in E : p.dir = dir'[c]
    BY <1>11, ProbeDirLooks DEF E
  <2>2. /\ pc'[c] = "readdir" /\ pc[c] = "probedir"
    BY <1>11 DEF ProbeDir
  <2> QED BY <1>1, <2>1, <2>2 DEF Looks, E
<1>12. CASE ProbeFile(c)
  <2>1. rq.route \in Lists => \A p \in E : p.dir = dir'[c]
    BY <1>12, ProbeFileLooks DEF E
  <2>2. pc'[c] \in {"stat", "read"}
    BY <1>12 DEF ProbeFile
  <2> QED BY <1>1, <2>1, <2>2 DEF Looks, E
<1>13. CASE ReadDirFails(c)
  BY <1>3, <1>13 DEF ReadDirFails
<1>14. CASE ReadDir(c)
  BY <1>4, <1>14 DEF ReadDir
<1>15. CASE LoopStat(c)
  BY <1>4, <1>15 DEF LoopStat
<1>16. CASE LoopDone(c)
  BY <1>3, <1>16 DEF LoopDone
<1>17. CASE Stat(c)
  BY <1>3, <1>4, <1>17 DEF Stat
<1>18. CASE ReadFails(c)
  BY <1>3, <1>18 DEF ReadFails
<1>19. CASE ReadList(c)
  <2>1. \/ \E code, value : Reply(c, code, value)
        \/ /\ pc[c] = "read" /\ pc'[c] = "loop" /\ dir'[c] = dir[c]
    BY <1>19 DEF ReadList
  <2> QED BY <1>3, <1>4, <2>1
<1>20. CASE ReadGet(c)
  <2>1. \E code, value : Reply(c, code, value)
    BY <1>20 DEF ReadGet
  <2> QED BY <1>3, <2>1
<1> QED
  BY <1>6, <1>7, <1>8, <1>9, <1>10, <1>11, <1>12, <1>13, <1>14, <1>15, <1>16,
     <1>17, <1>18, <1>19, <1>20 DEF Handle

LEMMA OnlyFileStep ==
  ASSUME TypeOK, StorageInv, NEW c \in Clients, Where(c), Looks(c), OnlyFile(c),
         Handle(c)
  PROVE  OnlyFile(c)'
<1> DEFINE rq == req[c]
           E == Expected(rq)
<1>1. /\ req' = req /\ E' \subseteq E /\ rq \in Requests
  <2>1. Next
    BY DEF Next
  <2> QED
    BY <2>1, Frame, ExpectedShrinks DEF TypeOK
<1>2. \A p \in E : /\ p.dir = Home(rq) /\ p.ns \in HomeNumbers(rq) /\ p \in files
                  /\ p = [dir |-> p.dir, ns |-> p.ns]
  BY <1>1, ExpectedFacts
<1>3. ClusterLists \cap NamespaceLists = {} /\ ClusterLists \cap Gets = {}
      /\ NamespaceLists \subseteq Lists /\ ClusterLists \subseteq Lists
  BY DEF ClusterLists, NamespaceLists, Lists, Gets
<1>4. rq.route \in NamespaceLists => HomeNumbers(rq) = {rq.ns} /\ ns[c] = rq.ns
  BY <1>3 DEF HomeNumbers, Where
<1> HIDE DEF E
<1>5. ASSUME pc'[c] \notin {"loop", "stat", "read"}
      PROVE  OnlyFile(c)'
  BY <1>5 DEF OnlyFile
<1>6. ASSUME NEW code, NEW value, Reply(c, code, value)
      PROVE  OnlyFile(c)'
  BY <1>5, <1>6, ReplyFacts
<1>7. ASSUME rq.route \in NamespaceLists, ns'[c] = ns[c],
             \A p \in E : p.dir = dir'[c]
      PROVE  OnlyFile(c)'
  BY <1>1, <1>2, <1>3, <1>4, <1>7 DEF OnlyFile, E, CurrentFile
<1>8. ASSUME rq.route \in Gets
      PROVE  OnlyFile(c)'
  BY <1>1, <1>3, <1>8 DEF OnlyFile, Gets, NamespaceLists
<1>9. pc[c] \in {"readdir", "loop", "stat", "read"} /\ rq.route \in Lists
        => \A p \in E : p.dir = dir[c]
  BY DEF Looks, E
<1> USE DEF TypeOK, Goto, At, handler
<1>10. CASE Refuse(c)
  BY <1>6, <1>10 DEF Refuse
<1>11. CASE CallDirList(c)
  BY <1>5, <1>11 DEF CallDirList
<1>12. CASE CallFileList(c)
  <2>1. /\ pc'[c] = "loop" /\ single'[c] = TRUE /\ todo'[c] = {0}
        /\ rq.route \in ClusterLists
        /\ rq.resource \in DOMAIN FileResources(rq.route)
    BY <1>12 DEF CallFileList
  <2>2. HomeNumbers(rq) = {0}
    BY <1>1, <2>1, TablesDisjoint DEF HomeNumbers, Known
  <2> QED BY <1>1, <1>2, <1>3, <2>1, <2>2 DEF OnlyFile, E
<1>13. CASE CallOtherList(c)
  <2>1. /\ pc'[c] \in {"loop", "probedir"}
        /\ pc'[c] = "loop" => rq.route = "V1List"
        /\ rq.route \in ClusterLists
        /\ ~Known(rq) /\ rq.resource \notin DOMAIN FileResources(rq.route)
    BY <1>13 DEF CallOtherList, Known
  <2>2. rq.route = "V1List" => HomeNumbers(rq) = {}
    BY <2>1 DEF HomeNumbers, Known
  <2> QED BY <1>1, <1>2, <1>3, <2>1, <2>2 DEF OnlyFile, E
<1>14. CASE CallOneFile(c)
  <2>1. /\ ns'[c] = ns[c] /\ dir'[c] = dir[c] /\ dir[c] = BaseDir(rq)
        /\ rq.route \notin ClusterLists
        /\ pc'[c] = FirstStep[rq.route]
    BY <1>14 DEF CallOneFile, Accept, Where
  <2>2. CASE rq.route = "V1NsList"
    BY <1>1, <1>2, <1>7, <2>1, <2>2, HomeIsBase DEF SelectingRoutes, NamespaceLists
  <2>3. CASE rq.route = "ApisNsList"
    <3>1. pc'[c] = "probefile"
      BY <2>1, <2>3 DEF FirstStep
    <3> QED BY <1>5, <3>1
  <2>4. CASE rq.route \in Gets
    BY <1>8, <2>4
  <2>5. rq.route \in Lists \cup Gets
    BY <1>1, RequestsAssumption DEF RequestsType
  <2> QED
    BY <2>1, <2>2, <2>3, <2>4, <2>5 DEF Lists, ClusterLists, NamespaceLists
<1>15. CASE ProbeDir(c)
  BY <1>5, <1>15 DEF ProbeDir
<1>16. CASE ProbeFile(c)
  <2>1. rq.route \in NamespaceLists \cup Gets
    BY <1>1, <1>16, RequestsAssumption DEF ProbeFile, Where, RequestsType, Lists
  <2>2. ns'[c] = ns[c]
    BY <1>16 DEF ProbeFile
  <2>3. rq.route \in NamespaceLists => \A p \in E : p.dir = dir'[c]
    BY <1>3, <1>16, ProbeFileLooks DEF E
  <2> QED BY <1>7, <1>8, <2>1, <2>2, <2>3
<1>17. CASE ReadDirFails(c)
  BY <1>6, <1>17 DEF ReadDirFails
<1>18. CASE ReadDir(c)
  <2>1. rq.route \in ClusterLists /\ pc'[c] = "loop"
    BY <1>18 DEF ReadDir, Where
  <2>2. \A p \in E : p.ns \in todo'[c]
                    /\ (single'[c] <=> \E n \in todo'[c] : todo'[c] = {n})
    BY <1>18, ReadDirFindsAll DEF E
  <2>3. \A p \in E : single'[c] => todo'[c] = {p.ns}
    BY <2>2
  <2> QED BY <1>1, <1>3, <2>1, <2>3 DEF OnlyFile, E
<1>19. CASE LoopStat(c)
  <2>1. PICK n \in todo[c] :
          /\ todo'[c] = todo[c] \ {n}
          /\ IF [dir |-> dir[c], ns |-> n] \in files
               THEN pc'[c] = "read" /\ ns'[c] = n
               ELSE pc'[c] = "loop"
    BY <1>19 DEF LoopStat
  <2>2. /\ rq.route \in ClusterLists /\ pc[c] = "loop"
        /\ dir'[c] = dir[c] /\ single'[c] = single[c]
    BY <1>19 DEF LoopStat, Where
  <2>3. single[c] => \A p \in E : p.ns = n /\ p = [dir |-> dir[c], ns |-> n]
                                /\ p \in files
    BY <1>2, <1>3, <1>9, <2>1, <2>2 DEF OnlyFile, E
  <2>4. CASE [dir |-> dir[c], ns |-> n] \in files
    BY <1>1, <1>3, <2>1, <2>2, <2>3, <2>4 DEF OnlyFile, E, CurrentFile
  <2>5. CASE [dir |-> dir[c], ns |-> n] \notin files
    BY <1>1, <1>3, <2>1, <2>2, <2>3, <2>5 DEF OnlyFile, E
  <2> QED BY <2>4, <2>5
<1>20. CASE LoopDone(c)
  BY <1>6, <1>20 DEF LoopDone
<1>21. CASE Stat(c)
  <2>1. CASE Reply(c, "OK", EmptyUnstructuredList)
    BY <1>6, <2>1
  <2>2. CASE ~Reply(c, "OK", EmptyUnstructuredList)
    <3>1. /\ pc[c] = "stat" /\ pc'[c] = "read"
          /\ dir'[c] = dir[c] /\ ns'[c] = ns[c]
      BY <1>21, <2>2 DEF Stat
    <3>2. rq.route \in NamespaceLists \cup Gets
      BY <1>1, <3>1, RequestsAssumption DEF Where, RequestsType, Lists
    <3> QED BY <1>3, <1>7, <1>8, <1>9, <3>1, <3>2
  <2> QED BY <2>1, <2>2
<1>22. CASE ReadFails(c)
  BY <1>6, <1>22 DEF ReadFails
<1>23. CASE ReadList(c)
  <2>1. \/ \E code, value : Reply(c, code, value)
        \/ /\ pc'[c] = "loop" /\ ~single'[c]
           /\ rq.route \notin NamespaceLists
    BY <1>23 DEF ReadList
  <2> QED BY <1>1, <1>6, <2>1 DEF OnlyFile
<1>24. CASE ReadGet(c)
  <2>1. \E code, value : Reply(c, code, value)
    BY <1>24 DEF ReadGet
  <2> QED BY <1>6, <2>1
<1> QED
  BY <1>10, <1>11, <1>12, <1>13, <1>14, <1>15, <1>16, <1>17, <1>18, <1>19,
     <1>20, <1>21, <1>22, <1>23, <1>24 DEF Handle

LEMMA MergingStep ==
  ASSUME TypeOK, StorageInv, NEW c \in Clients, Where(c), Looks(c), OnlyFile(c),
         Merging(c), Handle(c)
  PROVE  Merging(c)'
<1> DEFINE rq == req[c]
           E == Expected(rq)
<1>1. /\ req' = req /\ E' \subseteq E /\ rq \in Requests /\ bundle' = bundle
      /\ Known(rq)' = Known(rq) /\ KnownType(rq)' = KnownType(rq)
      /\ HomeFiles(rq)' = HomeFiles(rq) /\ HomeNumbers(rq)' = HomeNumbers(rq)
      /\ Mergeable(rq)' = Mergeable(rq) /\ Selected(rq)' = Selected(rq)
  <2>1. Next
    BY DEF Next
  <2> QED
    BY <2>1, Frame, ExpectedShrinks, BundleFrame DEF TypeOK
<1>2. \A p \in E : /\ p.dir = Home(rq) /\ p.ns \in HomeNumbers(rq) /\ p \in files
                  /\ p = [dir |-> p.dir, ns |-> p.ns] /\ p \in HomeFiles(rq)
                  /\ p \in DOMAIN bundle.data
  BY <1>1, ExpectedFacts
<1>3. rq.route \in ClusterLists => rq.route \in Lists
  BY DEF Lists
<1> HIDE DEF E
<1>4. pc[c] \in {"readdir", "loop", "stat", "read"} /\ rq.route \in Lists
        => \A p \in E : p.dir = dir[c]
  BY DEF Looks, E
<1>5. ASSUME \/ pc'[c] \notin {"loop", "read"}
             \/ rq.route \notin ClusterLists
             \/ single'[c]
             \/ E = {}
      PROVE  Merging(c)'
  BY <1>1, <1>5 DEF Merging, E
<1>6. ASSUME NEW code, NEW value, Reply(c, code, value)
      PROVE  Merging(c)'
  BY <1>5, <1>6, ReplyFacts
<1> USE DEF TypeOK, Goto, At, handler
<1>7. CASE Refuse(c)
  BY <1>6, <1>7 DEF Refuse
<1>8. CASE CallDirList(c)
  BY <1>5, <1>8 DEF CallDirList
<1>9. CASE CallFileList(c)
  BY <1>5, <1>9 DEF CallFileList
<1>10. CASE CallOtherList(c)
  <2>1. /\ pc'[c] \in {"loop", "probedir"}
        /\ pc'[c] = "loop" => rq.route = "V1List"
        /\ rq.route \in ClusterLists
        /\ ~Known(rq) /\ rq.resource \notin DOMAIN FileResources(rq.route)
    BY <1>10 DEF CallOtherList, Known
  <2>2. rq.route = "V1List" => HomeNumbers(rq) = {}
    BY <2>1 DEF HomeNumbers, Known
  <2> QED BY <1>2, <1>5, <2>1, <2>2
<1>11. CASE CallOneFile(c)
  BY <1>5, <1>11 DEF CallOneFile
<1>12. CASE ProbeDir(c)
  BY <1>5, <1>12 DEF ProbeDir
<1>13. CASE ProbeFile(c)
  BY <1>5, <1>13 DEF ProbeFile, Where
<1>14. CASE ReadDirFails(c)
  BY <1>6, <1>14 DEF ReadDirFails
<1>15. CASE ReadDir(c)
  <2>1. SUFFICES ASSUME ~single'[c], Mergeable(rq), NEW p \in E
                 PROVE  MergingOne(c, p)'
    BY <1>1 DEF Merging, E
  <2>2. /\ pc[c] = "readdir" /\ pc'[c] = "loop" /\ result'[c] = result[c]
    BY <1>15 DEF ReadDir
  <2>3. /\ p.ns \in todo'[c] /\ todo'[c] \subseteq HomeNumbers(rq)
        /\ \A n \in todo'[c] : [dir |-> Home(rq), ns |-> n] \in HomeFiles(rq)
        /\ ~\E n \in todo'[c] : todo'[c] = {n}
    BY <1>15, <2>1, ReadDirFindsAll DEF E
  <2>4. ~\E q \in HomeFiles(rq) : HomeFiles(rq) = {q}
    <3>1. SUFFICES ASSUME NEW q \in HomeFiles(rq), HomeFiles(rq) = {q}
                   PROVE  FALSE
      OBVIOUS
    <3>2. q = p
      BY <1>2, <3>1
    <3>3. \A n \in todo'[c] : n = p.ns
      BY <2>3, <3>1, <3>2
    <3> QED BY <2>3, <3>3
  <2>5. /\ Known(rq)
        /\ \A q \in HomeFiles(rq) :
             Decode(rq.resource, bundle.data[q]).type = KnownType(rq)
    BY <2>1, <2>4 DEF Mergeable, Known, KnownType
  <2>6. result[c].type = KnownType(rq)
    BY <2>2, <2>5 DEF Looks
  <2> QED BY <1>1, <2>2, <2>3, <2>5, <2>6 DEF MergingOne
<1>16. CASE LoopStat(c)
  <2>1. SUFFICES ASSUME ~single'[c], Mergeable(rq), NEW p \in E
                 PROVE  MergingOne(c, p)'
    BY <1>1 DEF Merging, E
  <2>2. PICK n \in todo[c] :
          /\ todo'[c] = todo[c] \ {n}
          /\ IF [dir |-> dir[c], ns |-> n] \in files
               THEN pc'[c] = "read" /\ ns'[c] = n
               ELSE pc'[c] = "loop"
    BY <1>16 DEF LoopStat
  <2>3. /\ rq.route \in ClusterLists /\ pc[c] = "loop"
        /\ dir'[c] = dir[c] /\ single'[c] = single[c] /\ result'[c] = result[c]
    BY <1>16 DEF LoopStat, Where
  <2>4. MergingOne(c, p)
    BY <2>1, <2>3 DEF Merging, E
  <2>5. p = [dir |-> dir[c], ns |-> p.ns] /\ p \in files
    BY <1>2, <1>3, <1>4, <2>3
  <2>6. Covers(c, p) => Covers(c, p)'
    BY <1>1, <2>3 DEF Covers
  <2>7. CASE [dir |-> dir[c], ns |-> n] \in files
    BY <1>1, <2>2, <2>3, <2>4, <2>5, <2>6, <2>7 DEF MergingOne, CurrentFile
  <2>8. CASE [dir |-> dir[c], ns |-> n] \notin files
    BY <1>1, <2>2, <2>3, <2>4, <2>5, <2>6, <2>8 DEF MergingOne
  <2> QED BY <2>7, <2>8
<1>17. CASE LoopDone(c)
  BY <1>6, <1>17 DEF LoopDone
<1>18. CASE Stat(c)
  BY <1>5, <1>6, <1>18 DEF Stat, Where
<1>19. CASE ReadFails(c)
  BY <1>6, <1>19 DEF ReadFails
<1>20. CASE ReadList(c)
  <2> DEFINE data == bundle.data[CurrentFile(c)]
             read == ListIn(rq, data)
             list == Merge(result[c], read, MergeTypes(rq.route))
  <2>1. \/ \E code, value : Reply(c, code, value)
        \/ /\ pc[c] = "read" /\ FileExists(c) /\ rq.route \in Lists
           /\ ~single[c] /\ rq.route \notin NamespaceLists /\ ~Failure(list)
           /\ result'[c] = list /\ pc'[c] = "loop"
           /\ todo'[c] = todo[c] /\ single'[c] = single[c]
    BY <1>20 DEF ReadList
  <2>2. SUFFICES ASSUME pc[c] = "read", FileExists(c), rq.route \in ClusterLists,
                        ~single[c], ~Failure(list), Mergeable(rq),
                        result'[c] = list, pc'[c] = "loop",
                        todo'[c] = todo[c], single'[c] = single[c],
                        NEW p \in E
                 PROVE  MergingOne(c, p)'
    BY <1>1, <1>5, <1>6, <2>1 DEF Merging, E, Lists
  <2>3. MergingOne(c, p)
    BY <2>2 DEF Merging, E
  <2>4. /\ CurrentFile(c) \in HomeFiles(rq) /\ data \in FileData
    <3>1. dir[c] = Home(rq)
      BY <1>2, <1>3, <1>4, <2>2
    <3>2. CurrentFile(c) \in DOMAIN bundle.data
      BY <2>2 DEF FileExists
    <3> QED
      BY <2>2, <2>3, <3>1, <3>2, BundlesAssumption
      DEF MergingOne, HomeFiles, CurrentFile
  <2>5. /\ read \in Value
        /\ ~Failure(read) => /\ read.type = KnownType(rq)
                            /\ data.items \cap Selected(rq) \subseteq read.items
    BY <1>1, <2>3, <2>4, ListInFacts DEF MergingOne
  <2> HIDE DEF read
  <2>6. ~Failure(read)
    BY <2>2 DEF Merge, Failure
  <2>7. /\ KnownType(rq) \in MergeTypes(rq.route)
        /\ MergeTypes(rq.route) \subseteq ListTypes
    BY <1>1, <2>3, TableFacts DEF MergingOne, Known, KnownType
  <2>8. /\ list.type = KnownType(rq)
        /\ list.items = result[c].items \cup read.items
    <3>1. result[c] \in Value /\ MergeTypes(rq.route) \in SUBSET ListTypes
      BY <2>7
    <3>2. read.type \in MergeTypes(rq.route) /\ read.type = result[c].type
      BY <2>3, <2>5, <2>6, <2>7 DEF MergingOne
    <3>3. LET m == Merge(result[c], read, MergeTypes(rq.route))
          IN  m.type = result[c].type /\ m.items = result[c].items \cup read.items
      BY <2>5, <3>1, <3>2, MergeFacts
    <3> QED
      BY <2>3, <3>3 DEF MergingOne
  <2> HIDE DEF list
  <2>9. p = CurrentFile(c) \/ Covers(c, p) => Covers(c, p)'
    BY <1>1, <2>2, <2>5, <2>6, <2>8 DEF Covers
  <2> QED
    BY <1>1, <1>2, <2>2, <2>3, <2>8, <2>9 DEF MergingOne
<1>21. CASE ReadGet(c)
  <2>1. \E code, value : Reply(c, code, value)
    BY <1>21 DEF ReadGet
  <2> QED BY <1>6, <2>1
<1> QED
  BY <1>7, <1>8, <1>9, <1>10, <1>11, <1>12, <1>13, <1>14, <1>15, <1>16, <1>17,
     <1>18, <1>19, <1>20, <1>21 DEF Handle

LEMMA AnsweredStep ==
  ASSUME TypeOK, StorageInv, NEW c \in Clients, Where(c), Looks(c), OnlyFile(c),
         Merging(c), Answered(c), Handle(c)
  PROVE  Answered(c)'
<1> DEFINE rq == req[c]
           E == Expected(rq)
<1>1. /\ req' = req /\ E' \subseteq E /\ rq \in Requests /\ bundle' = bundle
      /\ Mergeable(rq)' = Mergeable(rq) /\ Selected(rq)' = Selected(rq)
  <2>1. Next
    BY DEF Next
  <2> QED
    BY <2>1, Frame, ExpectedShrinks, BundleFrame DEF TypeOK
<1>2. \A p \in E : /\ p \in files
                  /\ p \in DOMAIN bundle.data
  BY <1>1, ExpectedFacts
<1> HIDE DEF E
<1>3. ASSUME resp' = resp
      PROVE  Answered(c)'
  BY <1>1, <1>3 DEF Answered, Listed, E
<1>4. ASSUME NEW code, NEW value, Reply(c, code, value),
             code = "OK" /\ rq.route \in Lists /\ Mergeable(rq) =>
               \A p \in E :
                 bundle.data[p].items \cap Selected(rq) \subseteq value.items
      PROVE  Answered(c)'
  <2>1. resp'[c].code = code /\ resp'[c].value = value
    <3>1. resp'[c] = [code |-> code, value |-> value]
      BY <1>4, ReplyFacts
    <3> QED BY <3>1
  <2>2. Listed(c)' => code = "OK" /\ rq.route \in Lists
    BY <1>1, <2>1 DEF Listed
  <2>3. Listed(c)' /\ Mergeable(rq)' =>
          \A p \in E' :
            bundle'.data[p].items \cap Selected(rq)' \subseteq resp'[c].value.items
    BY <1>1, <1>4, <2>1, <2>2
  <2> QED BY <2>3 DEF Answered, E
<1> USE DEF TypeOK, Goto, At, handler
<1>5. CASE \/ Refuse(c) \/ ReadDirFails(c) \/ ReadFails(c)
  BY <1>4, <1>5 DEF Refuse, ReadDirFails, ReadFails
<1>6. CASE \/ CallDirList(c) \/ CallFileList(c) \/ CallOtherList(c)
           \/ CallOneFile(c) \/ ProbeDir(c) \/ ProbeFile(c) \/ ReadDir(c)
           \/ LoopStat(c)
  BY <1>3, <1>6 DEF CallDirList, CallFileList, CallOtherList, CallOneFile,
                    ProbeDir, ProbeFile, ReadDir, LoopStat
<1>7. CASE LoopDone(c)
  <2>1. /\ pc[c] = "loop" /\ todo[c] = {} /\ rq.route \in ClusterLists
        /\ Reply(c, "OK", OrEmptyList(result[c]))
    BY <1>7 DEF LoopDone, Where
  <2>2. ASSUME Mergeable(rq), NEW p \in E
        PROVE  bundle.data[p].items \cap Selected(rq)
                 \subseteq OrEmptyList(result[c]).items
    <3>1. ~single[c]
      BY <2>1, <2>2 DEF OnlyFile, E
    <3>2. MergingOne(c, p)
      BY <2>1, <2>2, <3>1 DEF Merging, E
    <3>3. Covers(c, p) /\ result[c].type = KnownType(rq)
      BY <2>1, <3>2 DEF MergingOne
    <3>4. KnownType(rq) # "nil"
      BY <1>1, <3>2, TableFacts DEF MergingOne, Known, KnownType, ListTypes
    <3> QED BY <3>3, <3>4 DEF OrEmptyList, Covers
  <2> QED BY <1>4, <2>1, <2>2
<1>8. CASE Stat(c)
  <2>1. CASE ~FileExists(c) /\ Reply(c, "OK", EmptyUnstructuredList)
    <3>1. rq.route \in Lists => E = {}
      BY <1>2, <1>8, <2>1
      DEF Stat, OnlyFile, Where, Lists, FileExists, E
    <3> QED BY <1>4, <2>1, <3>1
  <2>2. CASE UNCHANGED <<storage, req, handler, resp>>
    BY <1>3, <2>2
  <2> QED BY <1>8, <2>1, <2>2 DEF Stat
<1>9. CASE ReadList(c)
  <2> DEFINE data == bundle.data[CurrentFile(c)]
             read == ListIn(rq, data)
             only == single[c] \/ rq.route \in NamespaceLists
             list == IF only THEN read
                     ELSE Merge(result[c], read, MergeTypes(rq.route))
             answer == IF rq.route = "V1List" THEN OrEmptyList(list) ELSE list
  <2>1. /\ pc[c] = "read" /\ FileExists(c) /\ rq.route \in Lists
        /\ \/ Reply(c, FailCode(list), Nil)
           \/ ~Failure(list) /\ only /\ Reply(c, "OK", answer)
           \/ resp' = resp
    BY <1>9 DEF ReadList
  <2>2. ASSUME ~Failure(list), only, NEW p \in E
        PROVE  bundle.data[p].items \cap Selected(rq) \subseteq answer.items
    <3>1. p = CurrentFile(c)
      BY <2>1, <2>2 DEF OnlyFile, Lists, E
    <3>2. data \in FileData
      BY <1>2, <2>1, BundlesAssumption DEF FileExists
    <3>3. /\ read.type = Decode(rq.resource, data).type
          /\ data.items \cap Selected(rq) \subseteq read.items
      BY <1>1, <2>2, <3>2, ListInFacts
    <3>4. read.type = "nil" => data.items = {}
      BY <3>2, <3>3, DecodeFacts
    <3> HIDE DEF read, data
    <3>5. data.items \cap Selected(rq) \subseteq answer.items
      BY <2>2, <3>3, <3>4 DEF OrEmptyList
    <3> QED BY <3>1, <3>5 DEF data
  <2> HIDE DEF answer, list, only
  <2>3. CASE Reply(c, FailCode(list), Nil)
    BY <1>4, <2>3 DEF FailCode
  <2>4. CASE ~Failure(list) /\ only /\ Reply(c, "OK", answer)
    BY <1>4, <2>2, <2>4
  <2>5. CASE resp' = resp
    BY <1>3, <2>5
  <2> QED BY <2>1, <2>3, <2>4, <2>5
<1>10. CASE ReadGet(c)
  <2>1. rq.route \notin Lists
    BY <1>10 DEF ReadGet, Lists, ClusterLists, NamespaceLists, Gets
  <2>2. \E code, value : Reply(c, code, value)
    BY <1>10 DEF ReadGet
  <2> QED BY <1>4, <2>1, <2>2
<1> QED
  BY <1>5, <1>6, <1>7, <1>8, <1>9, <1>10 DEF Handle

-----------------------------------------------------------------------------
(* The invariant *)

(* A step that leaves the handler of c alone keeps what is known of it. *)
LEMMA CompleteFrame ==
  ASSUME TypeOK, NEW c \in Clients, [Next]_vars, Complete(c),
         pc'[c] = pc[c], dir'[c] = dir[c], ns'[c] = ns[c], todo'[c] = todo[c],
         single'[c] = single[c], result'[c] = result[c], resp'[c] = resp[c]
  PROVE  Complete(c)'
<1>1. /\ req' = req /\ bundle' = bundle
      /\ Expected(req[c])' \subseteq Expected(req[c])
      /\ FileResources(req[c].route)' = FileResources(req[c].route)
  BY Frame, ExpectedShrinks DEF FileResources
<1>2. Looks(c)'
  BY <1>1, BundleFrame DEF Complete, Looks
<1>3. OnlyFile(c)'
  BY <1>1 DEF Complete, OnlyFile, CurrentFile
<1>4. ASSUME NEW p, MergingOne(c, p)
      PROVE  MergingOne(c, p)'
  BY <1>1, <1>4, BundleFrame DEF MergingOne, CurrentFile, Covers
<1>5. Merging(c)'
  BY <1>1, <1>4, BundleFrame DEF Complete, Merging
<1>6. Answered(c)'
  BY <1>1, BundleFrame DEF Complete, Answered, Listed
<1> QED BY <1>2, <1>3, <1>5, <1>6 DEF Complete

LEMMA CompleteStep ==
  ASSUME TypeOK, WhereInv, CompleteInv, [Next]_vars
  PROVE  CompleteInv'
<1>1. StorageInv'
  BY StorageStep DEF CompleteInv
<1>2. CASE Cleanup \/ UNCHANGED vars
  <2>1. UNCHANGED <<pc, handler, resp>>
    BY <1>2 DEF vars, Cleanup, StartCleanup, RemoveFile, RemoveDir, Exit, unserved
  <2> QED
    BY <1>1, <2>1, CompleteFrame DEF CompleteInv, handler
<1>3. ASSUME NEW c \in Clients, Handle(c)
      PROVE  CompleteInv'
  <2>1. \A d \in Clients \ {c} : Complete(d)'
    BY <1>3, HandleFrame, CompleteFrame DEF CompleteInv
  <2>2. Complete(c) /\ Where(c) /\ StorageInv
    BY DEF CompleteInv, WhereInv
  <2>3. Complete(c)'
    BY <1>3, <2>2, LooksStep, OnlyFileStep, MergingStep, AnsweredStep DEF Complete
  <2> QED BY <1>1, <2>1, <2>3 DEF CompleteInv
<1> QED BY <1>2, <1>3 DEF Next

LEMMA CompleteInit ==
  ASSUME Init
  PROVE  CompleteInv
<1>1. StorageInv
  BY BundlesAssumption DEF Init, StorageInv
<1> QED
  BY <1>1 DEF Init, CompleteInv, Complete, Looks, OnlyFile, Merging, Answered,
              Listed, NoResponse

(* Every list the server answers holds every selected object of every      *)
(* expected file that still exists, for any number of clients, namespaces  *)
(* and files, and whatever the cleanup deletes while the handlers run.     *)
THEOREM ListsAreComplete == Spec => []ListCoversSurvivors
<1>1. Init => TypeOK /\ WhereInv /\ CompleteInv
  BY TypeOKInit, WhereSoundInit, CompleteInit
<1>2. TypeOK /\ WhereInv /\ CompleteInv /\ [Next]_vars
        => TypeOK' /\ WhereInv' /\ CompleteInv'
  BY TypeOKStep, WhereStep, CompleteStep
<1>3. CompleteInv => ListCoversSurvivors
  BY DEF CompleteInv, Complete, Answered, ListCoversSurvivors
<1> QED BY <1>1, <1>2, <1>3, PTL DEF Spec
=============================================================================
