--------------------------- MODULE ApiServerProofs ---------------------------
(***************************************************************************)
(* Proofs about ApiServer, for every set of clients, namespaces, bundles,  *)
(* requests and selectors that satisfies the assumptions of the module.    *)
(***************************************************************************)
EXTENDS ApiServer, TLAPS

(* What the pure functions return, stated once. *)

(* Decode returns a value, with items of the file only, and all of them    *)
(* unless it fails.                                                        *)
LEMMA DecodeFacts ==
  ASSUME NEW resource, NEW data \in FileData
  PROVE  /\ Decode(resource, data) \in Value
         /\ Decode(resource, data).items \subseteq data.items
         /\ Decode(resource, data).type # "error"
              => Decode(resource, data).items = data.items
         /\ Decode(resource, data).type = "nil" => data.items = {}
<1>1. /\ resource \in DOMAIN WrapKind => WrapKind[resource] \in ListTypes
      /\ "nil" \notin ListTypes /\ "error" \notin ListTypes
  BY DEF WrapKind, ListTypes
<1>2. /\ data.type \in ListTypes
      /\ data.items \in SUBSET Objects
      /\ data.form \in Forms
  BY DEF FileData
<1> QED
  BY <1>1, <1>2 DEF Decode, Value, Types, Outcomes, Nil, Failed

(* Filtering by labels keeps the type and just the items the selector      *)
(* matches, unless it fails.                                               *)
LEMMA LabelFilterFacts ==
  ASSUME NEW v \in Value, NEW sel
  PROVE  LET w == FilterObjectsByLabels(v, sel)
         IN  /\ w \in Value
             /\ w.items \subseteq v.items
             /\ w.items \subseteq Match[sel]
             /\ ~Failure(w) => /\ w.type = v.type
                              /\ w.items = v.items \cap Match[sel]
<1>1. v.type \in Types /\ v.items \in SUBSET Objects
  BY DEF Value
<1>2. Match[NoSel] = Objects
  BY SelectorsAssumption
<1> QED
  BY <1>1, <1>2
  DEF FilterObjectsByLabels, Value, Types, Outcomes, Panic, Failed, Failure

(* Filtering by fields keeps the type and at least the items the selector  *)
(* matches.                                                                *)
LEMMA FieldFilterFacts ==
  ASSUME NEW v \in Value, NEW sel
  PROVE  LET w == FilterObjectsByFields(v, sel)
         IN  /\ w \in Value
             /\ w.type = v.type
             /\ w.items \subseteq v.items
             /\ v.items \cap Match[sel] \subseteq w.items
<1>1. v.type \in Types /\ v.items \in SUBSET Objects
  BY DEF Value
<1> QED
  BY <1>1 DEF FilterObjectsByFields, Value

(* Merging adds the items of one list to another, or keeps only the new    *)
(* ones, or fails; of two lists of one type in the switch it keeps all.    *)
LEMMA MergeFacts ==
  ASSUME NEW r \in Value, NEW v \in Value, NEW S \in SUBSET ListTypes
  PROVE  LET m == Merge(r, v, S)
         IN  /\ m \in Value
             /\ m.items \subseteq r.items \cup v.items
             /\ v.type \in S /\ v.type = r.type =>
                  m.type = r.type /\ m.items = r.items \cup v.items
<1>1. /\ v.type \in Types /\ v.items \in SUBSET Objects
      /\ r.type \in Types /\ r.items \in SUBSET Objects
  BY DEF Value
<1>2. "error" \notin S /\ "panic" \notin S /\ "nil" \notin S
  BY DEF ListTypes
<1> QED
  BY <1>1, <1>2 DEF Merge, ToUnstructuredList, Value, Types, Outcomes, Panic

(* The two steps of a list handler after the read: decode and filter. *)
LEMMA ListInFacts ==
  ASSUME NEW rq \in Requests, NEW data \in FileData
  PROVE  LET w == ListIn(rq, data)
         IN  /\ w \in Value
             /\ w.items \subseteq data.items
             /\ rq.route \in SelectingRoutes => w.items \subseteq Match[rq.labels]
             /\ ~Failure(w) => /\ w.type = Decode(rq.resource, data).type
                              /\ data.items \cap Selected(rq) \subseteq w.items
<1> DEFINE d == Decode(rq.resource, data)
           l == FilterObjectsByLabels(d, rq.labels)
           f == FilterObjectsByFields(l, rq.fields)
<1>1. /\ d \in Value /\ d.items \subseteq data.items
      /\ d.type # "error" => d.items = data.items
  BY DecodeFacts
<1>2. /\ l \in Value /\ l.items \subseteq d.items
      /\ l.items \subseteq Match[rq.labels]
      /\ ~Failure(l) => l.type = d.type /\ l.items = d.items \cap Match[rq.labels]
  BY <1>1, LabelFilterFacts
<1>3. /\ f \in Value /\ f.type = l.type /\ f.items \subseteq l.items
      /\ l.items \cap Match[rq.fields] \subseteq f.items
  BY <1>2, FieldFilterFacts
<1>4. ListIn(rq, data) = IF rq.route \in SelectingRoutes THEN f ELSE d
  BY DEF ListIn
<1> HIDE DEF d, l, f
<1>5. CASE rq.route \in SelectingRoutes
  BY <1>1, <1>2, <1>3, <1>4, <1>5 DEF Failure, Selected, d
<1>6. CASE rq.route \notin SelectingRoutes
  BY <1>1, <1>4, <1>6 DEF Failure, Selected, d, Value
<1> QED BY <1>5, <1>6

(* The tables name list types. *)
LEMMA TableFacts ==
  ASSUME NEW rq \in Requests
  PROVE  /\ rq.resource \in DOMAIN DirResources(rq.route) =>
              DirResources(rq.route)[rq.resource] \in MergeTypes(rq.route)
         /\ MergeTypes(rq.route) \subseteq ListTypes
         /\ rq.resource \in DOMAIN FileResources(rq.route) =>
              FileResources(rq.route)[rq.resource] \in Types
         /\ BaseDir(rq) \in Dirs
         /\ CustomDir(rq) \in Dirs
         /\ rq.ns \in Namespaces \cup {0}
<1>1. rq.ns \in Namespaces \cup {0}
  BY RequestsAssumption DEF RequestsType
<1>2. rq.resource \in DOMAIN DirResources(rq.route) =>
        DirResources(rq.route)[rq.resource] \in MergeTypes(rq.route)
  <2>1. \A r \in DOMAIN V1DirResources : V1DirResources[r] \in MergeTypes("V1List")
    BY DEF V1DirResources, MergeTypes
  <2>2. \A r \in DOMAIN ApisDirResources :
          ApisDirResources[r] \in MergeTypes("ApisList")
    BY DEF ApisDirResources, MergeTypes
  <2>3. MergeTypes(rq.route) =
          IF rq.route = "V1List" THEN MergeTypes("V1List") ELSE MergeTypes("ApisList")
    BY DEF MergeTypes
  <2> QED BY <2>1, <2>2, <2>3 DEF DirResources
<1>3. MergeTypes(rq.route) \subseteq ListTypes
  BY DEF MergeTypes, ListTypes
<1>4. rq.resource \in DOMAIN FileResources(rq.route) =>
        FileResources(rq.route)[rq.resource] \in Types
  <2>1. \A r \in DOMAIN V1FileResources : V1FileResources[r] \in Types
    BY DEF V1FileResources, Types, Outcomes
  <2>2. \A r \in DOMAIN ApisFileResources : ApisFileResources[r] \in Types
    BY DEF ApisFileResources, Types, ListTypes
  <2> QED BY <2>1, <2>2 DEF FileResources
<1>5. BaseDir(rq) \in Dirs /\ CustomDir(rq) \in Dirs
  BY DEF Dirs
<1> QED
  BY <1>1, <1>2, <1>3, <1>4, <1>5

-----------------------------------------------------------------------------
(* Type correctness *)

LEMMA ReplyTypeOK ==
  ASSUME TypeOK, NEW c \in Clients, NEW code \in Codes, NEW value \in Value,
         Reply(c, code, value)
  PROVE  TypeOK'
BY DEF TypeOK, Reply, Goto, Pcs, storage, handler

LEMMA NilIsValue == Nil \in Value /\ EmptyUnstructuredList \in Value
BY DEF Nil, EmptyUnstructuredList, Value, Types, Outcomes

(* Only Cleanup changes the storage, nothing changes the bundle or the     *)
(* requests, and a step of a handler changes the state of its client only. *)
LEMMA Frame ==
  ASSUME [Next]_vars
  PROVE  /\ bundle' = bundle
         /\ req' = req
<1>1. CASE Cleanup
  BY <1>1 DEF Cleanup, StartCleanup, RemoveFile, RemoveDir, Exit, unserved
<1>2. ASSUME NEW c \in Clients, Handle(c)
      PROVE  bundle' = bundle /\ req' = req
  <2> USE DEF storage, Reply
  <2>1. CASE Refuse(c)
    BY <2>1 DEF Refuse
  <2>2. CASE CallDirList(c)
    BY <2>2 DEF CallDirList
  <2>3. CASE CallFileList(c)
    BY <2>3 DEF CallFileList
  <2>4. CASE CallOtherList(c)
    BY <2>4 DEF CallOtherList
  <2>5. CASE CallOneFile(c)
    BY <2>5 DEF CallOneFile
  <2>6. CASE ProbeDir(c)
    BY <2>6 DEF ProbeDir
  <2>7. CASE ProbeFile(c)
    BY <2>7 DEF ProbeFile
  <2>8. CASE ReadDirFails(c)
    BY <2>8 DEF ReadDirFails
  <2>9. CASE ReadDir(c)
    BY <2>9 DEF ReadDir
  <2>10. CASE LoopStat(c)
    BY <2>10 DEF LoopStat
  <2>11. CASE LoopDone(c)
    BY <2>11 DEF LoopDone
  <2>12. CASE Stat(c)
    BY <2>12 DEF Stat
  <2>13. CASE ReadFails(c)
    BY <2>13 DEF ReadFails
  <2>14. CASE ReadList(c)
    BY <2>14 DEF ReadList
  <2>15. CASE ReadGet(c)
    BY <2>15 DEF ReadGet
  <2> QED
    BY <1>2, <2>1, <2>2, <2>3, <2>4, <2>5, <2>6, <2>7, <2>8, <2>9, <2>10,
       <2>11, <2>12, <2>13, <2>14, <2>15 DEF Handle
<1>3. CASE UNCHANGED vars
  BY <1>3 DEF vars, storage
<1> QED
  BY <1>1, <1>2, <1>3 DEF Next

LEMMA TypeOKStep ==
  ASSUME TypeOK, [Next]_vars
  PROVE  TypeOK'
<1>1. CASE Cleanup
  BY <1>1 DEF TypeOK, Cleanup, StartCleanup, RemoveFile, RemoveDir, Exit,
              unserved, handler
<1>2. ASSUME NEW c \in Clients, Handle(c)
      PROVE  TypeOK'
  <2> DEFINE rq == req[c]
             data == bundle.data[CurrentFile(c)]
  <2>1. /\ rq \in Requests /\ result[c] \in Value
        /\ FileExists(c) => data \in FileData
    BY BundlesAssumption DEF TypeOK, FileExists
  <2>2. CASE Refuse(c)
    BY <2>2, ReplyTypeOK, NilIsValue DEF Refuse, Codes
  <2>3. CASE CallDirList(c)
    BY <2>1, <2>3, TableFacts
    DEF CallDirList, TypeOK, Goto, Pcs, storage, Empty, Value, Types
  <2>4. CASE CallFileList(c)
    BY <2>1, <2>4, TableFacts
    DEF CallFileList, TypeOK, Goto, Pcs, storage, Empty, Value
  <2>5. CASE CallOtherList(c)
    BY <2>5 DEF CallOtherList, TypeOK, Goto, Pcs, storage, handler
  <2>6. CASE CallOneFile(c)
    <3>1. FirstStep[rq.route] \in Pcs
      BY <2>1, <2>6, RequestsAssumption
      DEF CallOneFile, FirstStep, Pcs, RequestsType, Lists, ClusterLists,
          NamespaceLists, Gets
    <3> QED
      BY <2>6, <3>1 DEF CallOneFile, TypeOK, Goto, storage, handler
  <2>7. CASE ProbeDir(c)
    BY <2>1, <2>7, TableFacts DEF ProbeDir, TypeOK, Goto, Pcs, storage
  <2>8. CASE ProbeFile(c)
    BY <2>1, <2>8, TableFacts DEF ProbeFile, TypeOK, Goto, Pcs, storage
  <2>9. CASE ReadDirFails(c)
    BY <2>9, ReplyTypeOK, NilIsValue DEF ReadDirFails, Codes
  <2>10. CASE ReadDir(c)
    BY <2>10 DEF ReadDir, TypeOK, Goto, Pcs, storage, JSONFilesOf
  <2>11. CASE LoopStat(c)
    BY <2>11 DEF LoopStat, TypeOK, Goto, Pcs, storage
  <2>12. CASE LoopDone(c)
    BY <2>1, <2>12, ReplyTypeOK, NilIsValue DEF LoopDone, OrEmptyList, Codes
  <2>13. CASE Stat(c)
    <3>1. CASE Reply(c, "OK", EmptyUnstructuredList)
      BY <3>1, ReplyTypeOK, NilIsValue DEF Codes
    <3>2. CASE ~Reply(c, "OK", EmptyUnstructuredList)
      BY <2>13, <3>2 DEF Stat, TypeOK, Goto, Pcs, storage, handler
    <3> QED BY <3>1, <3>2
  <2>14. CASE ReadFails(c)
    BY <2>14, ReplyTypeOK, NilIsValue DEF ReadFails, Codes
  <2>15. CASE ReadList(c)
    <3> DEFINE read == ListIn(rq, data)
               only == single[c] \/ rq.route \in NamespaceLists
               list == IF only THEN read
                       ELSE Merge(result[c], read, MergeTypes(rq.route))
    <3>1. data \in FileData
      BY <2>1, <2>15 DEF ReadList
    <3>2. read \in Value
      BY <2>1, <3>1, ListInFacts
    <3>3. Merge(result[c], read, MergeTypes(rq.route)) \in Value
      <4> HIDE DEF read
      <4> QED BY <2>1, <3>2, TableFacts, MergeFacts
    <3>4. list \in Value
      BY <3>2, <3>3
    <3>5. \/ Reply(c, FailCode(list), Nil)
          \/ Reply(c, "OK", IF rq.route = "V1List" THEN OrEmptyList(list) ELSE list)
          \/ /\ result' = [result EXCEPT ![c] = list]
             /\ Goto(c, "loop")
             /\ UNCHANGED <<storage, req, dir, ns, todo, single, resp>>
      BY <2>15 DEF ReadList
    <3> HIDE DEF list
    <3>6. CASE Reply(c, FailCode(list), Nil)
      BY <3>6, ReplyTypeOK, NilIsValue DEF FailCode, Codes
    <3>7. CASE Reply(c, "OK", IF rq.route = "V1List" THEN OrEmptyList(list) ELSE list)
      BY <3>4, <3>7, ReplyTypeOK, NilIsValue DEF OrEmptyList, Codes
    <3>8. CASE /\ result' = [result EXCEPT ![c] = list]
               /\ Goto(c, "loop")
               /\ UNCHANGED <<storage, req, dir, ns, todo, single, resp>>
      BY <3>4, <3>8 DEF TypeOK, Goto, Pcs, storage
    <3> QED BY <3>5, <3>6, <3>7, <3>8
  <2>16. CASE ReadGet(c)
    <3> DEFINE read == Decode(rq.resource, data)
               list == IF rq.route # "V1Get" /\ read.type = "nil" THEN Panic
                       ELSE read
    <3>1. read \in Value
      BY <2>1, <2>16, DecodeFacts DEF ReadGet
    <3>2. list \in Value
      <4> HIDE DEF read
      <4> QED BY <3>1 DEF Panic, Value, Types, Outcomes
    <3>3. \/ Reply(c, FailCode(list), Nil)
          \/ Reply(c, "NotFound", Nil)
          \/ \E o \in list.items :
               Reply(c, "OK", [type |-> list.type, items |-> {o}])
      BY <2>16 DEF ReadGet, FoundIn
    <3> HIDE DEF list
    <3>4. \A o \in list.items : [type |-> list.type, items |-> {o}] \in Value
      BY <3>2 DEF Value
    <3> QED
      BY <3>3, <3>4, ReplyTypeOK, NilIsValue DEF FailCode, Codes
  <2> QED
    BY <1>2, <2>2, <2>3, <2>4, <2>5, <2>6, <2>7, <2>8, <2>9, <2>10, <2>11,
       <2>12, <2>13, <2>14, <2>15, <2>16 DEF Handle
<1>3. CASE UNCHANGED vars
  BY <1>3 DEF TypeOK, vars, storage, handler
<1> QED BY <1>1, <1>2, <1>3 DEF Next

LEMMA TypeOKInit ==
  ASSUME Init
  PROVE  TypeOK
<1>1. \A c \in Clients : /\ BaseDir(req[c]) \in Dirs
                        /\ req[c].ns \in Namespaces \cup {0}
  BY TableFacts DEF Init
<1> QED
  BY <1>1, NilIsValue DEF Init, TypeOK, Pcs, Codes, NoResponse

(* Every variable of the server keeps its type. *)
THEOREM TypeCorrect == Spec => []TypeOK
BY TypeOKInit, TypeOKStep, PTL DEF Spec

-----------------------------------------------------------------------------
(* Soundness of the lists *)

(* What a step of the handler of c leaves alone. *)
LEMMA HandleFrame ==
  ASSUME TypeOK, NEW c \in Clients, Handle(c)
  PROVE  /\ storage' = storage
         /\ \A d \in Clients \ {c} :
              /\ pc'[d] = pc[d] /\ dir'[d] = dir[d] /\ ns'[d] = ns[d]
              /\ todo'[d] = todo[d] /\ single'[d] = single[d]
              /\ result'[d] = result[d] /\ resp'[d] = resp[d]
<1> USE DEF TypeOK, Reply, Goto, handler
<1>1. CASE Refuse(c)          BY <1>1 DEF Refuse
<1>2. CASE CallDirList(c)     BY <1>2 DEF CallDirList
<1>3. CASE CallFileList(c)    BY <1>3 DEF CallFileList
<1>4. CASE CallOtherList(c)   BY <1>4 DEF CallOtherList
<1>5. CASE CallOneFile(c)     BY <1>5 DEF CallOneFile
<1>6. CASE ProbeDir(c)        BY <1>6 DEF ProbeDir
<1>7. CASE ProbeFile(c)       BY <1>7 DEF ProbeFile
<1>8. CASE ReadDirFails(c)    BY <1>8 DEF ReadDirFails
<1>9. CASE ReadDir(c)         BY <1>9 DEF ReadDir
<1>10. CASE LoopStat(c)       BY <1>10 DEF LoopStat
<1>11. CASE LoopDone(c)       BY <1>11 DEF LoopDone
<1>12. CASE Stat(c)           BY <1>12 DEF Stat
<1>13. CASE ReadFails(c)      BY <1>13 DEF ReadFails
<1>14. CASE ReadList(c)       BY <1>14 DEF ReadList
<1>15. CASE ReadGet(c)        BY <1>15 DEF ReadGet
<1> QED
  BY <1>1, <1>2, <1>3, <1>4, <1>5, <1>6, <1>7, <1>8, <1>9, <1>10, <1>11,
     <1>12, <1>13, <1>14, <1>15 DEF Handle

LEMMA ReplyFacts ==
  ASSUME TypeOK, NEW c \in Clients, NEW code, NEW value,
         Reply(c, code, value)
  PROVE  /\ pc'[c] = "replied"
         /\ resp'[c] = [code |-> code, value |-> value]
         /\ dir'[c] = dir[c] /\ ns'[c] = ns[c] /\ todo'[c] = todo[c]
         /\ single'[c] = single[c] /\ result'[c] = result[c]
BY DEF Reply, Goto, TypeOK, handler

(* Where a handler is decides which directory and file it looks at. *)
Where(c) ==
  /\ pc[c] \in {"idle", "probedir", "probefile"} => dir[c] = BaseDir(req[c])
  /\ dir[c] \in {BaseDir(req[c]), CustomDir(req[c])}
  /\ pc[c] \in {"probedir", "readdir", "loop"} => req[c].route \in ClusterLists
  /\ pc[c] \in {"probefile", "stat"} => req[c].route \notin ClusterLists
  /\ req[c].route \notin ClusterLists => ns[c] = req[c].ns

WhereInv == \A c \in Clients : Where(c)

LEMMA WhereStep ==
  ASSUME TypeOK, WhereInv, [Next]_vars
  PROVE  WhereInv'
<1>1. CASE Cleanup
  BY <1>1 DEF WhereInv, Where, BaseDir, CustomDir, Cleanup, StartCleanup,
     RemoveFile, RemoveDir, Exit, unserved, handler
<1>2. ASSUME NEW c \in Clients, Handle(c)
      PROVE  WhereInv'
  <2>1. req' = req
    BY <1>2, Frame DEF Next
  <2>2. \A d \in Clients \ {c} : Where(d)'
    BY <1>2, <2>1, HandleFrame DEF WhereInv, Where, BaseDir, CustomDir
  <2>3. Where(c)
    BY DEF WhereInv
  <2>4. Where(c)'
    <3>1. ASSUME NEW code, NEW value, Reply(c, code, value)
          PROVE  Where(c)'
      BY <2>1, <2>3, <3>1, ReplyFacts DEF Where, BaseDir, CustomDir
    <3> USE DEF TypeOK, Where, BaseDir, CustomDir, Goto, At, Accept, handler
    <3>2. CASE Refuse(c)          BY <3>1, <3>2 DEF Refuse
    <3>3. CASE CallDirList(c)     BY <2>1, <2>3, <3>3 DEF CallDirList
    <3>4. CASE CallFileList(c)    BY <2>1, <2>3, <3>4 DEF CallFileList
    <3>5. CASE CallOtherList(c)   BY <2>1, <2>3, <3>5 DEF CallOtherList
    <3>6. CASE CallOneFile(c)
      <4>1. FirstStep[req[c].route] \in {"stat", "read", "probefile"}
        <5>1. req[c].route \in (Lists \cup Gets) \ ClusterLists
          BY <3>6, RequestsAssumption DEF CallOneFile, RequestsType
        <5> QED
          BY <5>1 DEF FirstStep, Lists, Gets, ClusterLists, NamespaceLists
      <4> QED BY <2>1, <2>3, <3>6, <4>1 DEF CallOneFile
    <3>7. CASE ProbeDir(c)        BY <2>1, <2>3, <3>7 DEF ProbeDir
    <3>8. CASE ProbeFile(c)       BY <2>1, <2>3, <3>8 DEF ProbeFile
    <3>9. CASE ReadDirFails(c)    BY <3>1, <3>9 DEF ReadDirFails
    <3>10. CASE ReadDir(c)        BY <2>1, <2>3, <3>10 DEF ReadDir
    <3>11. CASE LoopStat(c)       BY <2>1, <2>3, <3>11 DEF LoopStat
    <3>12. CASE LoopDone(c)       BY <3>1, <3>12 DEF LoopDone
    <3>13. CASE Stat(c)           BY <2>1, <2>3, <3>1, <3>13 DEF Stat
    <3>14. CASE ReadFails(c)      BY <3>1, <3>14 DEF ReadFails
    <3>15. CASE ReadGet(c)        BY <3>1, <3>15 DEF ReadGet
    <3>16. CASE ReadList(c)
      <4>1. CASE \E code, value : Reply(c, code, value)
        BY <3>1, <4>1
      <4>2. CASE ~\E code, value : Reply(c, code, value)
        <5>1. /\ Goto(c, "loop") /\ UNCHANGED <<dir, ns>>
              /\ req[c].route \in Lists /\ req[c].route \notin NamespaceLists
          BY <3>16, <4>2 DEF ReadList
        <5> QED
          BY <2>1, <2>3, <5>1 DEF Lists
      <4> QED BY <4>1, <4>2
    <3> QED
      BY <1>2, <3>2, <3>3, <3>4, <3>5, <3>6, <3>7, <3>8, <3>9, <3>10, <3>11,
         <3>12, <3>13, <3>14, <3>15, <3>16 DEF Handle
  <2> QED BY <2>2, <2>4 DEF WhereInv
<1>3. CASE UNCHANGED vars
  BY <1>3 DEF WhereInv, Where, BaseDir, CustomDir, vars, handler
<1> QED BY <1>1, <1>2, <1>3 DEF Next

(* The list a handler builds, and the list it answered, are eligible. *)
Sound(c) ==
  /\ result[c].items \subseteq Eligible(req[c])
  /\ Listed(c) => resp[c].value.items \subseteq Eligible(req[c])

SoundInv == \A c \in Clients : Sound(c)

LEMMA EligibleFrame ==
  ASSUME [Next]_vars, NEW c \in Clients
  PROVE  Eligible(req[c])' = Eligible(req[c])
BY Frame DEF Eligible, BaseDir, CustomDir

(* The items a list handler keeps of the file it reads are eligible. *)
LEMMA ReadIsEligible ==
  ASSUME TypeOK, NEW c \in Clients, Where(c), FileExists(c), pc[c] = "read"
  PROVE  ListIn(req[c], bundle.data[CurrentFile(c)]).items \subseteq Eligible(req[c])
<1> DEFINE p == CurrentFile(c)
           read == ListIn(req[c], bundle.data[p])
<1>1. /\ p \in DOMAIN bundle.data /\ bundle.data[p] \in FileData
      /\ p.dir = dir[c] /\ p.ns = ns[c] /\ req[c] \in Requests
  BY BundlesAssumption DEF TypeOK, FileExists, CurrentFile
<1>2. /\ read.items \subseteq bundle.data[p].items
      /\ read \in Value
      /\ req[c].route \in SelectingRoutes =>
           read.items \subseteq Match[req[c].labels]
  BY <1>1, ListInFacts
<1>3. p.dir \in {BaseDir(req[c]), CustomDir(req[c])}
  BY <1>1 DEF Where
<1>4. req[c].route \in NamespaceLists => p.ns = req[c].ns
  BY <1>1 DEF Where, NamespaceLists, ClusterLists
<1>5. read.items \subseteq Objects
  BY <1>2 DEF Value
<1> HIDE DEF read, p
<1>6. read.items \subseteq Eligible(req[c])
  BY <1>1, <1>2, <1>3, <1>4, <1>5 DEF Eligible
<1> QED BY <1>6 DEF read, p

LEMMA SoundStep ==
  ASSUME TypeOK, WhereInv, SoundInv, [Next]_vars
  PROVE  SoundInv'
<1>1. req' = req /\ \A c \in Clients : Eligible(req[c])' = Eligible(req[c])
  BY Frame, EligibleFrame
<1>2. CASE Cleanup
  BY <1>1, <1>2 DEF SoundInv, Sound, Listed, Cleanup, StartCleanup, RemoveFile,
     RemoveDir, Exit, unserved, handler
<1>3. ASSUME NEW c \in Clients, Handle(c)
      PROVE  SoundInv'
  <2>1. \A d \in Clients \ {c} : Sound(d)'
    BY <1>1, <1>3, HandleFrame DEF SoundInv, Sound, Listed
  <2>2. /\ Sound(c) /\ Where(c) /\ req[c] \in Requests
        /\ result \in [Clients -> Value]
    BY DEF SoundInv, WhereInv, TypeOK
  <2>3. Sound(c)'
    <3>1. ASSUME NEW code, NEW value, Reply(c, code, value),
                 code = "OK" /\ req[c].route \in Lists
                   => value.items \subseteq Eligible(req[c])
          PROVE  Sound(c)'
      <4>1. /\ resp'[c] = [code |-> code, value |-> value]
            /\ result'[c] = result[c]
        BY <3>1, ReplyFacts
      <4>2. resp'[c].code = code /\ resp'[c].value = value
        BY <4>1
      <4>3. Eligible(req[c])' = Eligible(req[c])
        BY <1>1
      <4> QED
        BY <1>1, <2>2, <3>1, <4>1, <4>2, <4>3 DEF Sound, Listed
    <3>2. Nil.items = {} /\ EmptyUnstructuredList.items = {}
      BY DEF Nil, EmptyUnstructuredList
    <3>3. ASSUME UNCHANGED <<result, resp>>
          PROVE  Sound(c)'
      BY <1>1, <2>2, <3>3 DEF Sound, Listed
    <3>4. CASE Refuse(c)
      BY <3>1, <3>2, <3>4 DEF Refuse
    <3>5. CASE CallDirList(c)
      BY <1>1, <2>2, <3>5 DEF CallDirList, Sound, Listed, Empty
    <3>6. CASE CallFileList(c)
      BY <1>1, <2>2, <3>6 DEF CallFileList, Sound, Listed, Empty
    <3>7. CASE CallOtherList(c) \/ CallOneFile(c)
      BY <3>3, <3>7 DEF CallOtherList, CallOneFile, handler
    <3>8. CASE ProbeDir(c) \/ ProbeFile(c) \/ ReadDir(c) \/ LoopStat(c)
      BY <3>3, <3>8 DEF ProbeDir, ProbeFile, ReadDir, LoopStat
    <3>9. CASE ReadDirFails(c) \/ ReadFails(c)
      BY <3>1, <3>2, <3>9 DEF ReadDirFails, ReadFails
    <3>10. CASE LoopDone(c)
      <4>1. OrEmptyList(result[c]).items \subseteq Eligible(req[c])
        BY <2>2, <3>2 DEF OrEmptyList, Sound
      <4>2. Reply(c, "OK", OrEmptyList(result[c]))
        BY <3>10 DEF LoopDone
      <4> QED BY <3>1, <4>1, <4>2
    <3>11. CASE Stat(c)
      BY <3>1, <3>2, <3>3, <3>11 DEF Stat, handler
    <3>12. CASE ReadList(c)
      <4> DEFINE read == ListIn(req[c], bundle.data[CurrentFile(c)])
                 only == single[c] \/ req[c].route \in NamespaceLists
                 list == IF only THEN read
                         ELSE Merge(result[c], read, MergeTypes(req[c].route))
      <4>1. read.items \subseteq Eligible(req[c])
        BY <2>2, <3>12, ReadIsEligible DEF ReadList, At
      <4>2. read \in Value
        BY <2>2, <3>12, BundlesAssumption, ListInFacts
        DEF ReadList, TypeOK, FileExists
      <4>3. Merge(result[c], read, MergeTypes(req[c].route)).items
              \subseteq result[c].items \cup read.items
        <5> HIDE DEF read
        <5> QED BY <2>2, <4>2, TableFacts, MergeFacts
      <4>4. list.items \subseteq Eligible(req[c])
        BY <2>2, <4>1, <4>3 DEF Sound
      <4>5. \/ Reply(c, FailCode(list), Nil)
            \/ Reply(c, "OK", IF req[c].route = "V1List" THEN OrEmptyList(list)
                                                       ELSE list)
            \/ /\ result' = [result EXCEPT ![c] = list]
               /\ resp' = resp
        BY <3>12 DEF ReadList
      <4> HIDE DEF list
      <4>6. CASE Reply(c, FailCode(list), Nil)
        BY <3>1, <3>2, <4>6
      <4>7. CASE Reply(c, "OK", IF req[c].route = "V1List" THEN OrEmptyList(list)
                                                           ELSE list)
        BY <3>1, <3>2, <4>4, <4>7 DEF OrEmptyList
      <4>8. CASE result' = [result EXCEPT ![c] = list] /\ resp' = resp
        BY <1>1, <2>2, <4>4, <4>8 DEF Sound, Listed
      <4> QED BY <4>5, <4>6, <4>7, <4>8
    <3>13. CASE ReadGet(c)
      <4>1. req[c].route \notin Lists
        BY <3>13 DEF ReadGet, Lists, ClusterLists, NamespaceLists, Gets
      <4>2. \E code, value : Reply(c, code, value)
        BY <3>13 DEF ReadGet
      <4> QED BY <3>1, <4>1, <4>2
    <3> QED
      BY <1>3, <3>4, <3>5, <3>6, <3>7, <3>8, <3>9, <3>10, <3>11, <3>12, <3>13
      DEF Handle
  <2> QED BY <2>1, <2>3 DEF SoundInv
<1>4. CASE UNCHANGED vars
  BY <1>1, <1>4 DEF SoundInv, Sound, Listed, vars, handler
<1> QED BY <1>2, <1>3, <1>4 DEF Next

LEMMA WhereSoundInit ==
  ASSUME Init
  PROVE  WhereInv /\ SoundInv
<1>1. Nil.items = {} /\ Nil.type = "nil"
  BY DEF Nil
<1> QED
  BY <1>1 DEF Init, WhereInv, Where, SoundInv, Sound, Listed, NoResponse

(* A list never holds an object of another resource or namespace, nor one  *)
(* its labelSelector excludes, whatever is deleted under the handlers.     *)
THEOREM ListsAreSound == Spec => []ListSound
<1>1. Init => TypeOK
  BY TypeOKInit
<1>2. Init => WhereInv /\ SoundInv
  BY WhereSoundInit
<1>3. TypeOK /\ WhereInv /\ SoundInv /\ [Next]_vars
        => TypeOK' /\ WhereInv' /\ SoundInv'
  BY TypeOKStep, WhereStep, SoundStep
<1>4. SoundInv => ListSound
  BY DEF SoundInv, Sound, ListSound
<1> QED BY <1>1, <1>2, <1>3, <1>4, PTL DEF Spec
=============================================================================
