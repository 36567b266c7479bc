------------------------------ MODULE ApiServer ------------------------------
(***************************************************************************)
(* The handlers of pkg/api/server.go that list and get resources, serving  *)
(* one request per client from the files of an extracted bundle, while the *)
(* process may at any moment start to delete that bundle and exit (the     *)
(* signal handlers of cli/serve.go and cli/shell.go).                      *)
(*                                                                         *)
(* The handlers share nothing but the file system, and each of them makes  *)
(* several accesses to it (probe, read the directory, stat, read): every   *)
(* access is an action of its own, what a handler computes from it belongs *)
(* to that action.                                                         *)
(*                                                                         *)
(* A file is named by its directory and a number: <<"pods", "">> stands    *)
(* for <cluster-resources>/pods and <<"foos", "g">> for                    *)
(* <cluster-resources>/custom-resources/foos.g; the file of namespace n in *)
(* directory d is [dir |-> d, ns |-> n], with the namespaces numbered in   *)
(* the order of os.ReadDir, and [dir |-> d, ns |-> 0] is the file d.json   *)
(* beside the directory.                                                   *)
(***************************************************************************)
EXTENDS Resources

CONSTANTS
  Clients,     \* concurrent requests
  Namespaces,  \* namespace numbers
  Bundles,     \* the extracted bundles the server may be given
  Requests     \* the requests the clients may make

ASSUME NamespacesAssumption == Namespaces \subseteq Nat \ {0}

(* The routes registered by StartAPIServer that list or get resources. *)
ClusterLists    == {"V1List", "ApisList"}
NamespaceLists  == {"V1NsList", "ApisNsList"}
Lists           == ClusterLists \cup NamespaceLists
Gets            == {"V1Get", "V1NsGet", "ApisGet", "ApisNsGet"}
SelectingRoutes == {"V1List", "V1NsList"}

(* valid: every path parameter is a local file name (isValidPathParameter) *)
RequestsType ==
  [route : Lists \cup Gets, resource : STRING, group : STRING,
   version : STRING, ns : Namespaces \cup {0}, name : Names,
   fields : Selectors \cup {BadSel}, labels : Selectors \cup {BadSel},
   valid : BOOLEAN]

NamespacedRoutes == NamespaceLists \cup {"V1NsGet", "ApisNsGet"}

ASSUME RequestsAssumption ==
  /\ Requests \subseteq RequestsType
  /\ \A rq \in Requests : rq.ns # 0 <=> rq.route \in NamespacedRoutes

ASSUME BundlesAssumption ==
  \A b \in Bundles : \A p \in DOMAIN b.data :
    /\ p = [dir |-> p.dir, ns |-> p.ns]
    /\ p.ns \in Namespaces \cup {0}
    /\ p.ns # 0 => p.dir \in b.dirs
    /\ b.data[p] \in FileData

-----------------------------------------------------------------------------
(* Tables of the handlers that list all namespaces. *)

(* getAPIV1ClusterResources: resources stored as one file, and what the    *)
(* result is before it is read                                             *)
V1FileResources ==
  [namespaces          |-> "nil",
   nodes               |-> "nil",
   persistentvolumes   |-> "nil",
   clusterroles        |-> "nil",
   clusterrolebindings |-> "nil"]

(* and resources stored as a directory with a file per namespace *)
V1DirResources ==
  [pods                   |-> "PodList",
   events                 |-> "EventList",
   limitranges            |-> "LimitRangeList",
   services               |-> "ServiceList",
   persistentvolumeclaims |-> "PersistentVolumeClaimList",
   configmaps             |-> "ConfigMapList"]

(* getAPIsClusterResources, likewise *)
ApisFileResources ==
  [storageclasses            |-> "StorageClassList",
   customresourcedefinitions |-> "CustomResourceDefinitionList",
   clusterroles              |-> "ClusterRoleList",
   clusterrolebindings       |-> "ClusterRoleBindingList"]

ApisDirResources ==
  [jobs         |-> "JobList",
   cronjobs     |-> "CronJobListV1beta1",
   deployments  |-> "DeploymentList",
   replicasets  |-> "ReplicaSetList",
   statefulsets |-> "StatefulSetList",
   ingresses    |-> "IngressList",
   roles        |-> "RoleList",
   rolebindings |-> "RoleBindingList"]

FileResources(route) ==
  IF route = "V1List" THEN V1FileResources ELSE ApisFileResources
DirResources(route) ==
  IF route = "V1List" THEN V1DirResources ELSE ApisDirResources

(* The types appended to the result by the switch that merges the files. *)
MergeTypes(route) ==
  IF route = "V1List"
    THEN {"EventList", "PodList", "LimitRangeList", "ServiceList",
          "PersistentVolumeClaimList", "ConfigMapList"}
    ELSE {"JobList", "CronJobListV1beta1", "DeploymentList",
          "ReplicaSetList", "StatefulSetList", "StorageClassList",
          "IngressList", "RoleList", "RoleBindingList"}

BaseDir(rq)   == <<GetSBCompatibleResourceName(rq.resource), "">>
CustomDir(rq) == <<rq.resource, rq.group>>
Dirs == {BaseDir(rq) : rq \in Requests} \cup {CustomDir(rq) : rq \in Requests}

-----------------------------------------------------------------------------
VARIABLES
  bundle,    \* the bundle extracted before the server started
  files,     \* the files of it that still exist
  dirs,      \* the directories of it that still exist
  cleaning,  \* the signal handler is in os.RemoveAll
  up,        \* the process has not exited
  req,       \* the request of each client
  pc,        \* where the handler of each request is
  dir, ns,   \* the directory and the file it looks at
  todo,      \* the files of dir its loop has not reached
  single,    \* len(filenames) = 1
  result,    \* the list it builds
  resp       \* its response

storage == <<bundle, files, dirs, cleaning, up>>
handler == <<dir, ns, todo, single, result>>
vars    == <<storage, req, pc, handler, resp>>

Pcs   == {"idle", "readdir", "probedir", "probefile", "stat", "loop",
          "read", "replied"}
Codes == {"none", "OK", "BadRequest", "NotFound", "ServerError", "Aborted"}

NoResponse == [code |-> "none", value |-> Nil]

TypeOK ==
  /\ bundle \in Bundles
  /\ files \subseteq DOMAIN bundle.data
  /\ dirs \subseteq bundle.dirs
  /\ cleaning \in BOOLEAN /\ up \in BOOLEAN
  /\ req \in [Clients -> Requests]
  /\ pc \in [Clients -> Pcs]
  /\ dir \in [Clients -> Dirs]
  /\ ns \in [Clients -> Namespaces \cup {0}]
  /\ todo \in [Clients -> SUBSET (Namespaces \cup {0})]
  /\ single \in [Clients -> BOOLEAN]
  /\ result \in [Clients -> Value]
  /\ resp \in [Clients -> [code : Codes, value : Value]]

Init ==
  /\ bundle \in Bundles
  /\ files = DOMAIN bundle.data
  /\ dirs = bundle.dirs
  /\ cleaning = FALSE
  /\ up = TRUE
  /\ req \in [Clients -> Requests]
  /\ pc = [c \in Clients |-> "idle"]
  /\ dir = [c \in Clients |-> BaseDir(req[c])]
  /\ ns = [c \in Clients |-> req[c].ns]
  /\ todo = [c \in Clients |-> {}]
  /\ single = [c \in Clients |-> FALSE]
  /\ result = [c \in Clients |-> Nil]
  /\ resp = [c \in Clients |-> NoResponse]

-----------------------------------------------------------------------------
(* Steps of a handler. *)

At(c, label)   == up /\ pc[c] = label
Goto(c, label) == pc' = [pc EXCEPT ![c] = label]

Reply(c, code, value) ==
  /\ Goto(c, "replied")
  /\ resp' = [resp EXCEPT ![c] = [code |-> code, value |-> value]]
  /\ UNCHANGED <<storage, req, handler>>

CurrentFile(c) == [dir |-> dir[c], ns |-> ns[c]]
FileExists(c)  == CurrentFile(c) \in files

(* validatePathParameters, and fields.ParseSelector on both parameters in  *)
(* the handlers that read them                                             *)
SelectorsParse(rq) ==
  rq.route \in SelectingRoutes => BadSel \notin {rq.fields, rq.labels}

Refuse(c) ==
  /\ At(c, "idle")
  /\ \/ ~req[c].valid /\ Reply(c, "BadRequest", Nil)
     \/ req[c].valid /\ ~SelectorsParse(req[c]) /\ Reply(c, "ServerError", Nil)

Accept(c) == At(c, "idle") /\ req[c].valid /\ SelectorsParse(req[c])

Empty(type) == [type |-> type, items |-> {}]

(* Mutant: the switch does not initialise the result. *)
CallDirListUninitialised(c) ==
  LET rq == req[c]
  IN  /\ Accept(c)
      /\ rq.route \in ClusterLists
      /\ rq.resource \in DOMAIN DirResources(rq.route)
      /\ Goto(c, "readdir")
      /\ UNCHANGED <<storage, req, handler, resp>>

(* A list over all namespaces of a resource the switch knows *)
CallDirList(c) ==
  LET rq == req[c]
  IN  /\ Accept(c)
      /\ rq.route \in ClusterLists
      /\ rq.resource \in DOMAIN DirResources(rq.route)
      /\ result' =
           [result EXCEPT ![c] = Empty(DirResources(rq.route)[rq.resource])]
      /\ Goto(c, "readdir")
      /\ UNCHANGED <<storage, req, dir, ns, todo, single, resp>>

CallFileList(c) ==
  LET rq == req[c]
  IN  /\ Accept(c)
      /\ rq.route \in ClusterLists
      /\ rq.resource \in DOMAIN FileResources(rq.route)
      /\ result' =
           [result EXCEPT ![c] = Empty(FileResources(rq.route)[rq.resource])]
      /\ todo' = [todo EXCEPT ![c] = {0}]
      /\ single' = [single EXCEPT ![c] = TRUE]
      /\ Goto(c, "loop")
      /\ UNCHANGED <<storage, req, dir, ns, resp>>

(* any other resource: /api/v1 has no file for it, /apis looks for a *)
(* directory                                                         *)
CallOtherList(c) ==
  LET rq == req[c]
  IN  /\ Accept(c)
      /\ rq.route \in ClusterLists
      /\ rq.resource \notin DOMAIN DirResources(rq.route)
                             \cup DOMAIN FileResources(rq.route)
      /\ Goto(c, IF rq.route = "V1List" THEN "loop" ELSE "probedir")
      /\ UNCHANGED <<storage, req, handler, resp>>

(* The other handlers read one file: of a namespace, or d.json (ns = 0). *)
FirstStep ==
  [V1NsList   |-> "stat",      V1NsGet   |-> "read",      V1Get   |-> "read",
   ApisNsList |-> "probefile", ApisNsGet |-> "probefile", ApisGet |-> "probefile"]

CallOneFile(c) ==
  /\ Accept(c)
  /\ req[c].route \notin ClusterLists
  /\ Goto(c, FirstStep[req[c].route])
  /\ UNCHANGED <<storage, req, handler, resp>>

(* pathExists(dirName), or the directory of custom resources *)
ProbeDir(c) ==
  /\ At(c, "probedir")
  /\ dir' = IF dir[c] \in dirs
              THEN dir
              ELSE [dir EXCEPT ![c] = CustomDir(req[c])]
  /\ Goto(c, "readdir")
  /\ UNCHANGED <<storage, req, ns, todo, single, result, resp>>

(* Mutant: the file of custom resources under the compatible name. *)
ProbeFileCompatible(c) ==
  /\ At(c, "probefile")
  /\ dir' = IF FileExists(c)
              THEN dir
              ELSE [dir EXCEPT ![c] =
                      <<GetSBCompatibleResourceName(req[c].resource), req[c].group>>]
  /\ Goto(c, IF req[c].route = "ApisNsList" THEN "stat" ELSE "read")
  /\ UNCHANGED <<storage, req, ns, todo, single, result, resp>>

(* Mutant: only the list looks for custom resources. *)
ProbeFileOfLists(c) ==
  /\ At(c, "probefile")
  /\ dir' = IF FileExists(c) \/ req[c].route \in Gets
              THEN dir
              ELSE [dir EXCEPT ![c] = CustomDir(req[c])]
  /\ Goto(c, IF req[c].route = "ApisNsList" THEN "stat" ELSE "read")
  /\ UNCHANGED <<storage, req, ns, todo, single, result, resp>>

(* fileExists(fileName), or the file of custom resources *)
ProbeFile(c) ==
  /\ At(c, "probefile")
  /\ dir' = IF FileExists(c)
              THEN dir
              ELSE [dir EXCEPT ![c] = CustomDir(req[c])]
  /\ Goto(c, IF req[c].route = "ApisNsList" THEN "stat" ELSE "read")
  /\ UNCHANGED <<storage, req, ns, todo, single, result, resp>>

(* getJSONFileListFromDir: a directory that cannot be read is an error for *)
(* the resources of the switch; for the others an empty or unreadable      *)
(* directory d is replaced by the file d.json.                             *)
JSONFilesOf(d) == {n \in Namespaces : [dir |-> d, ns |-> n] \in files}

ReadDirFails(c) ==
  /\ At(c, "readdir")
  /\ dir[c] \notin dirs
  /\ req[c].resource \in DOMAIN DirResources(req[c].route)
  /\ Reply(c, "ServerError", Nil)

ReadDir(c) ==
  LET known == req[c].resource \in DOMAIN DirResources(req[c].route)
      found == IF dir[c] \in dirs THEN JSONFilesOf(dir[c]) ELSE {}
      names == IF found = {} /\ ~known THEN {0} ELSE found
  IN  /\ At(c, "readdir")
      /\ known => dir[c] \in dirs
      /\ todo' = [todo EXCEPT ![c] = names]
      /\ single' = [single EXCEPT ![c] = \E n \in names : names = {n}]
      /\ Goto(c, "loop")
      /\ UNCHANGED <<storage, req, dir, ns, result, resp>>

(* Mutant: a file that is gone ends the loop. *)
LoopStatBreaks(c) ==
  /\ At(c, "loop")
  /\ \E n \in todo[c] :
       /\ \A m \in todo[c] : n <= m
       /\ IF [dir |-> dir[c], ns |-> n] \in files
            THEN /\ Goto(c, "read") /\ ns' = [ns EXCEPT ![c] = n]
                 /\ todo' = [todo EXCEPT ![c] = @ \ {n}]
            ELSE UNCHANGED <<pc, ns>> /\ todo' = [todo EXCEPT ![c] = {}]
  /\ UNCHANGED <<storage, req, dir, single, result, resp>>

(* Mutant: a file that is gone is waited for. *)
LoopStatWaits(c) ==
  /\ At(c, "loop")
  /\ \E n \in todo[c] :
       /\ \A m \in todo[c] : n <= m
       /\ [dir |-> dir[c], ns |-> n] \in files
       /\ todo' = [todo EXCEPT ![c] = @ \ {n}]
       /\ Goto(c, "read") /\ ns' = [ns EXCEPT ![c] = n]
  /\ UNCHANGED <<storage, req, dir, single, result, resp>>

(* One turn of the loop over the file names up to the read: a file that is *)
(* gone is skipped.                                                        *)
LoopStat(c) ==
  /\ At(c, "loop")
  /\ \E n \in todo[c] :
       /\ \A m \in todo[c] : n <= m
       /\ todo' = [todo EXCEPT ![c] = @ \ {n}]
       /\ IF [dir |-> dir[c], ns |-> n] \in files
            THEN Goto(c, "read") /\ ns' = [ns EXCEPT ![c] = n]
            ELSE UNCHANGED <<pc, ns>>
  /\ UNCHANGED <<storage, req, dir, single, result, resp>>

OrEmptyList(v) == IF v.type = "nil" THEN EmptyUnstructuredList ELSE v

LoopDone(c) ==
  /\ At(c, "loop")
  /\ todo[c] = {}
  /\ Reply(c, "OK", OrEmptyList(result[c]))

(* "If we know the file does not exist, just respond with an empty list" *)
Stat(c) ==
  /\ At(c, "stat")
  /\ \/ ~FileExists(c) /\ Reply(c, "OK", EmptyUnstructuredList)
     \/ /\ FileExists(c)
        /\ Goto(c, "read")
        /\ UNCHANGED <<storage, req, handler, resp>>

(* readFileAndLog fails: the file went after the stat, or, in a handler    *)
(* that makes none, was never there                                        *)
ReadFails(c) ==
  /\ At(c, "read")
  /\ ~FileExists(c)
  /\ Reply(c, IF req[c].route \in Gets THEN "NotFound" ELSE "ServerError", Nil)

Failure(v)  == v.type \in {"error", "panic"}
FailCode(v) == IF v.type = "panic" THEN "Aborted" ELSE "ServerError"

(* Mutant: the label selector is not applied. *)
ListInUnlabelled(rq, data) ==
  LET decoded == Decode(rq.resource, data)
  IN  IF rq.route \in SelectingRoutes
        THEN FilterObjectsByFields(decoded, rq.fields)
        ELSE decoded

(* Mutant: the field selector is not applied. *)
ListInUnfielded(rq, data) ==
  LET decoded == Decode(rq.resource, data)
  IN  IF rq.route \in SelectingRoutes
        THEN FilterObjectsByLabels(decoded, rq.labels)
        ELSE decoded

(* The list in a file, filtered by the handlers that take selectors. *)
ListIn(rq, data) ==
  LET decoded == Decode(rq.resource, data)
  IN  IF rq.route \in SelectingRoutes
        THEN FilterObjectsByFields(FilterObjectsByLabels(decoded, rq.labels),
                                   rq.fields)
        ELSE decoded

(* The read of a handler that lists: the list of the only file is the      *)
(* answer, one of several is merged into the result.                       *)
ReadList(c) ==
  LET rq   == req[c]
      only == single[c] \/ rq.route \in NamespaceLists
      read == ListIn(rq, bundle.data[CurrentFile(c)])
      list == IF only THEN read ELSE Merge(result[c], read, MergeTypes(rq.route))
  IN  /\ At(c, "read")
      /\ FileExists(c)
      /\ rq.route \in Lists
      /\ \/ Failure(list) /\ Reply(c, FailCode(list), Nil)
         \/ /\ ~Failure(list) /\ only
            /\ Reply(c, "OK", IF rq.route = "V1List" THEN OrEmptyList(list) ELSE list)
         \/ /\ ~Failure(list) /\ ~only
            /\ result' = [result EXCEPT ![c] = list]
            /\ Goto(c, "loop")
            /\ UNCHANGED <<storage, req, dir, ns, todo, single, resp>>

(* The types getAPIV1ClusterResource searches; the other handlers search   *)
(* any type, in the end as an unstructured list.                           *)
V1GetTypes == {"NamespaceList", "NodeList", "PersistentVolumeList"}

(* The objects of the requested name, in a list the handler searches. *)
FoundIn(rq, list) ==
  {o \in list.items :
     /\ rq.route = "V1Get" => list.type \in V1GetTypes
     /\ NameOf[o] = rq.name}

(* The read of a handler that gets one object, the first it finds. *)
ReadGet(c) ==
  LET rq    == req[c]
      read  == Decode(rq.resource, bundle.data[CurrentFile(c)])
      list  == IF rq.route # "V1Get" /\ read.type = "nil" THEN Panic ELSE read
      found == FoundIn(rq, list)
  IN  /\ At(c, "read")
      /\ FileExists(c)
      /\ rq.route \in Gets
      /\ \/ Failure(list) /\ Reply(c, FailCode(list), Nil)
         \/ ~Failure(list) /\ found = {} /\ Reply(c, "NotFound", Nil)
         \/ /\ ~Failure(list)
            /\ \E o \in found : Reply(c, "OK", [type |-> list.type, items |-> {o}])

Handle(c) ==
  \/ Refuse(c) \/ CallDirList(c) \/ CallFileList(c) \/ CallOtherList(c)
  \/ CallOneFile(c) \/ ProbeDir(c) \/ ProbeFile(c) \/ ReadDirFails(c)
  \/ ReadDir(c) \/ LoopStat(c) \/ LoopDone(c) \/ Stat(c) \/ ReadFails(c)
  \/ ReadList(c) \/ ReadGet(c)

-----------------------------------------------------------------------------
(* The signal handler: os.RemoveAll(bundleDir) if the bundle was           *)
(* extracted, children first, then os.Exit, with the server still          *)
(* answering.                                                              *)
unserved == <<req, pc, handler, resp>>

StartCleanup ==
  /\ up /\ ~cleaning
  /\ cleaning' = TRUE
  /\ UNCHANGED <<bundle, files, dirs, up, unserved>>

RemoveFile ==
  /\ up /\ cleaning
  /\ \E p \in files : files' = files \ {p}
  /\ UNCHANGED <<bundle, dirs, cleaning, up, unserved>>

RemoveDir ==
  /\ up /\ cleaning
  /\ \E d \in dirs :
       /\ \A p \in files : p.ns # 0 => p.dir # d
       /\ dirs' = dirs \ {d}
  /\ UNCHANGED <<bundle, files, cleaning, up, unserved>>

(* os.Exit, at once when the bundle is the user's own directory. *)
Exit ==
  /\ up
  /\ cleaning => files = {} /\ dirs = {}
  /\ up' = FALSE
  /\ UNCHANGED <<bundle, files, dirs, cleaning, unserved>>

Cleanup == StartCleanup \/ RemoveFile \/ RemoveDir \/ Exit

Next == Cleanup \/ \E c \in Clients : Handle(c)

Spec     == Init /\ [][Next]_vars
FairSpec == Spec /\ \A c \in Clients : WF_vars(Handle(c))

-----------------------------------------------------------------------------
(* What the bundle stores for a request: the files a handler would use if  *)
(* it looked at the bundle at once, before any of it is deleted.           *)
Stored(d, n) == [dir |-> d, ns |-> n] \in DOMAIN bundle.data

Home(rq) ==
  LET hasBase == IF rq.route = "ApisList"
                   THEN BaseDir(rq) \in bundle.dirs
                   ELSE Stored(BaseDir(rq), rq.ns)
      known   == rq.route = "ApisList" /\ rq.resource \in
                   DOMAIN ApisDirResources \cup DOMAIN ApisFileResources
  IN  IF rq.route \in {"ApisList", "ApisNsList", "ApisGet", "ApisNsGet"}
         /\ ~known /\ ~hasBase
        THEN CustomDir(rq)
        ELSE BaseDir(rq)

NamespacesOf(rq) == {n \in Namespaces : Stored(Home(rq), n)}

HomeNumbers(rq) ==
  IF rq.route \notin ClusterLists THEN {rq.ns}
  ELSE IF rq.resource \in DOMAIN DirResources(rq.route) THEN NamespacesOf(rq)
  ELSE IF rq.resource \in DOMAIN FileResources(rq.route) THEN {0}
  ELSE IF rq.route = "V1List" THEN {}
  ELSE IF NamespacesOf(rq) = {} THEN {0}
  ELSE NamespacesOf(rq)

HomeFiles(rq) ==
  {p \in DOMAIN bundle.data : p.dir = Home(rq) /\ p.ns \in HomeNumbers(rq)}

(* The items both selectors of a request match; /apis takes no selector.   *)
Selected(rq) ==
  IF rq.route \in SelectingRoutes
    THEN Match[rq.labels] \cap Match[rq.fields]
    ELSE Objects

-----------------------------------------------------------------------------
(* Properties *)

Listed(c) == req[c].route \in Lists /\ resp[c].code = "OK"

(* The objects a list may hold: those the bundle stores for the resource   *)
(* (and the namespace), without the ones the labelSelector excludes.       *)
Eligible(rq) ==
  {o \in Objects :
     /\ \E p \in DOMAIN bundle.data :
          /\ o \in bundle.data[p].items
          /\ p.dir \in {BaseDir(rq), CustomDir(rq)}
          /\ rq.route \in NamespaceLists => p.ns = rq.ns
     /\ rq.route \in SelectingRoutes => o \in Match[rq.labels]}

(* A list holds no object of another resource or namespace and none the    *)
(* labelSelector excludes, whatever the handler's fallbacks picked while   *)
(* files were being deleted.                                               *)
ListSound ==
  \A c \in Clients : Listed(c) => resp[c].value.items \subseteq Eligible(req[c])

(* The files of a list over all namespaces can be merged: there is only    *)
(* one, or the switch appends the type all of them decode to.              *)
Mergeable(rq) ==
  \/ \E p \in HomeFiles(rq) : HomeFiles(rq) = {p}
  \/ /\ rq.route \in ClusterLists
     /\ rq.resource \in DOMAIN DirResources(rq.route)
     /\ \A p \in HomeFiles(rq) :
          Decode(rq.resource, bundle.data[p]).type
            = DirResources(rq.route)[rq.resource]

(* A list the server answers is complete: it holds every selected object   *)
(* of every file that still exists, although the handler listed the        *)
(* directory, checked and read its files one by one.  In particular a list *)
(* answered while nothing is deleted holds all the bundle stores.  (A file *)
(* d.json beside an empty directory d may be missed once d is deleted.)    *)
Expected(rq) ==
  {p \in HomeFiles(rq) \cap files :
     cleaning => p.ns # 0 \/ p.dir \notin bundle.dirs}

ListCoversSurvivors ==
  \A c \in Clients : Listed(c) /\ Mergeable(req[c]) =>
    \A p \in Expected(req[c]) :
      bundle.data[p].items \cap Selected(req[c]) \subseteq resp[c].value.items

(* What makes a handler fail on a bundle that is all there: a directory    *)
(* the switch expects and the bundle has not, or a file that cannot be     *)
(* decoded, filtered by label, or used as a list.                          *)
Served(rq) ==
  /\ SelectorsParse(rq)
  /\ rq.route \in ClusterLists /\ rq.resource \in DOMAIN DirResources(rq.route)
       => BaseDir(rq) \in bundle.dirs
  /\ Mergeable(rq) \/ HomeFiles(rq) = {}
  /\ \A p \in HomeFiles(rq) :
       LET v == Decode(rq.resource, bundle.data[p])
       IN  /\ v.type \notin Outcomes
           /\ rq.route \in SelectingRoutes /\ rq.labels # NoSel
                => v.type \in LabelFilteredTypes

(* Before the cleanup starts no request on a readable resource ends in a   *)
(* 500 or in a panic: the file a handler reads is the one it checked, and  *)
(* the list it asserts to be the result's type is of that type.            *)
FailuresExplained ==
  \A c \in Clients :
    ~cleaning /\ Served(req[c]) => resp[c].code \notin {"ServerError", "Aborted"}

ListerOf == [V1Get   |-> "V1List",   V1NsGet   |-> "V1NsList",
             ApisGet |-> "ApisList", ApisNsGet |-> "ApisNsList"]

(* /api/v1 lists what is in clusterroles.json and clusterrolebindings.json *)
(* but its get searches V1GetTypes only: it finds no cluster role at all.  *)
Searched(rq) ==
  rq.route = "V1Get" =>
    \A p \in HomeFiles(rq) : Decode(rq.resource, bundle.data[p]).type \in V1GetTypes

(* kubectl get of one object and of the list that should hold it agree:    *)
(* when both handlers look in the same file, and the get searches lists of *)
(* its type, the get finds exactly the names in the list.                  *)
GetAgreesWithList ==
  \A c, d \in Clients :
    /\ ~cleaning
    /\ Listed(c) /\ req[c].labels = NoSel /\ req[c].fields = NoSel
    /\ resp[d].code \in {"OK", "NotFound"}
    /\ req[d].route \in Gets /\ req[c].route = ListerOf[req[d].route]
    /\ req[d].resource = req[c].resource /\ req[d].group = req[c].group
    /\ HomeFiles(req[d]) = HomeFiles(req[c]) /\ HomeFiles(req[d]) # {}
    /\ Searched(req[d])
    => (resp[d].code = "OK"
          <=> \E o \in resp[c].value.items : NameOf[o] = req[d].name)

(* "This one below here needs to stay complete" (getAPIsClusterResources): *)
(* a list over all namespaces holds every object of the resource's         *)
(* directory, of whatever type its files are.                              *)
ApisListComplete ==
  \A c \in Clients :
    ~cleaning /\ Listed(c) /\ req[c].route = "ApisList" =>
      \A p \in HomeFiles(req[c]) : bundle.data[p].items \subseteq resp[c].value.items

(* "If the request is for batch/v1beta1/cronjobs, we cannot return a       *)
(* batch/v1/cronjobs object" (getAPIsNamespaceResource).                   *)
BatchVersionRespected ==
  \A c \in Clients :
    /\ req[c].route = "ApisNsGet" /\ resp[c].code = "OK"
    /\ req[c].group = "batch" /\ req[c].version = "v1beta1"
    => resp[c].value.type # "CronJobList"

(* Every request the server accepts is answered, unless the process exits  *)
(* first: the loop over the files ends whatever is deleted under it.       *)
EveryRequestAnswered ==
  \A c \in Clients :
    (pc[c] # "idle") ~> (pc[c] = "replied" \/ ~up)
=============================================================================
