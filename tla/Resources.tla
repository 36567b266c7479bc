------------------------------ MODULE Resources ------------------------------
(***************************************************************************)
(* What the files of a support bundle hold, and what the pure functions    *)
(* of sbctl make of them: the tables that map a URL resource to a file     *)
(* name and to a list type, Decode (pkg/sbctl/compatibility.go), the       *)
(* selector filters and the merge of several files into one list           *)
(* (pkg/api/server.go).                                                    *)
(*                                                                         *)
(* A file is abstracted to a record: the form of its JSON, the list type   *)
(* it names when the Kubernetes scheme knows it, and the set of objects in *)
(* it.  The order of the objects inside a list is not tracked.             *)
(*   "list"     an object whose kind the scheme knows (a PodList, ...)     *)
(*   "array"    a bare JSON array of objects that carry their own kind     *)
(*   "kindless" a bare JSON array of objects without a kind                *)
(*   "object"   an object of a kind the scheme does not know (a list of    *)
(*              custom resources)                                          *)
(*   "invalid"  not JSON, or JSON no decoder accepts                       *)
(***************************************************************************)
EXTENDS Naturals

CONSTANTS
  Objects,   \* the Kubernetes objects the bundle's files hold
  Names,     \* object names
  NameOf,    \* the name of each object
  Selectors, \* well-formed values of the labelSelector and fieldSelector parameters
  NoSel,     \* the empty selector
  BadSel,    \* a parameter value fields.ParseSelector rejects
  Match      \* the objects each selector matches

ASSUME NamesAssumption == NameOf \in [Objects -> Names]

ASSUME SelectorsAssumption ==
  /\ Match \in [Selectors -> SUBSET Objects]
  /\ NoSel \in Selectors
  /\ Match[NoSel] = Objects
  /\ BadSel \notin Selectors

Forms == {"list", "array", "kindless", "object", "invalid"}

(* List types of client-go.  A CronJobList is batch/v1's, and              *)
(* CronJobListV1beta1 is batch/v1beta1's.                                  *)
ListTypes ==
  {"EventList", "PodList", "LimitRangeList", "ServiceList", "NamespaceList",
   "NodeList", "PersistentVolumeList", "PersistentVolumeClaimList",
   "ConfigMapList", "ResourceQuotaList", "JobList", "CronJobList",
   "CronJobListV1beta1", "DeploymentList", "ReplicaSetList",
   "StatefulSetList", "DaemonSetList", "StorageClassList", "IngressList",
   "CustomResourceDefinitionList", "RoleList", "RoleBindingList",
   "ClusterRoleList", "ClusterRoleBindingList"}

FileData == [form : Forms, type : ListTypes, items : SUBSET Objects]

(* A value a handler holds: a decoded runtime.Object, the nil interface,   *)
(* or how the call that should have produced it ended.                     *)
Outcomes == {"nil", "error", "panic"}
Types    == ListTypes \cup {"Unstructured", "UnstructuredList"} \cup Outcomes
Value    == [type : Types, items : SUBSET Objects]

Nil    == [type |-> "nil",   items |-> {}]
Failed == [type |-> "error", items |-> {}]
Panic  == [type |-> "panic", items |-> {}]
EmptyUnstructuredList == [type |-> "UnstructuredList", items |-> {}]

-----------------------------------------------------------------------------
(* pkg/util: the name a support bundle uses for a resource. *)
SBResourceCompatibilityMap ==
  [persistentvolumeclaims    |-> "pvcs",
   persistentvolumes         |-> "pvs",
   storageclasses            |-> "storage-classes",
   ingresses                 |-> "ingress",
   customresourcedefinitions |-> "custom-resource-definitions",
   clusterrolebindings       |-> "clusterRoleBindings",
   networkpolicies           |-> "network-policy",
   resourcequotas            |-> "resource-quota"]

GetSBCompatibleResourceName(resource) ==
  IF resource \in DOMAIN SBResourceCompatibilityMap
    THEN SBResourceCompatibilityMap[resource]
    ELSE resource

(* wrapListData: the list type given to a bare array, by URL resource. *)
WrapKind ==
  [pods                      |-> "PodList",
   events                    |-> "EventList",
   cronjobs                  |-> "CronJobListV1beta1",
   deployments               |-> "DeploymentList",
   ingress                   |-> "IngressList",
   ingresses                 |-> "IngressList",
   jobs                      |-> "JobList",
   limitranges               |-> "LimitRangeList",
   pvcs                      |-> "PersistentVolumeClaimList",
   replicasets               |-> "ReplicaSetList",
   services                  |-> "ServiceList",
   statefulsets              |-> "StatefulSetList",
   namespaces                |-> "NamespaceList",
   nodes                     |-> "NodeList",
   persistentvolumes         |-> "PersistentVolumeList",
   persistentvolumeclaims    |-> "PersistentVolumeClaimList",
   storageclasses            |-> "StorageClassList",
   customresourcedefinitions |-> "CustomResourceDefinitionList"]

(* Decode: the scheme first, then the array wrapped as a list, then an     *)
(* unstructured object, then an unstructured list.  An empty array that    *)
(* cannot be wrapped ends in errors.Wrap(nil, ...), that is in (nil, nil). *)
Decode(resource, data) ==
  LET isArray == data.form \in {"array", "kindless"}
      as(type) == [type |-> type, items |-> data.items]
  IN  IF data.form = "list" THEN as(data.type)
      ELSE IF isArray /\ resource \in DOMAIN WrapKind THEN as(WrapKind[resource])
      ELSE IF data.form = "object" THEN as("Unstructured")
      ELSE IF isArray /\ data.items = {} THEN Nil
      ELSE IF data.form = "array" THEN as("UnstructuredList")
      ELSE Failed

(* ToUnstructuredList: any decoded value becomes an unstructured list of   *)
(* its items; reflection on the nil interface panics.                      *)
ToUnstructuredList(v) ==
  IF v.type = "nil" THEN Panic
                    ELSE [type |-> "UnstructuredList", items |-> v.items]

-----------------------------------------------------------------------------
LabelFilteredTypes ==
  {"EventList", "PodList", "LimitRangeList", "ServiceList",
   "PersistentVolumeClaimList"}
FieldFilteredTypes == {"EventList", "PodList"}

(* The default branch calls a method of the object to report its kind. *)
FilterObjectsByLabels(v, selector) ==
  IF selector = NoSel THEN v
  ELSE IF v.type \in LabelFilteredTypes
    THEN [type |-> v.type, items |-> v.items \cap Match[selector]]
  ELSE IF v.type = "nil" THEN Panic
  ELSE Failed

FilterObjectsByFields(v, selector) ==
  IF selector # NoSel /\ v.type \in FieldFilteredTypes
    THEN [type |-> v.type, items |-> v.items \cap Match[selector]]
    ELSE v

(* One file added to the list built so far, in the type switch of the      *)
(* handlers that list all namespaces: a type of the switch is asserted to  *)
(* be the type of the result and appended, any other one replaces it.      *)
Merge(result, v, switchTypes) ==
  IF v.type \in {"error", "panic"} THEN v
  ELSE IF v.type \notin switchTypes THEN ToUnstructuredList(v)
  ELSE IF v.type = result.type
    THEN [type |-> v.type, items |-> result.items \cup v.items]
  ELSE Panic
=============================================================================
