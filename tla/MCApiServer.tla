----------------------------- MODULE MCApiServer -----------------------------
(***************************************************************************)
(* Small bundles and requests for the handlers of ApiServer.               *)
(***************************************************************************)
EXTENDS ApiServerListing, TLC

(* a1 and b1 share a name in two namespaces, b2 is beside b1. *)
MCObjects == {"a1", "b1", "b2"}
MCNames   == {"x", "y", "z"}
MCNameOf  == [a1 |-> "x", b1 |-> "x", b2 |-> "y"]
MCMatch   == ("all" :> MCObjects) @@ ("sel" :> {"a1", "b2"})

File(d, n, data) == [dir |-> d, ns |-> n] :> data
ListFile(type, items)  == [form |-> "list",   type |-> type, items |-> items]
ArrayFile(items)       == [form |-> "array",  type |-> "PodList", items |-> items]
OtherFile(form, items) == [form |-> form,     type |-> "PodList", items |-> items]
MakeBundle(data)       ==
  [data |-> data, dirs |-> {p.dir : p \in {q \in DOMAIN data : q.ns # 0}}]

(* Typed lists in two namespaces, and resources of one file. *)
TypedBundle ==
  MakeBundle(File(<<"pods", "">>, 1, ListFile("PodList", {"a1"}))
          @@ File(<<"pods", "">>, 2, ListFile("PodList", {"b1", "b2"}))
          @@ File(<<"namespaces", "">>, 0, ListFile("NamespaceList", {"a1", "b2"}))
          @@ File(<<"storage-classes", "">>, 0, ListFile("StorageClassList", {"b2"})))

(* Bare arrays, as older bundles have them. *)
ArrayBundle ==
  MakeBundle(File(<<"pods", "">>, 1, OtherFile("kindless", {"a1"}))
          @@ File(<<"deployments", "">>, 1, ArrayFile({"a1"}))
          @@ File(<<"deployments", "">>, 2, OtherFile("kindless", {"b1"}))
          @@ File(<<"namespaces", "">>, 0, ArrayFile({"a1", "b2"})))

(* Custom resources: one namespaced, one cluster-scoped, and one that has  *)
(* the name of a resource with a directory.                                *)
CustomBundle ==
  MakeBundle(File(<<"foos", "g">>, 2, OtherFile("object", {"b1", "b2"}))
          @@ File(<<"bars", "g">>, 0, ArrayFile({"a1"}))
          @@ File(<<"daemonsets", "">>, 1, ListFile("DaemonSetList", {"a1"}))
          @@ File(<<"daemonsets", "g">>, 2, ArrayFile({"b1"})))

(* What a handler fails on: JSON nothing decodes, an empty array nothing   *)
(* wraps beside another file, and files of two types in one directory.     *)
BrokenBundle ==
  MakeBundle(File(<<"pods", "">>, 1, OtherFile("invalid", {}))
          @@ File(<<"configmaps", "">>, 1, ArrayFile({}))
          @@ File(<<"configmaps", "">>, 2, ArrayFile({"b1"}))
          @@ File(<<"deployments", "">>, 1, ListFile("DaemonSetList", {"a1"}))
          @@ File(<<"deployments", "">>, 2, ArrayFile({"b1"})))

(* A file beside a directory of its name that holds no JSON. *)
EmptyDirBundle ==
  [data |-> File(<<"bars", "">>, 0, ArrayFile({"a1"})) @@
            File(<<"bars", "g">>, 0, ArrayFile({"b1"})),
   dirs |-> {<<"bars", "">>, <<"pods", "">>}]

MCBundles ==
  {TypedBundle, ArrayBundle, CustomBundle, BrokenBundle, EmptyDirBundle}

Request(route, resource, group, n, name, fields, labels) ==
  [route |-> route, resource |-> resource, group |-> group, version |-> "v1",
   ns |-> n, name |-> name, fields |-> fields, labels |-> labels,
   valid |-> TRUE]
ListRequest(route, resource, group, n) ==
  Request(route, resource, group, n, "x", "all", "all")

ClusterRequests ==
  {ListRequest("V1List", r, "", 0) : r \in {"pods", "namespaces", "configmaps", "secrets"}}
    \cup
  {ListRequest("ApisList", r, "g", 0) :
     r \in {"deployments", "storageclasses", "foos", "bars", "daemonsets"}}

NamespaceRequests ==
  {ListRequest("V1NsList", r, "", n) : r \in {"pods", "configmaps"}, n \in {1, 2}}
    \cup
  {ListRequest("ApisNsList", r, "g", n) :
     r \in {"deployments", "foos", "daemonsets"}, n \in {1, 2}}

SelectorRequests ==
  {Request("V1List", "pods", "", 0, "x", f, l) :
     f \in {"all", "sel"}, l \in {"all", "sel", "bad"}}
    \cup
  {Request("V1NsList", r, "", 2, "x", "sel", l) :
     r \in {"pods", "configmaps"}, l \in {"all", "sel"}}

GetRequests ==
  {Request("V1Get", "namespaces", "", 0, m, "all", "all") : m \in MCNames}
    \cup
  {Request("ApisGet", r, "g", 0, m, "all", "all") :
     r \in {"storageclasses", "bars"}, m \in {"x", "y"}}
    \cup
  {Request("V1NsGet", r, "", n, m, "all", "all") :
     r \in {"pods", "configmaps"}, n \in {1, 2}, m \in {"x", "y"}}
    \cup
  {Request("ApisNsGet", r, "g", n, m, "all", "all") :
     r \in {"foos", "daemonsets"}, n \in {1, 2}, m \in {"x", "y"}}

InvalidRequest ==
  [ListRequest("V1NsList", "pods", "", 1) EXCEPT !.valid = FALSE]

MCRequests ==
  {InvalidRequest} \cup ClusterRequests \cup NamespaceRequests
    \cup SelectorRequests \cup GetRequests

(* Cluster roles, which /api/v1 lists and does not get, beside nodes. *)
ClusterRoleBundle ==
  MakeBundle(File(<<"clusterroles", "">>, 0, ListFile("ClusterRoleList", {"a1"}))
          @@ File(<<"nodes", "">>, 0, ListFile("NodeList", {"b2"})))

(* Pairs of a list and a get of the same resource. *)
PairBundles == {TypedBundle, ArrayBundle, CustomBundle, ClusterRoleBundle}

RoleAndNodeRequests ==
  {ListRequest("V1List", r, "", 0) : r \in {"clusterroles", "nodes"}}
    \cup
  {Request("V1Get", r, "", 0, m, "all", "all") :
     r \in {"clusterroles", "nodes"}, m \in {"x", "y"}}

PairRequests ==
  {ListRequest("V1List", "namespaces", "", 0),
   ListRequest("ApisList", "storageclasses", "g", 0),
   ListRequest("ApisList", "bars", "g", 0)}
    \cup RoleAndNodeRequests
    \cup {rq \in NamespaceRequests : rq.resource \in {"pods", "foos", "daemonsets"}}
    \cup {rq \in GetRequests : rq.resource # "configmaps"}

(* A custom resource stored in two namespaces. *)
CustomInTwoNamespaces ==
  {MakeBundle(File(<<"foos", "g">>, 1, ArrayFile({"a1"}))
           @@ File(<<"foos", "g">>, 2, ArrayFile({"b1", "b2"})))}
CustomListRequests == {ListRequest("ApisList", "foos", "g", 0)}

(* Cron jobs collected from a cluster that serves batch/v1. *)
CronJobBundles ==
  {MakeBundle(File(<<"cronjobs", "">>, 1, ListFile("CronJobList", {"a1"})))}
CronJobRequests ==
  {[Request("ApisNsGet", "cronjobs", "batch", 1, "x", "all", "all")
      EXCEPT !.version = v] : v \in {"v1", "v1beta1"}}

(* The clients are interchangeable. *)
ClientSymmetry == Permutations(Clients)
=============================================================================
