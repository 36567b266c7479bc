------------------------------ MODULE MCStartup ------------------------------
(***************************************************************************)
(* Small bundles and requests for Startup.                                 *)
(***************************************************************************)
EXTENDS Startup

Entry(groupVersion, apiVersion) ==
  [groupVersion |-> groupVersion, apiVersion |-> apiVersion]

CoreAndApps == <<Entry("v1", "nil"), Entry("apps/v1", "v1")>>
Groups      == <<<<"v1">>, <<"apps/v1">>, <<"batch/v1", "batch/v1beta1">>>>

MCBundle(form, resources) ==
  [form |-> form, resources |-> resources, groups |-> Groups]

Json(fs) == [f \in fs |-> "json"]

(* A bundle that can be served, with every file; one without logs; and     *)
(* those whose resources.json is missing, broken, unreadable or without    *)
(* the core resources.                                                     *)
MCBundles ==
  {MCBundle(Json(Files), CoreAndApps),
   MCBundle(Json({"resources", "previous"}), CoreAndApps),
   MCBundle([Json({"resources", "groups", "version", "errors"})
               EXCEPT !["groups"] = "invalid", !["version"] = "unreadable"],
            CoreAndApps),
   MCBundle([Json({"resources", "groups", "log"}) EXCEPT !["log"] = "unreadable"],
            CoreAndApps),
   MCBundle(Json({"groups", "log"}), <<>>),
   MCBundle([Json({"resources"}) EXCEPT !["resources"] = "invalid"], <<>>),
   MCBundle([Json({"resources"}) EXCEPT !["resources"] = "unreadable"], <<>>),
   MCBundle(Json({"resources"}), <<Entry("v1", "v1"), Entry("apps/v1", "v1")>>)}

Request(kind, name) ==
  [kind |-> kind, name |-> name, previous |-> FALSE, valid |-> TRUE]

MCRequests ==
  {Request(k, "v1") : k \in Kinds \ {"groupVersion"}}
    \cup {Request("groupVersion", n) : n \in {"apps/v1", "batch/v1"}}
    \cup {[Request("log", "v1") EXCEPT !.previous = TRUE],
          [Request("log", "v1") EXCEPT !.valid = FALSE]}
=============================================================================
