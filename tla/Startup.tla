------------------------------- MODULE Startup -------------------------------
(***************************************************************************)
(* StartAPIServer (pkg/api/server.go): the goroutine that serves, the      *)
(* readiness loop that polls GET /api/v1 on its own server until a         *)
(* deadline, the kubeconfig it writes, and then the first requests of      *)
(* clients to the discovery, version and log handlers; all of it while the *)
(* process may start to delete the bundle and exit.                        *)
(*                                                                         *)
(* The poll is a request like any other: StartAPIServer is the client      *)
(* "poll" of its own handlers.  Of the files' contents the model keeps the *)
(* API group versions they name.                                           *)
(***************************************************************************)
EXTENDS Naturals, Sequences, Functions

CONSTANTS
  Clients,        \* requests made once the server is announced
  GroupVersions,  \* API group versions: "v1", "apps/v1", ...
  Requests,       \* what they may ask for
  Bundles         \* the bundles that may be served

(* The files these handlers read, one container's logs among them: its     *)
(* <name>.log, <name>-previous.log and <name>-logs-errors.log.             *)
LogFiles == {"log", "previous", "errors"}
Files    == {"resources", "groups", "version"} \cup LogFiles

(* How reading and decoding a file that is there ends. *)
Forms == {"json", "invalid", "unreadable"}

Kinds == {"api", "v1", "apis", "groupVersion", "version", "log", "other"}

(* name: the group version a "v1" or "groupVersion" request is about.      *)
RequestType ==
  [kind : Kinds, name : GroupVersions, previous : BOOLEAN, valid : BOOLEAN]

ASSUME StartupAssumption ==
  /\ "poll" \notin Clients
  /\ "v1" \in GroupVersions
  /\ Requests \subseteq RequestType
  /\ \A rq \in Requests : rq.kind = "v1" => rq.name = "v1"

(* A named group has a slash in each of its group versions. *)
ASSUME BundlesAssumption ==
  \A b \in Bundles :
    /\ DOMAIN b.form \subseteq Files
    /\ \A f \in DOMAIN b.form : b.form[f] \in Forms
    /\ b.groups \in Seq(Seq(GroupVersions))
    /\ \A i \in DOMAIN b.groups :
         "v1" \in Range(b.groups[i]) => Len(b.groups[i]) = 1 /\ b.groups[i][1] = "v1"

VARIABLES
  bundle,    \* the bundle: the form of its files, and what two of them name
  files,     \* its files that still exist
  cleaning,  \* the signal goroutine or RunE's cleanup is deleting it
  up,        \* the process runs
  main,      \* where StartAPIServer is
  serve,     \* the goroutine in server.Serve
  expired,   \* ctx is done
  kube,      \* the kubeconfig file
  pc, req, resp   \* the request of each client, where its handler is

environment == <<bundle, files, cleaning, up>>
start       == <<main, serve, expired, kube>>
requests    == <<pc, req, resp>>
vars        == <<environment, start, requests>>

Callers == Clients \cup {"poll"}

MainSteps == {"listen", "spawn", "select", "get", "create", "write",
              "returned", "failed"}
Serves    == {"none", "serving", "stopped"}
Kubes     == {"none", "empty", "written"}
Pcs       == {"idle", "sent", "errorsLog", "replied"}
Codes     == {"none", "OK", "BadRequest", "NotFound", "ServerError", "Refused"}

(* A response: its status, the file its body comes from, and the group     *)
(* versions the body names.                                                *)
Response(code, file, names) == [code |-> code, file |-> file, names |-> names]
NoResponse == Response("none", "none", {})
Failed(code) == Response(code, "none", {})

TypeOK ==
  /\ bundle \in Bundles
  /\ files \subseteq DOMAIN bundle.form
  /\ cleaning \in BOOLEAN /\ up \in BOOLEAN
  /\ main \in MainSteps /\ serve \in Serves
  /\ expired \in BOOLEAN
  /\ kube \in Kubes
  /\ pc \in [Callers -> Pcs]
  /\ req \in [Callers -> RequestType]
  /\ resp \in [Callers -> [code : Codes, file : Files \cup {"none"},
                           names : SUBSET GroupVersions]]

PollRequest == [kind |-> "v1", name |-> "v1", previous |-> FALSE, valid |-> TRUE]

Init ==
  /\ bundle \in Bundles
  /\ files = DOMAIN bundle.form
  /\ cleaning = FALSE
  /\ up = TRUE
  /\ main = "listen" /\ serve = "none" /\ expired = FALSE /\ kube = "none"
  /\ pc = [c \in Callers |-> "idle"]
  /\ \E rqs \in [Clients -> Requests] :
       req = [c \in Callers |-> IF c = "poll" THEN PollRequest ELSE rqs[c]]
  /\ resp = [c \in Callers |-> NoResponse]

-----------------------------------------------------------------------------
(* StartAPIServer *)

Running(step) == up /\ main = step
Goto(step)    == main' = step

(* net.Listen *)
Listen ==
  /\ Running("listen")
  /\ Goto("spawn") \/ Goto("failed")
  /\ UNCHANGED <<environment, serve, expired, kube, requests>>

(* the goroutine that serves *)
SpawnServer ==
  /\ Running("spawn") /\ Goto("select")
  /\ serve' = "serving"
  /\ UNCHANGED <<environment, expired, kube, requests>>

(* time.After(1): a GET that has no timeout of its own *)
Poll ==
  /\ Running("select") /\ Goto("get")
  /\ pc' = [pc EXCEPT !["poll"] = "sent"]
  /\ UNCHANGED <<environment, serve, expired, kube, req, resp>>

(* Mutant: any answer means that the server runs. *)
PolledAny ==
  /\ Running("get") /\ pc["poll"] = "replied"
  /\ Goto(IF resp["poll"].code # "Refused" THEN "create" ELSE "select")
  /\ pc' = [pc EXCEPT !["poll"] = "idle"]
  /\ resp' = [resp EXCEPT !["poll"] = NoResponse]
  /\ UNCHANGED <<environment, serve, expired, kube, req>>

(* Mutant: each turn of the loop makes a context of its own. *)
PolledNewDeadline ==
  /\ Running("get") /\ pc["poll"] = "replied"
  /\ Goto(IF resp["poll"].code = "OK" THEN "create" ELSE "select")
  /\ expired' = FALSE
  /\ pc' = [pc EXCEPT !["poll"] = "idle"]
  /\ resp' = [resp EXCEPT !["poll"] = NoResponse]
  /\ UNCHANGED <<environment, serve, kube, req>>

Polled ==
  /\ Running("get") /\ pc["poll"] = "replied"
  /\ Goto(IF resp["poll"].code = "OK" THEN "create" ELSE "select")
  /\ pc' = [pc EXCEPT !["poll"] = "idle"]
  /\ resp' = [resp EXCEPT !["poll"] = NoResponse]
  /\ UNCHANGED <<environment, serve, expired, kube, req>>

(* ctx.Done *)
Expire ==
  /\ up /\ main \in {"select", "get"} /\ ~expired
  /\ expired' = TRUE
  /\ UNCHANGED <<environment, main, serve, kube, requests>>

TimeOut ==
  /\ Running("select") /\ expired
  /\ Goto("failed")
  /\ UNCHANGED <<environment, serve, expired, kube, requests>>

(* Mutant: the kubeconfig is created in the bundle. *)
CreateConfigFileInBundle ==
  /\ Running("create") /\ Goto("returned")
  /\ files' = files \cup {"kubeconfig"}
  /\ kube' = "written"
  /\ UNCHANGED <<bundle, cleaning, up, serve, expired, requests>>

(* createConfigFile: os.CreateTemp and io.WriteString *)
CreateConfigFile ==
  \/ /\ Running("create")
     /\ \/ Goto("write") /\ kube' = "empty"
        \/ Goto("failed") /\ UNCHANGED kube
     /\ UNCHANGED <<environment, serve, expired, requests>>
  \/ /\ Running("write")
     /\ \/ Goto("returned") /\ kube' = "written"
        \/ Goto("failed") /\ UNCHANGED kube
     /\ UNCHANGED <<environment, serve, expired, requests>>

Start ==
  Listen \/ SpawnServer \/ Poll \/ Polled \/ TimeOut \/ CreateConfigFile

(* server.Serve fails, at any time: the listener is closed *)
ServeFails ==
  /\ up /\ serve = "serving"
  /\ serve' = "stopped"
  /\ UNCHANGED <<environment, main, expired, kube, requests>>

(* log.Panic in the goroutine ends the process, with nothing cleaned up *)
ServePanics ==
  /\ up /\ serve = "stopped"
  /\ up' = FALSE
  /\ UNCHANGED <<bundle, files, cleaning, start, requests>>

-----------------------------------------------------------------------------
(* The handlers *)

At(c, label) == up /\ serve = "serving" /\ pc[c] = label

Reply(c, response) ==
  /\ pc' = [pc EXCEPT ![c] = "replied"]
  /\ resp' = [resp EXCEPT ![c] = response]
  /\ UNCHANGED <<environment, start, req>>

(* A client of the kubeconfig StartAPIServer has returned *)
Send(c) ==
  /\ Running("returned")
  /\ c # "poll" /\ pc[c] = "idle"
  /\ pc' = [pc EXCEPT ![c] = "sent"]
  /\ UNCHANGED <<environment, start, req, resp>>

(* A connection that fails: the listener is closed, or the process has no  *)
(* file left to open (no poll's body is closed)                            *)
Refuse(c) ==
  /\ up /\ pc[c] \in {"sent", "errorsLog"}
  /\ Reply(c, Failed("Refused"))

(* validatePathParameters, and the container of a log request *)
Invalid(c) ==
  /\ At(c, "sent") /\ ~req[c].valid
  /\ Reply(c, Failed("BadRequest"))

Sent(c, kind) == At(c, "sent") /\ req[c].valid /\ req[c].kind = kind

(* readFileAndLog and json.Unmarshal: what a handler answers of a file it  *)
(* cannot use                                                              *)
Unusable(file) ==
  IF file \notin files THEN "NotFound"
  ELSE IF bundle.form[file] # "json" THEN "ServerError"
  ELSE "none"

GetAPI(c) ==
  /\ Sent(c, "api")
  /\ Reply(c, Response("OK", "none", {"v1"}))

(* The entries of resources.json: /api/v1 wants one that names no          *)
(* apiVersion, /apis/<group>/<version> any of that group version           *)
Described(name, anyAPIVersion) ==
  \E i \in DOMAIN bundle.resources :
    /\ bundle.resources[i].groupVersion = name
    /\ anyAPIVersion \/ bundle.resources[i].apiVersion = "nil"

GetResources(c) ==
  /\ At(c, "sent") /\ req[c].valid /\ req[c].kind \in {"v1", "groupVersion"}
  /\ Reply(c,
       IF Unusable("resources") # "none" THEN Failed(Unusable("resources"))
       ELSE IF Described(req[c].name, req[c].kind = "groupVersion")
         THEN Response("OK", "resources", {req[c].name})
         ELSE Failed("NotFound"))

(* Mutant: every group of one version is left out. *)
LeftOutSingle(group) == Len(group) = 1

(* "kubectl automatically adds v1 group. not filetring these out causes a  *)
(* duplicate resource error on the client side."                           *)
LeftOut(group) == Len(group) = 1 /\ group[1] = "v1"

GetAPIs(c) ==
  /\ Sent(c, "apis")
  /\ Reply(c,
       IF Unusable("groups") # "none" THEN Failed(Unusable("groups"))
       ELSE Response("OK", "groups",
              UNION {Range(bundle.groups[i]) :
                       i \in {j \in DOMAIN bundle.groups : ~LeftOut(bundle.groups[j])}}))

GetVersion(c) ==
  /\ Sent(c, "version")
  /\ Reply(c, IF Unusable("version") # "none"
                THEN Failed(Unusable("version"))
                ELSE Response("OK", "version", {}))

GetNotFound(c) == Sent(c, "other") /\ Reply(c, Failed("NotFound"))

(* A log is answered as it is, whatever is in it. *)
LogOr(c, file, label) ==
  \/ /\ file \in files
     /\ Reply(c, IF bundle.form[file] = "unreadable"
                   THEN Failed("ServerError")
                   ELSE Response("OK", file, {}))
  \/ /\ file \notin files
     /\ label = "replied"
     /\ Reply(c, Failed("NotFound"))
  \/ /\ file \notin files
     /\ label # "replied"
     /\ pc' = [pc EXCEPT ![c] = label]
     /\ UNCHANGED <<environment, start, req, resp>>

LogFile(rq) == IF rq.previous THEN "previous" ELSE "log"

(* Mutant: the errors are looked for first. *)
GetLogErrorsFirst(c) ==
  \/ Sent(c, "log") /\ LogOr(c, "errors", "errorsLog")
  \/ At(c, "errorsLog") /\ LogOr(c, LogFile(req[c]), "replied")

(* Mutant: only the requested log is looked for. *)
GetLogOnce(c) ==
  Sent(c, "log") /\ LogOr(c, LogFile(req[c]), "replied")

(* getAPIV1NamespaceResourceLog: the log, and if there is none the file of *)
(* the errors met in collecting it                                         *)
GetLog(c) ==
  \/ Sent(c, "log") /\ LogOr(c, LogFile(req[c]), "errorsLog")
  \/ At(c, "errorsLog") /\ LogOr(c, "errors", "replied")

Handle(c) ==
  \/ Invalid(c) \/ GetAPI(c) \/ GetResources(c) \/ GetAPIs(c)
  \/ GetVersion(c) \/ GetNotFound(c) \/ GetLog(c) \/ Refuse(c)

-----------------------------------------------------------------------------
(* The rest of the process: an interrupt's cleanup, or RunE's after a      *)
(* failed start, deletes an extracted bundle file by file and exits.       *)

StartCleanup ==
  /\ up /\ ~cleaning
  /\ cleaning' = TRUE
  /\ UNCHANGED <<bundle, files, up, start, requests>>

RemoveFile ==
  /\ up /\ cleaning
  /\ \E f \in files : files' = files \ {f}
  /\ UNCHANGED <<bundle, cleaning, up, start, requests>>

Exit ==
  /\ up
  /\ cleaning => files = {}
  /\ up' = FALSE
  /\ UNCHANGED <<bundle, files, cleaning, start, requests>>

Environment == StartCleanup \/ RemoveFile \/ Exit

Next ==
  \/ Start \/ Expire \/ ServeFails \/ ServePanics \/ Environment
  \/ \E c \in Callers : Send(c) \/ Handle(c)

Spec == Init /\ [][Next]_vars

(* When a poll's time and the deadline have both come, select chooses at   *)
(* random: the deadline is not passed over for ever.                       *)
FairSpec ==
  /\ Spec
  /\ WF_vars(Start) /\ SF_vars(TimeOut) /\ WF_vars(Expire)
  /\ WF_vars(ServePanics)
  /\ \A c \in Callers : WF_vars(Handle(c))

-----------------------------------------------------------------------------
(* Properties *)

Answered(c, kind) == req[c].kind = kind /\ pc[c] = "replied"

(* The kubeconfig is handed out for a server kubectl can use: as long as   *)
(* nothing is deleted, every client that then asks for the core resources, *)
(* and reaches the server, gets them.                                      *)
ReadyMeansUsable ==
  \A c \in Clients :
    Answered(c, "v1") /\ req[c].valid /\ ~cleaning
      => resp[c].code \in {"OK", "Refused"}

(* Of the API groups kubectl discovers in /api and /apis, the core group   *)
(* comes from /api only ("duplicate resource error on the client side"),   *)
(* and no other group of the bundle is lost.                               *)
StoredVersions == UNION {Range(bundle.groups[i]) : i \in DOMAIN bundle.groups}

GroupsOnce ==
  \A c \in Clients :
    Answered(c, "apis") /\ resp[c].code = "OK"
      => resp[c].names = StoredVersions \ {"v1"}

(* A log answered while nothing is deleted is the one asked for if the     *)
(* bundle has it, and never another container state's log.                 *)
LogAsAsked ==
  \A c \in Clients :
    Answered(c, "log") /\ resp[c].code = "OK" =>
      /\ resp[c].file \in {LogFile(req[c]), "errors"}
      /\ ~cleaning /\ LogFile(req[c]) \in DOMAIN bundle.form
           => resp[c].file = LogFile(req[c])

(* "log files not found in support-bundle" is true when it is answered:    *)
(* both files are gone, although they were looked for one after the other. *)
LogNotFoundIsTrue ==
  \A c \in Clients :
    Answered(c, "log") /\ resp[c].code = "NotFound"
      => {LogFile(req[c]), "errors"} \cap files = {}

(* StartAPIServer returns, a bundle no poll can succeed on included.       *)
StartEnds == (main = "listen") ~> (main \in {"returned", "failed"} \/ ~up)
=============================================================================
