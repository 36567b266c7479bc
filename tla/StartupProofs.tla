---------------------------- MODULE StartupProofs ----------------------------
(***************************************************************************)
(* Theorems about Startup, for any bundles, requests and clients.          *)
(***************************************************************************)
EXTENDS Startup, TLAPS

(* The names an answer holds are group versions.                           *)
LEMMA NamesAreVersions ==
  ASSUME NEW b \in Bundles, NEW S \in SUBSET DOMAIN b.groups
  PROVE  UNION {Range(b.groups[i]) : i \in S} \subseteq GroupVersions
<1>1. b.groups \in Seq(Seq(GroupVersions))
  BY BundlesAssumption
<1>2. \A i \in DOMAIN b.groups : b.groups[i] \in Seq(GroupVersions)
  BY <1>1
<1> QED
  BY <1>2 DEF Range

LEMMA ResponseTypes ==
  ASSUME NEW code \in Codes, NEW file \in Files \cup {"none"},
         NEW names \in SUBSET GroupVersions
  PROVE  Response(code, file, names) \in
           [code : Codes, file : Files \cup {"none"}, names : SUBSET GroupVersions]
BY DEF Response

(* What a handler answers of a file it cannot use.                         *)
LEMMA UnusableCases ==
  ASSUME TypeOK, NEW file \in Files
  PROVE  /\ Unusable(file) \in {"none", "NotFound", "ServerError"}
         /\ Unusable(file) = "none" <=> file \in files /\ bundle.form[file] = "json"
BY DEF Unusable

(* A reply leaves a well-typed state when the response is well typed.      *)
LEMMA ReplyTypes ==
  ASSUME TypeOK, NEW c \in Callers, NEW code \in Codes,
         NEW file \in Files \cup {"none"}, NEW names \in SUBSET GroupVersions,
         Reply(c, Response(code, file, names))
  PROVE  TypeOK'
BY ResponseTypes
DEF TypeOK, Reply, environment, start, Pcs

(* Startup's variables keep the values the type invariant lists.           *)
THEOREM TypeCorrect == Spec => []TypeOK
<1>1. Init => TypeOK
  <2> SUFFICES ASSUME Init
               PROVE  TypeOK
    OBVIOUS
  <2>1. PollRequest \in RequestType
    <3>1. "v1" \in Kinds
      BY DEF Kinds
    <3>3. "v1" \in GroupVersions
      BY StartupAssumption
    <3>2. FALSE \in BOOLEAN /\ TRUE \in BOOLEAN
      OBVIOUS
    <3> QED
      BY <3>1, <3>2, <3>3, Zenon DEF PollRequest, RequestType
  <2>2. req \in [Callers -> RequestType]
    BY <2>1, StartupAssumption DEF Init, Callers
  <2>3. NoResponse \in [code : Codes, file : Files \cup {"none"}, names : SUBSET GroupVersions]
    BY DEF NoResponse, Response, Codes
  <2> QED
    BY <2>2, <2>3 DEF Init, TypeOK, MainSteps, Serves, Kubes, Pcs
<1>2. TypeOK /\ [Next]_vars => TypeOK'
  <2> SUFFICES ASSUME TypeOK, [Next]_vars
               PROVE  TypeOK'
    OBVIOUS
  <2> USE DEF Running, Goto, environment, start, requests
  <2>1. CASE Start
    <3>1. NoResponse \in [code : Codes, file : Files \cup {"none"}, names : SUBSET GroupVersions]
      BY DEF NoResponse, Response, Codes
    <3>2. CASE Polled
      BY <3>1, <3>2 DEF TypeOK, Polled, Pcs, MainSteps, Callers
    <3>3. CASE Listen \/ SpawnServer \/ Poll \/ TimeOut \/ CreateConfigFile
      BY <3>3 DEF TypeOK, Listen, SpawnServer, Poll, TimeOut, CreateConfigFile,
                  Pcs, MainSteps, Serves, Kubes, Callers
    <3> QED
      BY <2>1, <3>2, <3>3 DEF Start
  <2>2. CASE Expire \/ ServeFails \/ ServePanics \/ Environment
    BY <2>2 DEF TypeOK, Expire, ServeFails, ServePanics, Environment, StartCleanup,
                RemoveFile, Exit, Serves
  <2>3. ASSUME NEW c \in Callers, Send(c)
        PROVE  TypeOK'
    BY <2>3 DEF TypeOK, Send, Pcs
  <2>4. ASSUME NEW c \in Callers, Handle(c)
        PROVE  TypeOK'
    <3>1. /\ Codes = {"none", "OK", "BadRequest", "NotFound", "ServerError", "Refused"}
          /\ {"resources", "groups", "version", "errors", "none"} \subseteq Files \cup {"none"}
      BY DEF Codes, Files, LogFiles
    <3>2. ASSUME NEW code \in Codes, Reply(c, Failed(code))
          PROVE  TypeOK'
      <4>1. Reply(c, Response(code, "none", {}))
        BY <3>2 DEF Failed
      <4>2. {} \in SUBSET GroupVersions /\ "none" \in Files \cup {"none"}
        OBVIOUS
      <4> QED
        BY <3>2, <4>1, <4>2, ReplyTypes
    <3>3. CASE Invalid(c) \/ Refuse(c) \/ GetNotFound(c)
      BY <3>1, <3>2, <3>3 DEF Invalid, Refuse, GetNotFound
    <3>4. CASE GetAPI(c)
      <4>1. Reply(c, Response("OK", "none", {"v1"}))
        BY <3>4 DEF GetAPI
      <4>2. {"v1"} \in SUBSET GroupVersions
        BY StartupAssumption
      <4> QED
        BY <4>1, <4>2, <3>1, ReplyTypes
    <3>5. CASE GetResources(c)
      <4>1. {req[c].name} \in SUBSET GroupVersions
        BY DEF TypeOK, RequestType
      <4>2. Unusable("resources") \in Codes
        BY <3>1, UnusableCases DEF Files
      <4> QED
        BY <3>1, <3>2, <3>5, <4>1, <4>2, ReplyTypes DEF GetResources
    <3>6. CASE GetAPIs(c)
      <4> DEFINE S == {j \in DOMAIN bundle.groups : ~LeftOut(bundle.groups[j])}
                 names == UNION {Range(bundle.groups[i]) : i \in S}
      <4>1. names \in SUBSET GroupVersions
        BY NamesAreVersions DEF TypeOK
      <4>2. Unusable("groups") \in Codes
        BY <3>1, UnusableCases DEF Files
      <4>3. \/ Reply(c, Failed(Unusable("groups")))
            \/ Reply(c, Response("OK", "groups", names))
        BY <3>6 DEF GetAPIs
      <4> HIDE DEF names
      <4> QED
        BY <3>1, <3>2, <4>1, <4>2, <4>3, ReplyTypes
    <3>7. CASE GetVersion(c)
      <4>1. Unusable("version") \in Codes
        BY <3>1, UnusableCases DEF Files
      <4> QED
        BY <3>1, <3>2, <3>7, <4>1, ReplyTypes DEF GetVersion
    <3>8. CASE GetLog(c)
      <4>1. ASSUME NEW file \in Files, NEW label \in {"errorsLog", "replied"},
                   LogOr(c, file, label)
            PROVE  TypeOK'
        <5>1. CASE pc' = [pc EXCEPT ![c] = label] /\ UNCHANGED <<environment, start, req, resp>>
          BY <5>1 DEF TypeOK, Pcs
        <5>2. CASE Reply(c, Response("OK", file, {}))
          BY <5>2, <3>1, ReplyTypes
        <5> QED
          BY <4>1, <5>1, <5>2, <3>1, <3>2 DEF LogOr
      <4>2. LogFile(req[c]) \in Files /\ "errors" \in Files
        BY DEF LogFile, Files, LogFiles
      <4> QED
        BY <3>8, <4>1, <4>2 DEF GetLog
    <3> QED
      BY <2>4, <3>3, <3>4, <3>5, <3>6, <3>7, <3>8 DEF Handle
  <2>5. CASE UNCHANGED vars
    BY <2>5 DEF TypeOK, vars
  <2> QED
    BY <2>1, <2>2, <2>3, <2>4, <2>5 DEF Next
<1> QED
  BY <1>1, <1>2, PTL DEF Spec

-----------------------------------------------------------------------------
(* The inductive invariant of the answers *)

(* The bundle describes the core resources.                                *)
Usable ==
  /\ "resources" \in DOMAIN bundle.form
  /\ bundle.form["resources"] = "json"
  /\ Described("v1", FALSE)

(* StartAPIServer gets past its loop only on an answer that shows that,    *)
(* and clients come after it.                                              *)
StartInv ==
  /\ req["poll"] = PollRequest
  /\ \A c \in Callers : req[c].kind = "v1" => req[c].name = "v1"
  /\ ~cleaning => files = DOMAIN bundle.form
  /\ resp["poll"].code = "OK" => Usable
  /\ main \in {"create", "write", "returned"} => Usable
  /\ \A c \in Clients : pc[c] # "idle" => main = "returned"

(* A log handler in its second read has not found the first file.          *)
LogInv ==
  \A c \in Callers :
    pc[c] = "errorsLog" =>
      req[c].kind = "log" /\ req[c].valid /\ LogFile(req[c]) \notin files

(* What the four properties say of one client.                             *)
AnswerInv ==
  \A c \in Clients : pc[c] = "replied" =>
    /\ req[c].kind = "v1" /\ req[c].valid /\ ~cleaning
         => resp[c].code \in {"OK", "Refused"}
    /\ req[c].kind = "apis" /\ resp[c].code = "OK"
         => resp[c].names = StoredVersions \ {"v1"}
    /\ req[c].kind = "log" /\ resp[c].code = "OK"
         => /\ resp[c].file \in {LogFile(req[c]), "errors"}
            /\ ~cleaning /\ LogFile(req[c]) \in DOMAIN bundle.form
                 => resp[c].file = LogFile(req[c])
    /\ req[c].kind = "log" /\ resp[c].code = "NotFound"
         => {LogFile(req[c]), "errors"} \cap files = {}

SafeInv == TypeOK /\ StartInv /\ LogInv /\ AnswerInv

(* A union that leaves out what stands alone in a member.                  *)
LEMMA UnionWithout ==
  ASSUME NEW D, NEW K \in SUBSET D, NEW f, NEW x,
         \A i \in D \ K : f[i] = {x},
         \A i \in K : x \notin f[i]
  PROVE  UNION {f[i] : i \in K} = (UNION {f[i] : i \in D}) \ {x}
<1>1. ASSUME NEW v \in UNION {f[i] : i \in K}
      PROVE  v \in (UNION {f[i] : i \in D}) \ {x}
  BY <1>1
<1>2. ASSUME NEW v \in (UNION {f[i] : i \in D}) \ {x}
      PROVE  v \in UNION {f[i] : i \in K}
  BY <1>2
<1> QED
  BY <1>1, <1>2

(* The /apis filter leaves out the core group and no other.                *)
LEMMA FilteredVersions ==
  ASSUME NEW b \in Bundles
  PROVE  UNION {Range(b.groups[i]) : i \in {j \in DOMAIN b.groups : ~LeftOut(b.groups[j])}}
           = (UNION {Range(b.groups[i]) : i \in DOMAIN b.groups}) \ {"v1"}
<1>1. \A i \in DOMAIN b.groups : b.groups[i] \in Seq(GroupVersions)
  BY BundlesAssumption
<1>2. \A i \in DOMAIN b.groups :
        "v1" \in Range(b.groups[i]) => Len(b.groups[i]) = 1 /\ b.groups[i][1] = "v1"
  BY BundlesAssumption
<1>3. \A i \in DOMAIN b.groups : LeftOut(b.groups[i]) => Range(b.groups[i]) = {"v1"}
  <2> SUFFICES ASSUME NEW i \in DOMAIN b.groups, LeftOut(b.groups[i])
               PROVE  Range(b.groups[i]) = {"v1"}
    OBVIOUS
  <2>1. DOMAIN b.groups[i] = 1..1 /\ b.groups[i][1] = "v1"
    BY <1>1 DEF LeftOut
  <2> QED
    BY <2>1 DEF Range
<1>4. \A i \in DOMAIN b.groups : ~LeftOut(b.groups[i]) => "v1" \notin Range(b.groups[i])
  BY <1>2 DEF LeftOut
<1> DEFINE kept == {j \in DOMAIN b.groups : ~LeftOut(b.groups[j])}
           f == [i \in DOMAIN b.groups |-> Range(b.groups[i])]
<1>5. /\ kept \subseteq DOMAIN b.groups
      /\ \A i \in DOMAIN b.groups \ kept : f[i] = {"v1"}
      /\ \A i \in kept : "v1" \notin f[i]
  BY <1>3, <1>4
<1>6. /\ {Range(b.groups[i]) : i \in kept} = {f[i] : i \in kept}
      /\ {Range(b.groups[i]) : i \in DOMAIN b.groups} = {f[i] : i \in DOMAIN b.groups}
  BY <1>5
<1> HIDE DEF f
<1>7. UNION {f[i] : i \in kept} = (UNION {f[i] : i \in DOMAIN b.groups}) \ {"v1"}
  BY <1>5, UnionWithout
<1> QED
  BY <1>6, <1>7

(* While nothing is deleted, the core resources of a usable bundle are     *)
(* answered.                                                               *)
LEMMA CoreAnswered ==
  ASSUME TypeOK, StartInv, NEW c \in Callers, req[c].kind = "v1", NEW r,
         r = IF Unusable("resources") # "none" THEN Failed(Unusable("resources"))
             ELSE IF Described(req[c].name, req[c].kind = "groupVersion")
               THEN Response("OK", "resources", {req[c].name})
               ELSE Failed("NotFound")
  PROVE  /\ Usable /\ ~cleaning => r.code = "OK"
         /\ r.code = "OK" => Usable
<1>1. req[c].name = "v1" /\ "resources" \in Files
  BY DEF StartInv, Files
<1>2. Unusable("resources") = "none"
        <=> "resources" \in files /\ bundle.form["resources"] = "json"
  BY <1>1, UnusableCases
<1>3. Unusable("resources") # "OK"
  BY <1>1, UnusableCases
<1>4. r.code = IF Unusable("resources") # "none" THEN Unusable("resources")
               ELSE IF Described("v1", FALSE) THEN "OK" ELSE "NotFound"
  BY <1>1 DEF Response, Failed
<1>5. files \subseteq DOMAIN bundle.form
  BY DEF TypeOK
<1>6. ~cleaning => files = DOMAIN bundle.form
  BY DEF StartInv
<1>7. r.code = "OK" <=>
        "resources" \in files /\ bundle.form["resources"] = "json" /\ Described("v1", FALSE)
  BY <1>2, <1>3, <1>4
<1> QED
  BY <1>5, <1>6, <1>7 DEF Usable

(* What a response must be for the answers to stay right.                  *)
Good(c, r) ==
  /\ c = "poll" /\ r.code = "OK" => Usable
  /\ req[c].kind = "v1" /\ req[c].valid /\ ~cleaning /\ Usable
       => r.code \in {"OK", "Refused"}
  /\ req[c].kind = "apis" /\ r.code = "OK" => r.names = StoredVersions \ {"v1"}
  /\ req[c].kind = "log" /\ r.code = "OK"
       => /\ r.file \in {LogFile(req[c]), "errors"}
          /\ ~cleaning /\ LogFile(req[c]) \in DOMAIN bundle.form
               => r.file = LogFile(req[c])
  /\ req[c].kind = "log" /\ r.code = "NotFound"
       => {LogFile(req[c]), "errors"} \cap files = {}

LEMMA ReplyKeeps ==
  ASSUME SafeInv, NEW c \in Callers, NEW r, pc[c] # "idle", Reply(c, r), Good(c, r)
  PROVE  StartInv' /\ LogInv' /\ AnswerInv'
<1> USE DEF SafeInv
<1>1. /\ \A d \in Callers : d # c => pc'[d] = pc[d] /\ resp'[d] = resp[d]
      /\ pc'[c] = "replied" /\ resp'[c] = r
      /\ UNCHANGED <<bundle, files, cleaning, up, main, req>>
  BY DEF TypeOK, Reply, environment, start
<1>2. Usable' = Usable /\ StoredVersions' = StoredVersions
  BY <1>1 DEF Usable, Described, StoredVersions
<1>3. "poll" \in Callers /\ Clients \subseteq Callers
  BY DEF Callers
<1>4. StartInv'
  BY <1>1, <1>2, <1>3 DEF StartInv, Good
<1>5. LogInv'
  BY <1>1 DEF LogInv
<1>6. c \in Clients => Usable
  BY DEF StartInv
<1>7. AnswerInv'
  <2> SUFFICES ASSUME NEW d \in Clients, pc'[d] = "replied"
               PROVE  /\ req[d].kind = "v1" /\ req[d].valid /\ ~cleaning
                           => resp'[d].code \in {"OK", "Refused"}
                      /\ req[d].kind = "apis" /\ resp'[d].code = "OK"
                           => resp'[d].names = StoredVersions \ {"v1"}
                      /\ req[d].kind = "log" /\ resp'[d].code = "OK"
                           => /\ resp'[d].file \in {LogFile(req[d]), "errors"}
                              /\ ~cleaning /\ LogFile(req[d]) \in DOMAIN bundle.form
                                   => resp'[d].file = LogFile(req[d])
                      /\ req[d].kind = "log" /\ resp'[d].code = "NotFound"
                           => {LogFile(req[d]), "errors"} \cap files = {}
    BY <1>1, <1>2 DEF AnswerInv
  <2>1. CASE d = c
    BY <2>1, <1>1, <1>6 DEF Good
  <2>2. CASE d # c
    BY <2>2, <1>1, <1>3 DEF AnswerInv
  <2> QED
    BY <2>1, <2>2
<1> QED
  BY <1>4, <1>5, <1>7

(* Every handler answers well.                                             *)
LEMMA HandlerKeeps ==
  ASSUME SafeInv, NEW c \in Callers, Handle(c)
  PROVE  StartInv' /\ LogInv' /\ AnswerInv'
<1> USE DEF SafeInv, At, Sent
<1>1. /\ c = "poll" => req[c].kind = "v1" /\ req[c].valid
      /\ "resources" \in Files /\ "groups" \in Files /\ "version" \in Files
  BY DEF StartInv, PollRequest, Files
<1>2. ASSUME NEW code, Reply(c, Failed(code)), pc[c] # "idle",
             code \in {"BadRequest", "ServerError", "Refused", "NotFound"},
             req[c].kind = "v1" /\ req[c].valid /\ ~cleaning /\ Usable => code = "Refused",
             req[c].kind = "log" /\ code = "NotFound"
               => {LogFile(req[c]), "errors"} \cap files = {}
      PROVE  StartInv' /\ LogInv' /\ AnswerInv'
  <2>1. Failed(code).code = code
    BY DEF Failed, Response
  <2>2. Good(c, Failed(code))
    BY <1>2, <2>1 DEF Good
  <2> QED
    BY <1>2, <2>2, ReplyKeeps
<1>3. CASE Refuse(c)
  BY <1>3, <1>2 DEF Refuse
<1>4. CASE Invalid(c)
  BY <1>4, <1>2 DEF Invalid
<1>5. CASE GetNotFound(c)
  BY <1>5, <1>2 DEF GetNotFound
<1>6. CASE GetAPI(c)
  <2>1. Good(c, Response("OK", "none", {"v1"}))
    BY <1>1, <1>6 DEF GetAPI, Good
  <2> QED
    BY <1>6, <2>1, ReplyKeeps DEF GetAPI
<1>7. CASE GetVersion(c)
  <2>1. Good(c, Response("OK", "version", {}))
    BY <1>1, <1>7 DEF GetVersion, Good
  <2>2. Unusable("version") # "none" => Unusable("version") \in {"NotFound", "ServerError"}
    BY <1>1, UnusableCases
  <2> QED
    BY <1>7, <1>2, <2>1, <2>2, ReplyKeeps DEF GetVersion
<1>8. CASE GetResources(c)
  <2> DEFINE r == IF Unusable("resources") # "none" THEN Failed(Unusable("resources"))
                  ELSE IF Described(req[c].name, req[c].kind = "groupVersion")
                    THEN Response("OK", "resources", {req[c].name})
                    ELSE Failed("NotFound")
  <2>1. Reply(c, r) /\ pc[c] # "idle" /\ req[c].kind \in {"v1", "groupVersion"}
    BY <1>8 DEF GetResources
  <2>2. req[c].kind = "v1" => (Usable /\ ~cleaning => r.code = "OK") /\ (r.code = "OK" => Usable)
    BY CoreAnswered
  <2> HIDE DEF r
  <2>3. Good(c, r)
    BY <1>1, <2>1, <2>2 DEF Good
  <2> QED
    BY <2>1, <2>3, ReplyKeeps
<1>9. CASE GetAPIs(c)
  <2> DEFINE names == UNION {Range(bundle.groups[i]) :
                        i \in {j \in DOMAIN bundle.groups : ~LeftOut(bundle.groups[j])}}
  <2>1. names = StoredVersions \ {"v1"}
    BY FilteredVersions DEF TypeOK, StoredVersions
  <2>2. \/ /\ Unusable("groups") # "none"
           /\ Reply(c, Failed(Unusable("groups")))
        \/ Reply(c, Response("OK", "groups", names))
    BY <1>9 DEF GetAPIs
  <2>3. pc[c] # "idle" /\ req[c].kind = "apis"
    BY <1>9 DEF GetAPIs
  <2>4. Unusable("groups") # "none" => Unusable("groups") \in {"NotFound", "ServerError"}
    BY <1>1, UnusableCases
  <2> HIDE DEF names
  <2>5. Good(c, Response("OK", "groups", names))
    BY <1>1, <2>1, <2>3 DEF Good, Response
  <2> QED
    BY <1>2, <2>2, <2>3, <2>4, <2>5, ReplyKeeps
<1>10. CASE GetLog(c)
  <2>1. req[c].kind = "log" /\ req[c].valid /\ pc[c] # "idle" /\ c # "poll"
    BY <1>1, <1>10 DEF GetLog, LogInv
  <2>2. ASSUME NEW file, file \in files,
               Reply(c, IF bundle.form[file] = "unreadable"
                          THEN Failed("ServerError")
                          ELSE Response("OK", file, {})),
               \/ file = LogFile(req[c])
               \/ file = "errors" /\ LogFile(req[c]) \notin files
        PROVE  StartInv' /\ LogInv' /\ AnswerInv'
    <3>1. Good(c, Response("OK", file, {}))
      BY <2>1, <2>2 DEF Good, Response, StartInv
    <3>2. CASE bundle.form[file] = "unreadable"
      BY <3>2, <1>2, <2>1, <2>2
    <3> QED
      BY <2>1, <2>2, <3>1, <3>2, ReplyKeeps
  <2>3. CASE Sent(c, "log") /\ LogOr(c, LogFile(req[c]), "errorsLog")
    <3>1. CASE /\ LogFile(req[c]) \notin files
               /\ pc' = [pc EXCEPT ![c] = "errorsLog"]
               /\ UNCHANGED <<environment, start, req, resp>>
      <4>1. /\ \A d \in Callers : d # c => pc'[d] = pc[d]
            /\ pc'[c] = "errorsLog"
            /\ UNCHANGED <<bundle, files, cleaning, main, req, resp>>
        BY <3>1 DEF TypeOK, environment, start
      <4>2. Usable' = Usable /\ StoredVersions' = StoredVersions
        BY <4>1 DEF Usable, Described, StoredVersions
      <4>3. StartInv'
        BY <2>1, <4>1, <4>2 DEF StartInv, Callers
      <4>4. LogInv'
        BY <2>1, <3>1, <4>1 DEF LogInv
      <4>5. AnswerInv'
        BY <4>1, <4>2 DEF AnswerInv, Callers
      <4> QED
        BY <4>3, <4>4, <4>5
    <3> QED
      BY <2>2, <2>3, <3>1 DEF LogOr
  <2>4. CASE At(c, "errorsLog") /\ LogOr(c, "errors", "replied")
    <3>1. LogFile(req[c]) \notin files
      BY <2>4 DEF LogInv
    <3>2. CASE "errors" \notin files /\ Reply(c, Failed("NotFound"))
      BY <1>2, <2>1, <3>1, <3>2
    <3>3. CASE "errors" \in files
      BY <2>2, <2>4, <3>1, <3>3 DEF LogOr
    <3> QED
      BY <2>4, <3>2, <3>3 DEF LogOr
  <2> QED
    BY <1>10, <2>3, <2>4 DEF GetLog
<1> QED
  BY <1>3, <1>4, <1>5, <1>6, <1>7, <1>8, <1>9, <1>10 DEF Handle

-----------------------------------------------------------------------------
(* The invariant holds, and with it the four properties *)

LEMMA InitSafe == Init => StartInv /\ LogInv /\ AnswerInv
<1> SUFFICES ASSUME Init
             PROVE  StartInv /\ LogInv /\ AnswerInv
  OBVIOUS
<1>1. /\ pc = [c \in Callers |-> "idle"]
      /\ resp["poll"].code = "none"
      /\ req["poll"] = PollRequest
  BY DEF Init, NoResponse, Response, Callers
<1>2. \A c \in Callers : req[c].kind = "v1" => req[c].name = "v1"
  <2>1. PICK rqs \in [Clients -> Requests] :
          req = [c \in Callers |-> IF c = "poll" THEN PollRequest ELSE rqs[c]]
    BY DEF Init
  <2>2. PollRequest.name = "v1"
    BY DEF PollRequest
  <2>3. \A c \in Callers : c # "poll" => req[c] \in Requests
    BY <2>1 DEF Callers
  <2> QED
    BY <2>1, <2>2, <2>3, StartupAssumption
<1> QED
  BY <1>1, <1>2 DEF Init, StartInv, LogInv, AnswerInv, Callers

LEMMA SafeStep == SafeInv /\ [Next]_vars => StartInv' /\ LogInv' /\ AnswerInv'
<1> SUFFICES ASSUME SafeInv, [Next]_vars
             PROVE  StartInv' /\ LogInv' /\ AnswerInv'
  OBVIOUS
<1> USE DEF SafeInv, Running, Goto
<1>1. "poll" \in Callers /\ Clients \subseteq Callers /\ "poll" \notin Clients
  BY StartupAssumption DEF Callers
(* A step of StartAPIServer, or of nobody, in which no request is answered. *)
<1>2. ASSUME UNCHANGED <<bundle, files, cleaning, req>>,
             \A c \in Clients : pc'[c] = pc[c] /\ resp'[c] = resp[c],
             \A c \in Callers : pc'[c] = "errorsLog" => pc[c] = "errorsLog",
             resp'["poll"].code = "OK" => resp["poll"].code = "OK",
             main = "returned" => main' = "returned",
             main' \in {"create", "write", "returned"} => Usable
      PROVE  StartInv' /\ LogInv' /\ AnswerInv'
  <2>1. Usable' = Usable /\ StoredVersions' = StoredVersions
    BY <1>2 DEF Usable, Described, StoredVersions
  <2>2. StartInv'
    BY <1>2, <2>1 DEF StartInv
  <2>3. LogInv'
    BY <1>2 DEF LogInv
  <2>4. AnswerInv'
    BY <1>2, <2>1 DEF AnswerInv
  <2> QED
    BY <2>2, <2>3, <2>4
(* A step of the process that deletes the bundle. *)
<1>3. ASSUME UNCHANGED <<bundle, start, requests>>, files' \subseteq files,
             cleaning => cleaning', files' # files => cleaning
      PROVE  StartInv' /\ LogInv' /\ AnswerInv'
  <2>1. Usable' = Usable /\ StoredVersions' = StoredVersions
    BY <1>3 DEF Usable, Described, StoredVersions
  <2>2. UNCHANGED <<main, pc, req, resp>>
    BY <1>3 DEF start, requests
  <2>3. StartInv'
    BY <1>3, <2>1, <2>2 DEF StartInv
  <2>4. LogInv'
    BY <1>3, <2>2 DEF LogInv
  <2>5. AnswerInv'
    BY <1>3, <2>1, <2>2 DEF AnswerInv
  <2> QED
    BY <2>3, <2>4, <2>5
<1>4. CASE Start
  <2> USE DEF environment, requests
  <2>1. CASE Listen \/ SpawnServer \/ TimeOut
    BY <1>2, <2>1 DEF Listen, SpawnServer, TimeOut
  <2>2. CASE CreateConfigFile
    <3>1. Usable
      BY <2>2 DEF CreateConfigFile, StartInv
    <3> QED
      BY <1>2, <2>2, <3>1 DEF CreateConfigFile
  <2>3. CASE Poll
    <3>1. \A c \in Callers : pc'[c] = IF c = "poll" THEN "sent" ELSE pc[c]
      BY <2>3 DEF Poll, TypeOK
    <3>2. /\ UNCHANGED <<bundle, files, cleaning, req, resp>>
          /\ main = "select" /\ main' = "get"
      BY <2>3 DEF Poll
    <3> QED
      BY <1>1, <1>2, <3>1, <3>2
  <2>4. CASE Polled
    <3>1. /\ UNCHANGED <<bundle, files, cleaning, req>>
          /\ main = "get"
          /\ main' = IF resp["poll"].code = "OK" THEN "create" ELSE "select"
      BY <2>4 DEF Polled
    <3>2. /\ \A c \in Clients : pc'[c] = pc[c] /\ resp'[c] = resp[c]
          /\ \A c \in Callers : pc'[c] = "errorsLog" => pc[c] = "errorsLog"
          /\ resp'["poll"] = NoResponse
      BY <1>1, <2>4 DEF Polled, TypeOK
    <3>3. NoResponse.code = "none"
      BY DEF NoResponse, Response
    <3>4. resp["poll"].code = "OK" => Usable
      BY DEF StartInv
    <3> QED
      BY <1>2, <3>1, <3>2, <3>3, <3>4
  <2> QED
    BY <1>4, <2>1, <2>2, <2>3, <2>4 DEF Start
<1>5. CASE Expire \/ ServeFails \/ ServePanics \/ UNCHANGED vars
  <2>1. UNCHANGED <<bundle, files, cleaning, main, pc, req, resp>>
    BY <1>5 DEF Expire, ServeFails, ServePanics, vars, environment, start, requests
  <2>2. main \in {"create", "write", "returned"} => Usable
    BY DEF StartInv
  <2> QED
    BY <1>2, <2>1, <2>2
<1>6. CASE Environment
  BY <1>3, <1>6 DEF Environment, StartCleanup, RemoveFile, Exit
<1>7. ASSUME NEW c \in Callers, Send(c)
      PROVE  StartInv' /\ LogInv' /\ AnswerInv'
  <2>1. /\ \A d \in Callers : pc'[d] = IF d = c THEN "sent" ELSE pc[d]
        /\ UNCHANGED <<bundle, files, cleaning, main, req, resp>>
        /\ main = "returned" /\ pc[c] = "idle"
    BY <1>7 DEF Send, TypeOK, environment, start
  <2>2. Usable' = Usable /\ StoredVersions' = StoredVersions
    BY <2>1 DEF Usable, Described, StoredVersions
  <2>3. StartInv'
    BY <1>1, <2>1, <2>2 DEF StartInv
  <2>4. LogInv'
    BY <2>1 DEF LogInv
  <2>5. AnswerInv'
    BY <1>1, <2>1, <2>2 DEF AnswerInv
  <2> QED
    BY <2>3, <2>4, <2>5
<1>8. ASSUME NEW c \in Callers, Handle(c)
      PROVE  StartInv' /\ LogInv' /\ AnswerInv'
  BY <1>8, HandlerKeeps
<1> QED
  BY <1>4, <1>5, <1>6, <1>7, <1>8 DEF Next

(* The three parts of the invariant hold together in every behaviour.      *)
LEMMA SafeAlways == Spec => []SafeInv
<1>1. Init => StartInv /\ LogInv /\ AnswerInv
  BY InitSafe
<1>2. TypeOK /\ (StartInv /\ LogInv /\ AnswerInv) /\ [Next]_vars
        => (StartInv /\ LogInv /\ AnswerInv)'
  BY SafeStep DEF SafeInv
<1>3. SafeInv <=> TypeOK /\ (StartInv /\ LogInv /\ AnswerInv)
  BY DEF SafeInv
<1> QED
  BY <1>1, <1>2, <1>3, TypeCorrect, PTL DEF Spec

(* A kubeconfig that was handed out leads to a server that answers, for    *)
(* any bundle and any number of clients: StartAPIServer's poll of /api/v1  *)
(* reads what kubectl will ask for.                                        *)
THEOREM ReadyServerIsUsable == Spec => []ReadyMeansUsable
<1>1. SafeInv => ReadyMeansUsable
  BY DEF SafeInv, AnswerInv, ReadyMeansUsable, Answered
<1> QED
  BY <1>1, SafeAlways, PTL

(* The core group is discovered once, and no other group is lost.          *)
THEOREM GroupsDiscoveredOnce == Spec => []GroupsOnce
<1>1. SafeInv => GroupsOnce
  BY DEF SafeInv, AnswerInv, GroupsOnce, Answered
<1> QED
  BY <1>1, SafeAlways, PTL

(* The log of another container state is never answered.                   *)
THEOREM LogIsTheOneAskedFor == Spec => []LogAsAsked
<1>1. SafeInv => LogAsAsked
  BY DEF SafeInv, AnswerInv, LogAsAsked, Answered
<1> QED
  BY <1>1, SafeAlways, PTL

(* A log is said to be missing only when it is.                            *)
THEOREM MissingLogIsMissing == Spec => []LogNotFoundIsTrue
<1>1. SafeInv => LogNotFoundIsTrue
  BY DEF SafeInv, AnswerInv, LogNotFoundIsTrue, Answered
<1> QED
  BY <1>1, SafeAlways, PTL
=============================================================================
