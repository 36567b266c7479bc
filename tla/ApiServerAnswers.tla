--------------------------- MODULE ApiServerAnswers ---------------------------
(***************************************************************************)
(* The proof that the handlers of ApiServer implement Listing              *)
(* (AnswersAtOnce), and of the two properties that say why a request may   *)
(* fail and that a get agrees with a list.                                 *)
(*                                                                         *)
(* As long as nothing is deleted a handler settles on the directory a      *)
(* single look at the bundle would choose (Settled) and its result is what *)
(* the files it is through with hold for the request (Gathered), so that   *)
(* its answer is that of the bundle (Right).                               *)
(***************************************************************************)
EXTENDS ApiServerComplete, ApiServerListing

(* Before the cleanup starts the bundle is all there. *)
Intact == ~cleaning => files = DOMAIN bundle.data /\ dirs = bundle.dirs

(* What a handler has checked of its request when it looks at files. *)
Begun(c) ==
  /\ resp[c].code = "none" <=> pc[c] # "replied"
  /\ pc[c] \notin {"idle", "replied"} => req[c].valid /\ SelectorsParse(req[c])
  /\ pc[c] = "probefile" => req[c].route \in {"ApisNsList", "ApisNsGet", "ApisGet"}
  /\ pc[c] = "stat" => req[c].route \in NamespaceLists
  /\ pc[c] = "idle" => todo[c] = {} /\ ~single[c]
  /\ pc[c] \in {"idle", "probedir", "readdir"} => result[c].items = {}

(* Its directory is the one a single look at the bundle would choose, and  *)
(* a list handler reads files that exist.                                  *)
Settled(c) ==
  ~cleaning =>
    /\ pc[c] \in {"readdir", "loop", "stat", "read"} => dir[c] = Home(req[c])
    /\ pc[c] = "read" /\ req[c].route \in Lists => FileExists(c)

(* The files the loop of a handler is through with. *)
Done(c) ==
  {p \in HomeFiles(req[c]) :
     p.ns \notin todo[c] /\ ~(pc[c] = "read" /\ p.ns = ns[c])}

(* The files of the request can be merged, if there are any. *)
Joins(rq) == Mergeable(rq) \/ HomeFiles(rq) = {}

(* The result is what the files so far hold for the request. *)
Gathered(c) ==
  ~cleaning /\ req[c].route \in ClusterLists /\ pc[c] \in {"loop", "read"} =>
    /\ todo[c] \subseteq HomeNumbers(req[c])
    /\ single[c] <=> \E n \in HomeNumbers(req[c]) : HomeNumbers(req[c]) = {n}
    /\ pc[c] = "read" => ns[c] \in HomeNumbers(req[c]) \ todo[c]
    /\ Joins(req[c]) =>
         /\ result[c].items = UNION {Chosen(req[c], p) : p \in Done(c)}
         /\ result[c].type = "nil" => result[c].items = {}
         /\ Known(req[c]) => result[c].type = KnownType(req[c])

(* The files of the request can be decoded. *)
Decoded(rq) ==
  \A p \in HomeFiles(rq) : Decode(rq.resource, bundle.data[p]).type # "error"

(* What a response says of the bundle. *)
Right(rq, code, value) ==
  /\ code = "BadRequest" => ~rq.valid
  /\ code \in {"OK", "NotFound", "Aborted"} => rq.valid /\ SelectorsParse(rq)
  /\ rq.route \in Lists => code # "NotFound"
  /\ rq.route \in Gets /\ code = "OK"
       => \E o \in GetAsked(rq).eligible : value.items = {o}
  /\ ~cleaning =>
       /\ Served(rq) => code \notin {"ServerError", "Aborted"}
       /\ rq.route \in Lists /\ code = "OK" /\ Joins(rq)
            => value.items = ListAsked(rq).objects
       /\ rq.route \in Gets =>
            /\ code = "OK" => \E o \in GetAsked(rq).objects : value.items = {o}
            /\ code = "NotFound" => GetAsked(rq).objects = {} /\ Decoded(rq)
            /\ rq.valid /\ SelectorsParse(rq) /\ GetAsked(rq).whole
                 => code \in {"OK", "NotFound"}

Correct(c) ==
  resp[c].code # "none" => Right(req[c], resp[c].code, resp[c].value)

Exactly(c) == Begun(c) /\ Settled(c) /\ Gathered(c) /\ Correct(c)
ExactInv == Intact /\ \A c \in Clients : Exactly(c)

-----------------------------------------------------------------------------
(* What does not change *)

(* The cleanup never stops, and nothing is deleted before it starts. *)
LEMMA CleaningFrame ==
  ASSUME TypeOK, [Next]_vars, ~cleaning'
  PROVE  ~cleaning /\ files' = files /\ dirs' = dirs
<1>1. CASE Cleanup
  BY <1>1 DEF Cleanup, StartCleanup, RemoveFile, RemoveDir, Exit
<1>2. ASSUME NEW c \in Clients, Handle(c)
      PROVE  ~cleaning /\ files' = files /\ dirs' = dirs
  BY <1>2, HandleFrame DEF storage
<1>3. CASE UNCHANGED vars
  BY <1>3 DEF vars, storage
<1> QED BY <1>1, <1>2, <1>3 DEF Next

LEMMA IntactStep ==
  ASSUME TypeOK, Intact, [Next]_vars
  PROVE  Intact'
BY Frame, CleaningFrame DEF Intact

(* What the bundle holds for a request is that of the first state. *)
LEMMA AskedFrame ==
  ASSUME [Next]_vars, NEW c \in Clients
  PROVE  /\ \A p : Chosen(req[c], p)' = Chosen(req[c], p)
         /\ Joins(req[c])' = Joins(req[c])
         /\ Served(req[c])' = Served(req[c])
         /\ Decoded(req[c])' = Decoded(req[c])
         /\ SelectorsParse(req[c])' = SelectorsParse(req[c])
         /\ ListAsked(req[c])' = ListAsked(req[c])
         /\ GetAsked(req[c])' = GetAsked(req[c])
         /\ Asked(req[c])' = Asked(req[c])
<1> DEFINE rq == req[c]
<1>1. /\ bundle' = bundle /\ req' = req
      /\ HomeFiles(rq)' = HomeFiles(rq) /\ Mergeable(rq)' = Mergeable(rq)
      /\ Eligible(rq)' = Eligible(rq)
  BY Frame, BundleFrame, EligibleFrame
<1>2. \A p : Chosen(rq, p)' = Chosen(rq, p)
  BY <1>1 DEF Chosen
<1>3. Joins(rq)' = Joins(rq) /\ SelectorsParse(rq)' = SelectorsParse(rq)
  BY <1>1 DEF Joins, SelectorsParse
<1>4. Served(rq)' = Served(rq)
  BY <1>1, <1>3 DEF Served, BaseDir
<1>5. ListAsked(rq)' = ListAsked(rq)
  BY <1>1, <1>2, <1>4 DEF ListAsked
<1>6. GetAsked(rq)' = GetAsked(rq)
  BY <1>1 DEF GetAsked, Named, Stored, BaseDir, CustomDir
<1>7. Asked(rq)' = Asked(rq)
  BY <1>1, <1>3, <1>5, <1>6 DEF Asked
<1>8. Decoded(rq)' = Decoded(rq)
  BY <1>1 DEF Decoded
<1> QED BY <1>2, <1>3, <1>4, <1>5, <1>6, <1>7, <1>8

-----------------------------------------------------------------------------
(* The files of a request *)

LEMMA HomeFacts ==
  ASSUME TypeOK, NEW rq \in Requests
  PROVE  /\ \A p \in HomeFiles(rq) :
              /\ p = [dir |-> Home(rq), ns |-> p.ns] /\ p.ns \in HomeNumbers(rq)
              /\ p \in DOMAIN bundle.data /\ bundle.data[p] \in FileData
         /\ \A n \in HomeNumbers(rq) :
              [dir |-> Home(rq), ns |-> n] \in DOMAIN bundle.data
                => [dir |-> Home(rq), ns |-> n] \in HomeFiles(rq)
BY BundlesAssumption DEF TypeOK, HomeFiles

(* Of several files looked for all are stored. *)
LEMMA SeveralAreStored ==
  ASSUME NEW rq \in Requests, rq.route \in ClusterLists,
         ~\E n \in HomeNumbers(rq) : HomeNumbers(rq) = {n}
  PROVE  \A n \in HomeNumbers(rq) : [dir |-> Home(rq), ns |-> n] \in HomeFiles(rq)
<1>1. HomeNumbers(rq) \in {{}, {0}, NamespacesOf(rq)}
  BY DEF HomeNumbers
<1>2. HomeNumbers(rq) = {} \/ HomeNumbers(rq) = NamespacesOf(rq)
  BY <1>1
<1> QED BY <1>2 DEF NamespacesOf, Stored, HomeFiles

(* When one is looked for, it is the only file of the request. *)
LEMMA OnlyHomeFile ==
  ASSUME TypeOK, NEW rq \in Requests, NEW n, HomeNumbers(rq) = {n}
  PROVE  HomeFiles(rq) =
           IF [dir |-> Home(rq), ns |-> n] \in DOMAIN bundle.data
             THEN {[dir |-> Home(rq), ns |-> n]} ELSE {}
<1>1. \A p \in HomeFiles(rq) : p = [dir |-> Home(rq), ns |-> n]
                              /\ p \in DOMAIN bundle.data
  BY HomeFacts
<1>2. [dir |-> Home(rq), ns |-> n] \in DOMAIN bundle.data
        => [dir |-> Home(rq), ns |-> n] \in HomeFiles(rq)
  BY HomeFacts
<1> QED BY <1>1, <1>2

(* The items kept of a file that is decoded and filtered are the chosen.   *)
LEMMA ChosenFacts ==
  ASSUME NEW rq \in Requests, NEW p, bundle.data[p] \in FileData,
         ~Failure(ListIn(rq, bundle.data[p]))
  PROVE  /\ ListIn(rq, bundle.data[p]).items = Chosen(rq, p)
         /\ ListIn(rq, bundle.data[p]).type = "nil" => Chosen(rq, p) = {}
<1> DEFINE data == bundle.data[p]
           d == Decode(rq.resource, data)
           l == FilterObjectsByLabels(d, rq.labels)
           f == FilterObjectsByFields(l, rq.fields)
<1>1. /\ d \in Value
      /\ d.type # "error" => d.items = data.items
      /\ d.type = "nil" => data.items = {}
  BY DecodeFacts
<1>2. /\ l \in Value
      /\ ~Failure(l) => l.type = d.type /\ l.items = d.items \cap Match[rq.labels]
  BY <1>1, LabelFilterFacts
<1>3. /\ f.type = l.type
      /\ f.items = IF l.type \in FieldFilteredTypes
                     THEN l.items \cap Match[rq.fields] ELSE l.items
  <2>1. l.items \subseteq Objects /\ Match[NoSel] = Objects
    BY <1>2, SelectorsAssumption DEF Value
  <2> HIDE DEF l
  <2> QED BY <2>1 DEF FilterObjectsByFields
<1>4. ListIn(rq, data) = IF rq.route \in SelectingRoutes THEN f ELSE d
  BY DEF ListIn
<1>5. Chosen(rq, p) = {o \in data.items :
                         rq.route \in SelectingRoutes =>
                           /\ o \in Match[rq.labels]
                           /\ d.type \in FieldFilteredTypes => o \in Match[rq.fields]}
  BY DEF Chosen
<1> HIDE DEF d, l, f, data
<1>6. CASE rq.route \in SelectingRoutes
  <2>1. ~Failure(l) /\ d.type # "error" /\ ListIn(rq, data) = f
    <3>1. ~Failure(f)
      BY <1>4, <1>6 DEF data
    <3>2. ~Failure(l)
      BY <1>3, <3>1 DEF Failure
    <3> QED BY <1>2, <1>4, <1>6, <3>2 DEF Failure
  <2>2. f.items = Chosen(rq, p)
    BY <1>1, <1>2, <1>3, <1>5, <1>6, <2>1
  <2>3. f.type = "nil" => Chosen(rq, p) = {}
    BY <1>1, <1>2, <1>3, <1>5, <2>1
  <2> QED BY <2>1, <2>2, <2>3 DEF data
<1>7. CASE rq.route \notin SelectingRoutes
  <2>1. d.type # "error" /\ ListIn(rq, data) = d
    BY <1>4, <1>7 DEF Failure, data
  <2> QED BY <1>1, <1>5, <1>7, <2>1 DEF data
<1> QED BY <1>6, <1>7

(* A file of a request that is served is decoded and filtered. *)
LEMMA ServedFacts ==
  ASSUME NEW rq \in Requests, Served(rq), NEW p \in HomeFiles(rq)
  PROVE  /\ Decode(rq.resource, bundle.data[p]).type \notin Outcomes
         /\ ~Failure(ListIn(rq, bundle.data[p]))
<1> DEFINE d == Decode(rq.resource, bundle.data[p])
           l == FilterObjectsByLabels(d, rq.labels)
           f == FilterObjectsByFields(l, rq.fields)
<1>1. /\ d.type \notin Outcomes
      /\ rq.route \in SelectingRoutes /\ rq.labels # NoSel
           => d.type \in LabelFilteredTypes
  BY DEF Served
<1>2. ListIn(rq, bundle.data[p]) = IF rq.route \in SelectingRoutes THEN f ELSE d
  BY DEF ListIn
<1> HIDE DEF d
<1>3. rq.route \in SelectingRoutes => l.type = d.type
  BY <1>1 DEF FilterObjectsByLabels
<1> HIDE DEF l
<1>4. f.type = l.type
  BY DEF FilterObjectsByFields
<1> HIDE DEF f
<1>5. ~Failure(ListIn(rq, bundle.data[p]))
  BY <1>1, <1>2, <1>3, <1>4 DEF Failure, Outcomes
<1> QED BY <1>1, <1>5 DEF d

-----------------------------------------------------------------------------
(* The steps of one handler *)

(* Some of the reply steps, and what every step does to the response. *)
LEMMA HandleReplies ==
  ASSUME TypeOK, NEW c \in Clients, Handle(c)
  PROVE  /\ up /\ pc[c] # "replied"
         /\ resp' = resp \/ pc'[c] = "replied"
<1> USE DEF At, Accept
<1>1. ASSUME NEW code, NEW value, Reply(c, code, value)
      PROVE  pc'[c] = "replied"
  BY <1>1, ReplyFacts
<1>2. CASE \/ Refuse(c) \/ ReadDirFails(c) \/ LoopDone(c) \/ ReadFails(c)
  BY <1>1, <1>2 DEF Refuse, ReadDirFails, LoopDone, ReadFails
<1>3. CASE \/ CallDirList(c) \/ CallFileList(c) \/ CallOtherList(c)
           \/ CallOneFile(c) \/ ProbeDir(c) \/ ProbeFile(c) \/ ReadDir(c)
           \/ LoopStat(c)
  BY <1>3 DEF CallDirList, CallFileList, CallOtherList, CallOneFile, ProbeDir,
              ProbeFile, ReadDir, LoopStat
<1>4. CASE Stat(c)
  BY <1>1, <1>4 DEF Stat
<1>5. CASE ReadList(c)
  BY <1>1, <1>5 DEF ReadList
<1>6. CASE ReadGet(c)
  BY <1>1, <1>6 DEF ReadGet
<1> QED
  BY <1>2, <1>3, <1>4, <1>5, <1>6 DEF Handle

LEMMA BegunStep ==
  ASSUME TypeOK, NEW c \in Clients, Where(c), Looks(c), Begun(c), Handle(c)
  PROVE  Begun(c)'
<1> DEFINE rq == req[c]
<1>1. /\ req' = req /\ rq \in Requests
      /\ SelectorsParse(rq)' = SelectorsParse(rq)
  <2>1. Next
    BY DEF Next
  <2> QED BY <2>1, Frame, AskedFrame DEF TypeOK
<1>2. ASSUME NEW code \in Codes \ {"none"}, NEW value, Reply(c, code, value)
      PROVE  Begun(c)'
  <2>1. pc'[c] = "replied" /\ resp'[c] = [code |-> code, value |-> value]
    BY <1>2, ReplyFacts
  <2> QED BY <2>1 DEF Begun
<1>3. ASSUME resp' = resp, pc[c] # "replied", rq.valid, SelectorsParse(rq),
             pc'[c] \notin {"idle", "replied"},
             pc'[c] = "probefile" => rq.route \in {"ApisNsList", "ApisNsGet", "ApisGet"},
             pc'[c] = "stat" => rq.route \in NamespaceLists,
             pc'[c] \in {"probedir", "readdir"} => result'[c].items = {}
      PROVE  Begun(c)'
  BY <1>1, <1>3 DEF Begun
<1> USE DEF TypeOK, Goto, At, handler
<1>4. CASE \/ Refuse(c) \/ ReadDirFails(c) \/ LoopDone(c) \/ ReadFails(c)
  BY <1>2, <1>4 DEF Refuse, ReadDirFails, LoopDone, ReadFails, Codes
<1>5. CASE CallDirList(c)
  BY <1>3, <1>5 DEF CallDirList, Accept, Empty
<1>6. CASE CallFileList(c)
  BY <1>3, <1>6 DEF CallFileList, Accept
<1>7. CASE CallOtherList(c)
  BY <1>3, <1>7 DEF CallOtherList, Accept, Begun
<1>8. CASE CallOneFile(c)
  <2>1. /\ pc[c] = "idle" /\ rq.valid /\ SelectorsParse(rq)
        /\ rq.route \in NamespaceLists \cup Gets
        /\ pc'[c] = FirstStep[rq.route] /\ resp' = resp
    BY <1>1, <1>8, RequestsAssumption DEF CallOneFile, Accept, RequestsType, Lists
  <2>2. CASE rq.route = "V1NsList"
    <3>1. pc'[c] = "stat"
      BY <2>1, <2>2 DEF FirstStep
    <3> QED BY <1>3, <2>1, <2>2, <3>1 DEF NamespaceLists
  <2>3. CASE rq.route \in {"V1NsGet", "V1Get"}
    <3>1. pc'[c] = "read"
      BY <2>1, <2>3 DEF FirstStep
    <3> QED BY <1>3, <2>1, <3>1
  <2>4. CASE rq.route \in {"ApisNsList", "ApisNsGet", "ApisGet"}
    <3>1. pc'[c] = "probefile"
      BY <2>1, <2>4 DEF FirstStep
    <3> QED BY <1>3, <2>1, <2>4, <3>1
  <2> QED BY <2>1, <2>2, <2>3, <2>4 DEF NamespaceLists, Gets
<1>9. CASE ProbeDir(c) \/ ReadDir(c) \/ LoopStat(c)
  BY <1>3, <1>9 DEF ProbeDir, ReadDir, LoopStat, Begun
<1>10. CASE ProbeFile(c)
  BY <1>3, <1>10 DEF ProbeFile, Begun, NamespaceLists
<1>11. CASE Stat(c)
  BY <1>2, <1>3, <1>11 DEF Stat, Begun, Codes
<1>12. CASE ReadList(c)
  <2>1. \/ \E code \in Codes \ {"none"} : \E value : Reply(c, code, value)
        \/ pc[c] = "read" /\ pc'[c] = "loop" /\ resp' = resp
    BY <1>12 DEF ReadList, FailCode, Codes
  <2> QED BY <1>2, <1>3, <2>1 DEF Begun
<1>13. CASE ReadGet(c)
  <2>1. \E code \in Codes \ {"none"} : \E value : Reply(c, code, value)
    BY <1>13 DEF ReadGet, FailCode, Codes
  <2> QED BY <1>2, <2>1
<1> QED
  BY <1>4, <1>5, <1>6, <1>7, <1>8, <1>9, <1>10, <1>11, <1>12, <1>13 DEF Handle

LEMMA SettledStep ==
  ASSUME TypeOK, Intact, NEW c \in Clients, Where(c), Looks(c), Begun(c),
         Settled(c), Handle(c)
  PROVE  Settled(c)'
<1> DEFINE rq == req[c]
<1>1. /\ req' = req /\ rq \in Requests /\ Home(rq)' = Home(rq)
      /\ files' = files /\ cleaning' = cleaning
  <2>1. Next
    BY DEF Next
  <2> QED BY <2>1, Frame, BundleFrame, HandleFrame DEF TypeOK, storage
<1>2. SUFFICES ASSUME ~cleaning
               PROVE  Settled(c)'
  BY <1>1 DEF Settled
<1>3. files = DOMAIN bundle.data /\ dirs = bundle.dirs
  BY <1>2 DEF Intact
<1>4. ASSUME NEW code, NEW value, Reply(c, code, value)
      PROVE  Settled(c)'
  BY <1>4, ReplyFacts DEF Settled
<1>5. ASSUME dir'[c] = Home(rq),
             pc'[c] = "read" /\ rq.route \in Lists
               => [dir |-> dir'[c], ns |-> ns'[c]] \in files
      PROVE  Settled(c)'
  BY <1>1, <1>5 DEF Settled, FileExists, CurrentFile
<1>6. pc[c] \in {"readdir", "loop", "stat", "read"} => dir[c] = Home(rq)
  BY <1>2 DEF Settled
<1> USE DEF TypeOK, Goto, At, handler
<1>7. CASE \/ Refuse(c) \/ ReadDirFails(c) \/ LoopDone(c) \/ ReadFails(c)
  BY <1>4, <1>7 DEF Refuse, ReadDirFails, LoopDone, ReadFails
<1>8. CASE CallDirList(c)
  <2>1. /\ dir'[c] = BaseDir(rq) /\ Known(rq) /\ rq.route \in ClusterLists
        /\ pc'[c] = "readdir"
    BY <1>8 DEF CallDirList, Accept, Where, Known
  <2> QED
    BY <1>1, <1>5, <2>1, HomeIsBase DEF ClusterLists, SelectingRoutes
<1>9. CASE CallFileList(c)
  <2>1. /\ dir'[c] = BaseDir(rq) /\ rq.route \in ClusterLists
        /\ rq.resource \in DOMAIN FileResources(rq.route)
        /\ pc'[c] = "loop"
    BY <1>9 DEF CallFileList, Accept, Where
  <2> QED
    BY <1>1, <1>5, <2>1, HomeIsBase DEF ClusterLists, SelectingRoutes
<1>10. CASE CallOtherList(c)
  <2>1. /\ dir'[c] = BaseDir(rq)
        /\ pc'[c] = IF rq.route = "V1List" THEN "loop" ELSE "probedir"
    BY <1>10 DEF CallOtherList, Accept, Where
  <2>2. CASE rq.route = "V1List"
    BY <1>1, <1>5, <2>1, <2>2, HomeIsBase DEF SelectingRoutes
  <2>3. CASE rq.route # "V1List"
    BY <2>1, <2>3 DEF Settled
  <2> QED BY <2>2, <2>3
<1>11. CASE CallOneFile(c)
  <2>1. /\ dir'[c] = BaseDir(rq) /\ rq.route \in NamespaceLists \cup Gets
        /\ pc'[c] = FirstStep[rq.route]
    BY <1>1, <1>11, RequestsAssumption
    DEF CallOneFile, Accept, Where, RequestsType, Lists
  <2>2. CASE rq.route \in {"V1NsList", "V1NsGet", "V1Get"}
    <3>1. /\ Home(rq) = BaseDir(rq)
          /\ rq.route \in Lists => rq.route = "V1NsList"
      BY <2>2 DEF Home, Lists, ClusterLists, NamespaceLists
    <3>2. rq.route = "V1NsList" => pc'[c] = "stat"
      BY <2>1 DEF FirstStep
    <3> QED BY <1>5, <2>1, <3>1, <3>2
  <2>3. CASE rq.route \in {"ApisNsList", "ApisNsGet", "ApisGet"}
    <3>1. pc'[c] = "probefile"
      BY <2>1, <2>3 DEF FirstStep
    <3> QED BY <3>1 DEF Settled
  <2> QED BY <2>1, <2>2, <2>3 DEF NamespaceLists, Gets
<1>12. CASE ProbeDir(c)
  <2>1. /\ rq.route = "ApisList" /\ dir[c] = BaseDir(rq) /\ ~Known(rq)
        /\ rq.resource \notin DOMAIN FileResources(rq.route)
        /\ pc'[c] = "readdir"
    BY <1>12 DEF ProbeDir, Where, Looks
  <2>2. Home(rq) = IF BaseDir(rq) \in bundle.dirs THEN BaseDir(rq) ELSE CustomDir(rq)
    BY <2>1 DEF Home, Known, DirResources, FileResources
  <2>3. dir'[c] = IF BaseDir(rq) \in dirs THEN BaseDir(rq) ELSE CustomDir(rq)
    BY <1>12, <2>1 DEF ProbeDir
  <2> QED BY <1>3, <1>5, <2>1, <2>2, <2>3
<1>13. CASE ProbeFile(c)
  <2>1. /\ rq.route \in {"ApisNsList", "ApisNsGet", "ApisGet"}
        /\ dir[c] = BaseDir(rq) /\ ns[c] = rq.ns
        /\ pc'[c] = IF rq.route = "ApisNsList" THEN "stat" ELSE "read"
    BY <1>13 DEF ProbeFile, Where, Begun, ClusterLists
  <2>2. Home(rq) = IF Stored(BaseDir(rq), rq.ns) THEN BaseDir(rq) ELSE CustomDir(rq)
    BY <2>1 DEF Home
  <2>3. FileExists(c) <=> Stored(BaseDir(rq), rq.ns)
    BY <1>3, <2>1 DEF FileExists, CurrentFile, Stored
  <2>4. dir'[c] = IF FileExists(c) THEN BaseDir(rq) ELSE CustomDir(rq)
    BY <1>13, <2>1 DEF ProbeFile
  <2>5. pc'[c] = "read" => rq.route \notin Lists
    BY <2>1 DEF Lists, ClusterLists, NamespaceLists
  <2> QED BY <1>5, <2>2, <2>3, <2>4, <2>5
<1>14. CASE ReadDir(c)
  BY <1>5, <1>6, <1>14 DEF ReadDir
<1>15. CASE LoopStat(c)
  <2>1. PICK n \in todo[c] :
          IF [dir |-> dir[c], ns |-> n] \in files
            THEN pc'[c] = "read" /\ ns'[c] = n
            ELSE pc'[c] = "loop"
    BY <1>15 DEF LoopStat
  <2>2. pc[c] = "loop" /\ dir'[c] = dir[c]
    BY <1>15 DEF LoopStat
  <2> QED BY <1>5, <1>6, <2>1, <2>2
<1>16. CASE Stat(c)
  BY <1>4, <1>5, <1>6, <1>16 DEF Stat, FileExists, CurrentFile
<1>17. CASE ReadList(c)
  <2>1. \/ \E code, value : Reply(c, code, value)
        \/ pc[c] = "read" /\ pc'[c] = "loop" /\ dir'[c] = dir[c]
    BY <1>17 DEF ReadList
  <2> QED BY <1>4, <1>5, <1>6, <2>1
<1>18. CASE ReadGet(c)
  <2>1. \E code, value : Reply(c, code, value)
    BY <1>18 DEF ReadGet
  <2> QED BY <1>4, <2>1
<1> QED
  BY <1>7, <1>8, <1>9, <1>10, <1>11, <1>12, <1>13, <1>14, <1>15, <1>16, <1>17,
     <1>18 DEF Handle
(* A step of the loop goes from one file to the next. *)
LEMMA GatheredStep ==
  ASSUME TypeOK, Intact, NEW c \in Clients, Where(c), Looks(c), Begun(c),
         Settled(c), Gathered(c), Handle(c)
  PROVE  Gathered(c)'
<1> DEFINE rq == req[c]
           H == HomeFiles(rq)
           N == HomeNumbers(rq)
<1>1. /\ req' = req /\ rq \in Requests /\ files' = files /\ cleaning' = cleaning
      /\ H' = H /\ N' = N /\ Joins(rq)' = Joins(rq) /\ Known(rq)' = Known(rq)
      /\ KnownType(rq)' = KnownType(rq)
      /\ \A p : Chosen(rq, p)' = Chosen(rq, p)
  <2>1. Next
    BY DEF Next
  <2> QED BY <2>1, Frame, BundleFrame, AskedFrame, HandleFrame DEF TypeOK, storage
<1>2. SUFFICES ASSUME ~cleaning, rq.route \in ClusterLists,
                      pc'[c] \in {"loop", "read"}
               PROVE  Gathered(c)'
  BY <1>1 DEF Gathered
<1>3. files = DOMAIN bundle.data /\ dirs = bundle.dirs
  BY <1>2 DEF Intact
<1>4. \A p \in H : p = [dir |-> Home(rq), ns |-> p.ns] /\ p.ns \in N
  BY <1>1, HomeFacts
<1> HIDE DEF H, N
<1>5. ASSUME NEW D \in SUBSET H,
             D = {p \in H : p.ns \notin todo'[c]
                              /\ ~(pc'[c] = "read" /\ p.ns = ns'[c])},
             todo'[c] \subseteq N,
             single'[c] <=> \E n \in N : N = {n},
             pc'[c] = "read" => ns'[c] \in N \ todo'[c],
             Joins(rq) =>
               /\ result'[c].items = UNION {Chosen(rq, p) : p \in D}
               /\ result'[c].type = "nil" => result'[c].items = {}
               /\ Known(rq) => result'[c].type = KnownType(rq)
      PROVE  Gathered(c)'
  <2>1. Done(c)' = D
    BY <1>1, <1>5 DEF Done, H
  <2> QED BY <1>1, <1>5, <2>1 DEF Gathered, N
<1>6. ASSUME NEW code, NEW value, Reply(c, code, value)
      PROVE  Gathered(c)'
  BY <1>2, <1>6, ReplyFacts
<1>7. UNION {Chosen(rq, p) : p \in {}} = {}
  OBVIOUS
<1> USE DEF TypeOK, Goto, At, handler
<1>8. CASE \/ Refuse(c) \/ ReadDirFails(c) \/ LoopDone(c) \/ ReadFails(c)
  BY <1>6, <1>8 DEF Refuse, ReadDirFails, LoopDone, ReadFails
<1>9. CASE CallDirList(c) \/ CallOneFile(c) \/ ProbeDir(c) \/ ProbeFile(c)
           \/ Stat(c)
  <2>1. pc'[c] \in {"loop", "read"} => rq.route \notin ClusterLists
                                        \/ \E code, value : Reply(c, code, value)
    BY <1>9 DEF CallDirList, CallOneFile, ProbeDir, ProbeFile, Stat, Where
  <2> QED BY <1>2, <1>6, <2>1
<1>10. CASE CallFileList(c)
  <2>1. /\ pc'[c] = "loop" /\ single'[c] = TRUE /\ todo'[c] = {0}
        /\ rq.resource \in DOMAIN FileResources(rq.route)
        /\ result'[c].items = {}
    BY <1>10 DEF CallFileList, Empty
  <2>2. N = {0} /\ ~Known(rq)
    BY <1>1, <1>2, <2>1, TablesDisjoint DEF HomeNumbers, Known, N
  <2>3. {} = {p \in H : p.ns \notin todo'[c]
                          /\ ~(pc'[c] = "read" /\ p.ns = ns'[c])}
    BY <1>4, <2>1, <2>2
  <2> QED BY <1>5, <1>7, <2>1, <2>2, <2>3
<1>11. CASE CallOtherList(c)
  <2>1. /\ pc'[c] = "loop" /\ todo'[c] = {} /\ single'[c] = FALSE
        /\ result'[c].items = {}
        /\ ~Known(rq) /\ rq.resource \notin DOMAIN FileResources(rq.route)
        /\ rq.route = "V1List"
    BY <1>2, <1>11 DEF CallOtherList, Accept, Begun, Known
  <2>2. N = {}
    BY <1>2, <2>1 DEF HomeNumbers, Known, N
  <2>3. {} = {p \in H : p.ns \notin todo'[c]
                          /\ ~(pc'[c] = "read" /\ p.ns = ns'[c])}
    BY <1>4, <2>2
  <2> QED BY <1>5, <1>7, <2>1, <2>2, <2>3
<1>12. CASE ReadDir(c)
  <2> DEFINE found == IF dir[c] \in dirs THEN JSONFilesOf(dir[c]) ELSE {}
             names == IF found = {} /\ ~Known(rq) THEN {0} ELSE found
  <2>1. /\ pc[c] = "readdir" /\ pc'[c] = "loop" /\ result'[c] = result[c]
        /\ todo'[c] = names /\ single'[c] = (\E n \in names : names = {n})
    BY <1>12 DEF ReadDir, Known
  <2>2. /\ dir[c] = Home(rq) /\ result[c].items = {}
        /\ rq.resource \notin DOMAIN FileResources(rq.route)
        /\ ~Known(rq) => rq.route = "ApisList"
        /\ Known(rq) => result[c].type = KnownType(rq)
    BY <1>2, <2>1 DEF Settled, Begun, Looks
  <2>3. found = NamespacesOf(rq)
    <3>1. Home(rq) \notin bundle.dirs => NamespacesOf(rq) = {}
      BY BundlesAssumption, NamespacesAssumption DEF NamespacesOf, Stored
    <3> QED BY <1>3, <2>2, <3>1 DEF JSONFilesOf, NamespacesOf, Stored
  <2>4. names = N
    BY <1>2, <2>2, <2>3 DEF HomeNumbers, Known, N
  <2> HIDE DEF found, names
  <2>5. {} = {p \in H : p.ns \notin todo'[c]
                          /\ ~(pc'[c] = "read" /\ p.ns = ns'[c])}
    BY <1>4, <2>1, <2>4
  <2> QED BY <1>5, <1>7, <2>1, <2>2, <2>4, <2>5
<1>13. CASE LoopStat(c)
  <2>1. PICK n \in todo[c] :
          /\ todo'[c] = todo[c] \ {n}
          /\ IF [dir |-> dir[c], ns |-> n] \in files
               THEN pc'[c] = "read" /\ ns'[c] = n
               ELSE pc'[c] = "loop"
    BY <1>13 DEF LoopStat
  <2>2. /\ pc[c] = "loop" /\ single'[c] = single[c] /\ result'[c] = result[c]
    BY <1>13 DEF LoopStat
  <2>3. /\ dir[c] = Home(rq) /\ todo[c] \subseteq N
        /\ single[c] <=> \E m \in N : N = {m}
        /\ Joins(rq) =>
             /\ result[c].items = UNION {Chosen(rq, p) : p \in Done(c)}
             /\ result[c].type = "nil" => result[c].items = {}
             /\ Known(rq) => result[c].type = KnownType(rq)
    BY <1>2, <2>2 DEF Settled, Gathered, N
  <2>4. Done(c) = {p \in H : p.ns \notin todo[c]}
    BY <2>2 DEF Done, H
  <2>5. pc'[c] = "loop" => \A p \in H : p.ns # n
    <3>1. \A p \in H : p = [dir |-> dir[c], ns |-> p.ns] /\ p \in files
      BY <1>3, <1>4, <2>3 DEF H, HomeFiles
    <3> QED BY <2>1, <3>1
  <2>6. Done(c) = {p \in H : p.ns \notin todo'[c]
                               /\ ~(pc'[c] = "read" /\ p.ns = ns'[c])}
    BY <2>1, <2>4, <2>5
  <2> QED BY <1>5, <2>1, <2>2, <2>3, <2>6
<1>14. CASE ReadList(c)
  <2> DEFINE cur == CurrentFile(c)
             read == ListIn(rq, bundle.data[cur])
             list == Merge(result[c], read, MergeTypes(rq.route))
  <2>1. \/ \E code, value : Reply(c, code, value)
        \/ /\ pc[c] = "read" /\ FileExists(c) /\ ~single[c] /\ ~Failure(list)
           /\ result'[c] = list /\ pc'[c] = "loop"
           /\ todo'[c] = todo[c] /\ single'[c] = single[c]
    BY <1>14 DEF ReadList
  <2>2. SUFFICES ASSUME pc[c] = "read", FileExists(c), ~single[c], ~Failure(list),
                        result'[c] = list, pc'[c] = "loop",
                        todo'[c] = todo[c], single'[c] = single[c]
                 PROVE  Gathered(c)'
    BY <1>6, <2>1
  <2>3. /\ dir[c] = Home(rq) /\ todo[c] \subseteq N
        /\ single[c] <=> \E m \in N : N = {m}
        /\ ns[c] \in N \ todo[c]
        /\ Joins(rq) =>
             /\ result[c].items = UNION {Chosen(rq, p) : p \in Done(c)}
             /\ Known(rq) => result[c].type = KnownType(rq)
    BY <1>2, <2>2 DEF Settled, Gathered, N
  <2>4. /\ cur = [dir |-> Home(rq), ns |-> ns[c]] /\ cur \in H
        /\ bundle.data[cur] \in FileData
    BY <1>1, <1>3, <2>2, <2>3, HomeFacts DEF CurrentFile, FileExists, H, N
  <2>5. Done(c) \cup {cur} =
          {p \in H : p.ns \notin todo'[c]
                       /\ ~(pc'[c] = "read" /\ p.ns = ns'[c])}
    <3>1. \A p \in H : p.ns = ns[c] <=> p = cur
      BY <1>4, <2>4
    <3> HIDE DEF cur, list
    <3> QED BY <2>2, <2>3, <2>4, <3>1 DEF Done, H
  <2>6. ASSUME Joins(rq)
        PROVE  /\ list.items = UNION {Chosen(rq, p) : p \in Done(c) \cup {cur}}
               /\ list.type = KnownType(rq) /\ KnownType(rq) # "nil"
    <3>1. ~\E p \in H : H = {p}
      <4>1. \A n \in N : [dir |-> Home(rq), ns |-> n] \in H
        BY <1>1, <1>2, <2>2, <2>3, SeveralAreStored DEF H, N
      <4>2. SUFFICES ASSUME NEW p \in H, H = {p}
                     PROVE  FALSE
        OBVIOUS
      <4>3. \A n \in N : n = p.ns
        BY <4>1, <4>2
      <4> QED BY <2>2, <2>3, <4>3
    <3>2. /\ Known(rq)
          /\ Decode(rq.resource, bundle.data[cur]).type = KnownType(rq)
      BY <2>4, <2>6, <3>1 DEF Joins, Mergeable, Known, KnownType, H
    <3>3. ~Failure(read)
      BY <2>2 DEF Merge, Failure
    <3>4. /\ read \in Value /\ read.type = KnownType(rq)
          /\ read.items = Chosen(rq, cur)
      BY <1>1, <2>4, <3>2, <3>3, ListInFacts, ChosenFacts
    <3>5. /\ KnownType(rq) \in MergeTypes(rq.route)
          /\ MergeTypes(rq.route) \in SUBSET ListTypes
          /\ KnownType(rq) # "nil"
      BY <1>1, <3>2, TableFacts DEF Known, KnownType, ListTypes
    <3>6. result[c] \in Value /\ result[c].type = KnownType(rq)
      BY <2>3, <2>6, <3>2
    <3> HIDE DEF read
    <3>7. list.type = KnownType(rq) /\ list.items = result[c].items \cup read.items
      <4>1. read.type \in MergeTypes(rq.route) /\ read.type = result[c].type
        BY <3>4, <3>5, <3>6
      <4>2. LET m == Merge(result[c], read, MergeTypes(rq.route))
            IN  m.type = result[c].type /\ m.items = result[c].items \cup read.items
        BY <3>4, <3>5, <3>6, <4>1, MergeFacts
      <4> QED BY <3>6, <4>2
    <3> HIDE DEF list, cur
    <3>8. UNION {Chosen(rq, p) : p \in Done(c) \cup {cur}}
            = (UNION {Chosen(rq, p) : p \in Done(c)}) \cup Chosen(rq, cur)
      OBVIOUS
    <3> QED BY <2>3, <2>6, <3>4, <3>5, <3>7, <3>8
  <2>7. Done(c) \cup {cur} \in SUBSET H
    BY <2>4 DEF Done, H
  <2> HIDE DEF list, cur
  <2> QED BY <1>5, <2>2, <2>3, <2>5, <2>6, <2>7
<1>15. CASE ReadGet(c)
  <2>1. \E code, value : Reply(c, code, value)
    BY <1>15 DEF ReadGet
  <2> QED BY <1>6, <2>1
<1> QED
  BY <1>8, <1>9, <1>10, <1>11, <1>12, <1>13, <1>14, <1>15 DEF Handle

(* A response that is right stays right. *)
LEMMA RightFrame ==
  ASSUME TypeOK, [Next]_vars, NEW c \in Clients, Correct(c), resp'[c] = resp[c]
  PROVE  Correct(c)'
<1>1. /\ req' = req
      /\ ~cleaning' => ~cleaning
  BY Frame, CleaningFrame
<1> QED
  BY <1>1, AskedFrame DEF Correct, Right

LEMMA ReplyCorrect ==
  ASSUME TypeOK, NEW c \in Clients, Handle(c), NEW code, NEW value,
         Reply(c, code, value), Right(req[c], code, value)
  PROVE  Correct(c)'
<1>1. req' = req /\ cleaning' = cleaning
  BY HandleFrame DEF storage, Reply
<1>2. resp'[c].code = code /\ resp'[c].value = value
  <2>1. resp'[c] = [code |-> code, value |-> value]
    BY ReplyFacts
  <2> QED BY <2>1
<1>3. [Next]_vars
  BY DEF Next
<1> QED
  BY <1>1, <1>2, <1>3, AskedFrame DEF Correct, Right

(* What Listing is asked, field by field. *)
LEMMA AskedFields ==
  ASSUME NEW rq
  PROVE  /\ ListAsked(rq).objects = UNION {Chosen(rq, p) : p \in HomeFiles(rq)}
         /\ GetAsked(rq).objects = UNION {Named(rq, p) : p \in HomeFiles(rq)}
         /\ GetAsked(rq).whole <=>
              \A p \in HomeFiles(rq) :
                Decode(rq.resource, bundle.data[p]).type \notin Outcomes
         /\ GetAsked(rq).eligible =
              {o \in Objects :
                 /\ NameOf[o] = rq.name
                 /\ \E d \in {BaseDir(rq), CustomDir(rq)} :
                      /\ Stored(d, rq.ns)
                      /\ o \in bundle.data[[dir |-> d, ns |-> rq.ns]].items}
BY DEF ListAsked, GetAsked

(* The objects a get is asked for, of one file or of none.                 *)
LEMMA GetAskedFacts ==
  ASSUME NEW rq
  PROVE  /\ HomeFiles(rq) = {} => GetAsked(rq).objects = {}
         /\ \A p : HomeFiles(rq) = {p} => GetAsked(rq).objects = Named(rq, p)
         /\ \A o \in Objects, d \in {BaseDir(rq), CustomDir(rq)} :
              /\ NameOf[o] = rq.name /\ Stored(d, rq.ns)
              /\ o \in bundle.data[[dir |-> d, ns |-> rq.ns]].items
              => o \in GetAsked(rq).eligible
<1>1. GetAsked(rq).objects = UNION {Named(rq, p) : p \in HomeFiles(rq)}
  BY AskedFields
<1>2. GetAsked(rq).eligible =
        {o \in Objects :
           /\ NameOf[o] = rq.name
           /\ \E d \in {BaseDir(rq), CustomDir(rq)} :
                /\ Stored(d, rq.ns)
                /\ o \in bundle.data[[dir |-> d, ns |-> rq.ns]].items}
  BY AskedFields
<1>3. HomeFiles(rq) = {} => GetAsked(rq).objects = {}
  BY <1>1
<1>4. ASSUME NEW p, HomeFiles(rq) = {p}
      PROVE  GetAsked(rq).objects = Named(rq, p)
  BY <1>1, <1>4
<1> QED BY <1>2, <1>3, <1>4

(* The routes of lists and gets differ, and the cluster lists are no       *)
(* namespace lists.                                                        *)
LEMMA RouteFacts ==
  /\ Lists \cap Gets = {} /\ ClusterLists \cap Gets = {}
  /\ ClusterLists \cap NamespaceLists = {}
  /\ Lists = ClusterLists \cup NamespaceLists
BY DEF Lists, Gets, ClusterLists, NamespaceLists

(* What a list handler answers when it has read all there is to read.      *)
LEMMA ListRight ==
  ASSUME NEW rq, rq.route \in Lists, rq.valid, SelectorsParse(rq), NEW value,
         ~cleaning /\ Joins(rq)
           => value.items = UNION {Chosen(rq, p) : p \in HomeFiles(rq)}
  PROVE  Right(rq, "OK", value)
BY AskedFields, RouteFacts DEF Right

(* A list handler fails in a request that cannot be served only.           *)
LEMMA ListFails ==
  ASSUME NEW rq, rq.route \in Lists, rq.valid, SelectorsParse(rq), NEW value,
         NEW code \in {"ServerError", "Aborted"},
         cleaning \/ ~Served(rq)
  PROVE  Right(rq, code, value)
BY RouteFacts DEF Right

LEMMA ReadListCorrect ==
  ASSUME TypeOK, Intact, NEW c \in Clients, Where(c), Looks(c), Begun(c),
         Settled(c), Gathered(c), Correct(c), ReadList(c), Handle(c)
  PROVE  Correct(c)'
<1> DEFINE rq == req[c]
           cur == CurrentFile(c)
           read == ListIn(rq, bundle.data[cur])
           only == single[c] \/ rq.route \in NamespaceLists
           list == IF only THEN read
                   ELSE Merge(result[c], read, MergeTypes(rq.route))
           answer == IF rq.route = "V1List" THEN OrEmptyList(list) ELSE list
<1>1. /\ pc[c] = "read" /\ FileExists(c) /\ rq.route \in Lists
      /\ \/ Failure(list) /\ Reply(c, FailCode(list), Nil)
         \/ ~Failure(list) /\ only /\ Reply(c, "OK", answer)
         \/ resp' = resp
  BY DEF ReadList, At
<1>2. /\ rq.valid /\ SelectorsParse(rq) /\ rq \in Requests
  BY <1>1 DEF Begun, TypeOK
<1>3. cur \in DOMAIN bundle.data /\ bundle.data[cur] \in FileData
  BY <1>1, BundlesAssumption DEF FileExists, TypeOK
<1>4. ASSUME ~cleaning
      PROVE  /\ dir[c] = Home(rq) /\ cur = [dir |-> Home(rq), ns |-> ns[c]]
             /\ cur \in HomeFiles(rq)
             /\ only => HomeFiles(rq) = {cur}
  <2>1. dir[c] = Home(rq)
    BY <1>1, <1>4 DEF Settled
  <2>2. cur = [dir |-> Home(rq), ns |-> ns[c]]
    BY <2>1 DEF CurrentFile
  <2>3. ns[c] \in HomeNumbers(rq)
    <3>1. CASE rq.route \in NamespaceLists
      BY <3>1, RouteFacts DEF HomeNumbers, Where
    <3>2. CASE rq.route \in ClusterLists
      BY <1>1, <1>4, <3>2 DEF Gathered
    <3> QED BY <1>1, <3>1, <3>2, RouteFacts
  <2>4. only => HomeNumbers(rq) = {ns[c]}
    <3>1. CASE rq.route \in NamespaceLists
      BY <3>1, RouteFacts DEF HomeNumbers, Where
    <3>2. CASE rq.route \in ClusterLists
      <4>1. single[c] <=> \E n \in HomeNumbers(rq) : HomeNumbers(rq) = {n}
        BY <1>1, <1>4, <3>2 DEF Gathered
      <4> QED BY <2>3, <3>2, <4>1, RouteFacts
    <3> QED BY <1>1, <3>1, <3>2, RouteFacts
  <2>5. cur \in HomeFiles(rq)
    BY <1>2, <1>3, <2>2, <2>3, HomeFacts
  <2>6. only => HomeFiles(rq) = {cur}
    <3> HIDE DEF only, cur
    <3> QED BY <1>2, <1>3, <2>2, <2>4, OnlyHomeFile
  <2> QED BY <2>1, <2>2, <2>5, <2>6
<1>5. ASSUME Failure(list), Reply(c, FailCode(list), Nil)
      PROVE  Correct(c)'
  <2>1. FailCode(list) \in {"ServerError", "Aborted"}
    BY DEF FailCode
  <2>2. SUFFICES ASSUME ~cleaning, Served(rq)
                 PROVE  FALSE
    <3> HIDE DEF list
    <3> QED BY <1>1, <1>2, <1>5, <2>1, ListFails, ReplyCorrect
  <2>3. ~Failure(read)
    BY <1>2, <1>4, <2>2, ServedFacts
  <2>4. ~only
    BY <1>5, <2>3
  <2>5. rq.route \in ClusterLists
    BY <1>1, <2>4, RouteFacts
  <2>6. /\ \A n \in HomeNumbers(rq) : [dir |-> Home(rq), ns |-> n] \in HomeFiles(rq)
        /\ ~\E n \in HomeNumbers(rq) : HomeNumbers(rq) = {n}
        /\ ns[c] \in HomeNumbers(rq)
        /\ Joins(rq) /\ Known(rq) => result[c].type = KnownType(rq)
    BY <1>1, <1>2, <2>2, <2>4, <2>5, SeveralAreStored DEF Gathered
  <2>7. ~\E p \in HomeFiles(rq) : HomeFiles(rq) = {p}
    <3>1. SUFFICES ASSUME NEW p \in HomeFiles(rq), HomeFiles(rq) = {p}
                   PROVE  FALSE
      OBVIOUS
    <3>2. \A n \in HomeNumbers(rq) : n = p.ns
      BY <2>6, <3>1
    <3> QED BY <2>6, <3>2
  <2>8. Joins(rq) /\ Mergeable(rq)
    <3>1. Mergeable(rq) \/ HomeFiles(rq) = {}
      BY <2>2 DEF Served
    <3> QED BY <1>4, <2>2, <3>1 DEF Joins
  <2>9. /\ Known(rq)
        /\ Decode(rq.resource, bundle.data[cur]).type = KnownType(rq)
    BY <1>4, <2>2, <2>7, <2>8 DEF Mergeable, Known, KnownType
  <2>10. read \in Value /\ read.type = KnownType(rq)
    BY <1>2, <1>3, <2>3, <2>9, ListInFacts
  <2>11. /\ result[c].type = KnownType(rq) /\ result[c] \in Value
         /\ KnownType(rq) \in MergeTypes(rq.route)
         /\ MergeTypes(rq.route) \in SUBSET ListTypes
    BY <1>2, <2>6, <2>8, <2>9, TableFacts DEF Known, KnownType, TypeOK
  <2> HIDE DEF read
  <2>12. list.type = KnownType(rq)
    <3>1. LET m == Merge(result[c], read, MergeTypes(rq.route))
          IN  m.type = result[c].type
      BY <2>10, <2>11, MergeFacts
    <3> QED BY <2>4, <2>11, <3>1
  <2>13. KnownType(rq) \notin {"error", "panic"}
    BY <2>11 DEF ListTypes
  <2> HIDE DEF list
  <2> QED BY <1>5, <2>12, <2>13 DEF Failure
<1>6. ASSUME ~Failure(list), only, Reply(c, "OK", answer)
      PROVE  Correct(c)'
  <2>1. ~cleaning => answer.items = UNION {Chosen(rq, p) : p \in HomeFiles(rq)}
    <3>1. SUFFICES ASSUME ~cleaning
                   PROVE  answer.items = UNION {Chosen(rq, p) : p \in HomeFiles(rq)}
      OBVIOUS
    <3>2. read.items = Chosen(rq, cur) /\ (read.type = "nil" => Chosen(rq, cur) = {})
      BY <1>2, <1>3, <1>6, ChosenFacts
    <3>3. HomeFiles(rq) = {cur}
      BY <1>4, <1>6, <3>1
    <3>4. UNION {Chosen(rq, p) : p \in HomeFiles(rq)} = Chosen(rq, cur)
      BY <3>3
    <3>5. EmptyUnstructuredList.items = {}
      BY DEF EmptyUnstructuredList
    <3> HIDE DEF read, cur
    <3> QED BY <1>6, <3>2, <3>4, <3>5 DEF OrEmptyList
  <2>2. Right(rq, "OK", answer)
    <3> HIDE DEF answer
    <3> QED BY <1>1, <1>2, <2>1, ListRight
  <2> HIDE DEF answer
  <2> QED BY <1>6, <2>2, ReplyCorrect
<1>7. CASE resp' = resp
  <2>1. [Next]_vars
    BY DEF Next
  <2> QED BY <1>7, <2>1, RightFrame
<1> HIDE DEF list, answer, only
<1> QED BY <1>1, <1>5, <1>6, <1>7

LEMMA ReadGetCorrect ==
  ASSUME TypeOK, Intact, NEW c \in Clients, Where(c), Begun(c), Settled(c),
         ReadGet(c), Handle(c)
  PROVE  Correct(c)'
<1> DEFINE rq == req[c]
           cur == CurrentFile(c)
           data == bundle.data[cur]
           read == Decode(rq.resource, data)
           list == IF rq.route # "V1Get" /\ read.type = "nil" THEN Panic ELSE read
           found == FoundIn(rq, list)
<1>1. /\ pc[c] = "read" /\ FileExists(c) /\ rq.route \in Gets
      /\ \/ Failure(list) /\ Reply(c, FailCode(list), Nil)
         \/ ~Failure(list) /\ found = {} /\ Reply(c, "NotFound", Nil)
         \/ /\ ~Failure(list)
            /\ \E o \in found : Reply(c, "OK", [type |-> list.type, items |-> {o}])
  BY DEF ReadGet, At
<1>2. /\ rq.valid /\ SelectorsParse(rq) /\ rq \in Requests
      /\ rq.route \notin Lists /\ rq.route \notin ClusterLists
      /\ ns[c] = rq.ns /\ dir[c] \in {BaseDir(rq), CustomDir(rq)}
  BY <1>1, RouteFacts DEF Begun, TypeOK, Where
<1>3. /\ cur = [dir |-> dir[c], ns |-> rq.ns]
      /\ cur \in DOMAIN bundle.data /\ data \in FileData
  BY <1>1, <1>2, BundlesAssumption DEF FileExists, CurrentFile, TypeOK
<1>4. /\ read.items \subseteq data.items /\ data.items \subseteq Objects
      /\ ~Failure(list) => list = read
      /\ Failure(list) => read.type \in Outcomes
  <2>1. read \in Value /\ read.items \subseteq data.items
    BY <1>3, DecodeFacts
  <2>2. data.items \subseteq Objects
    BY <1>3 DEF FileData
  <2> HIDE DEF read
  <2>3. Failure(Panic)
    BY DEF Failure, Panic
  <2> QED BY <2>1, <2>2, <2>3 DEF Failure, Outcomes
<1>5. ASSUME ~cleaning
      PROVE  /\ HomeFiles(rq) = {cur}
             /\ GetAsked(rq).objects = FoundIn(rq, read)
             /\ Decoded(rq) <=> read.type # "error"
             /\ Served(rq) \/ GetAsked(rq).whole => read.type \notin Outcomes
  <2>1. cur = [dir |-> Home(rq), ns |-> rq.ns]
    BY <1>1, <1>3, <1>5 DEF Settled
  <2>2. HomeNumbers(rq) = {rq.ns}
    BY <1>2 DEF HomeNumbers
  <2>3. HomeFiles(rq) = {cur}
    BY <1>2, <1>3, <2>1, <2>2, OnlyHomeFile
  <2>4. GetAsked(rq).objects = Named(rq, cur)
    <3> HIDE DEF cur
    <3> QED BY <2>3, GetAskedFacts
  <2>5. Named(rq, cur) = FoundIn(rq, read)
    BY DEF Named
  <2>6. Served(rq) \/ GetAsked(rq).whole => read.type \notin Outcomes
    BY <1>2, <2>3, ServedFacts, AskedFields
  <2>7. Decoded(rq) <=> read.type # "error"
    BY <2>3 DEF Decoded
  <2> QED BY <2>3, <2>4, <2>5, <2>6, <2>7
<1> HIDE DEF read, data, cur
<1>6. CASE Failure(list) /\ Reply(c, FailCode(list), Nil)
  <2>1. FailCode(list) \in {"ServerError", "Aborted"}
    BY DEF FailCode
  <2>2. ~cleaning => ~Served(rq) /\ ~GetAsked(rq).whole
    BY <1>4, <1>5, <1>6
  <2> HIDE DEF list
  <2>3. Right(rq, FailCode(list), Nil)
    BY <1>2, <2>1, <2>2 DEF Right
  <2> QED BY <1>6, <2>3, ReplyCorrect
<1>7. CASE ~Failure(list) /\ found = {} /\ Reply(c, "NotFound", Nil)
  <2>1. ~cleaning => GetAsked(rq).objects = {} /\ Decoded(rq)
    BY <1>4, <1>5, <1>7 DEF Failure
  <2>2. Right(rq, "NotFound", Nil)
    BY <1>2, <2>1 DEF Right
  <2> QED BY <1>7, <2>2, ReplyCorrect
<1>8. ASSUME ~Failure(list), NEW o \in found,
             Reply(c, "OK", [type |-> list.type, items |-> {o}])
      PROVE  Correct(c)'
  <2> DEFINE value == [type |-> list.type, items |-> {o}]
  <2>1. value.items = {o} /\ o \in FoundIn(rq, read)
    BY <1>4, <1>8
  <2>2. o \in GetAsked(rq).eligible
    <3>1. o \in data.items /\ o \in Objects /\ NameOf[o] = rq.name
      BY <1>4, <2>1 DEF FoundIn
    <3>2. /\ Stored(dir[c], rq.ns)
          /\ o \in bundle.data[[dir |-> dir[c], ns |-> rq.ns]].items
      BY <1>3, <3>1 DEF Stored, data
    <3> QED BY <1>2, <3>1, <3>2, GetAskedFacts
  <2>3. ~cleaning => o \in GetAsked(rq).objects
    BY <1>5, <2>1
  <2> HIDE DEF value
  <2>4. Right(rq, "OK", value)
    BY <1>2, <2>1, <2>2, <2>3 DEF Right
  <2> QED BY <1>8, <2>4, ReplyCorrect DEF value
<1> HIDE DEF list, found
<1> QED BY <1>1, <1>6, <1>7, <1>8

LEMMA CorrectStep ==
  ASSUME TypeOK, Intact, NEW c \in Clients, Where(c), Looks(c), Begun(c),
         Settled(c), Gathered(c), Correct(c), Handle(c)
  PROVE  Correct(c)'
<1> DEFINE rq == req[c]
<1>1. rq \in Requests /\ [Next]_vars
  BY DEF TypeOK, Next
<1>2. ASSUME resp' = resp
      PROVE  Correct(c)'
  BY <1>1, <1>2, RightFrame
<1>3. ~cleaning => files = DOMAIN bundle.data /\ dirs = bundle.dirs
  BY DEF Intact
<1> USE DEF At
<1>4. CASE Refuse(c)
  <2>1. CASE ~rq.valid /\ Reply(c, "BadRequest", Nil)
    <3>1. Right(rq, "BadRequest", Nil)
      BY <2>1 DEF Right
    <3> QED BY <2>1, <3>1, ReplyCorrect
  <2>2. CASE rq.valid /\ ~SelectorsParse(rq) /\ Reply(c, "ServerError", Nil)
    <3>1. ~Served(rq)
      BY <2>2 DEF Served
    <3>2. Right(rq, "ServerError", Nil)
      BY <2>2, <3>1 DEF Right
    <3> QED BY <2>2, <3>2, ReplyCorrect
  <2> QED BY <1>4, <2>1, <2>2 DEF Refuse
<1>5. CASE \/ CallDirList(c) \/ CallFileList(c) \/ CallOtherList(c)
           \/ CallOneFile(c) \/ ProbeDir(c) \/ ProbeFile(c) \/ ReadDir(c)
           \/ LoopStat(c)
  BY <1>2, <1>5 DEF CallDirList, CallFileList, CallOtherList, CallOneFile,
                    ProbeDir, ProbeFile, ReadDir, LoopStat
<1>6. CASE ReadDirFails(c)
  <2>1. /\ pc[c] = "readdir" /\ dir[c] \notin dirs /\ Known(rq)
        /\ rq.route \in ClusterLists /\ rq.route \in Lists
        /\ rq.valid /\ SelectorsParse(rq)
        /\ Reply(c, "ServerError", Nil)
    BY <1>6, RouteFacts DEF ReadDirFails, Where, Begun, Known
  <2>2. cleaning \/ ~Served(rq)
    <3>1. Home(rq) = BaseDir(rq)
      BY <1>1, <2>1, HomeIsBase DEF ClusterLists, SelectingRoutes
    <3>2. ~cleaning => BaseDir(rq) \notin bundle.dirs
      BY <1>3, <2>1, <3>1 DEF Settled
    <3> QED BY <2>1, <3>2 DEF Served, Known
  <2>3. Right(rq, "ServerError", Nil)
    BY <2>1, <2>2, ListFails
  <2> QED BY <2>1, <2>3, ReplyCorrect
<1>7. CASE LoopDone(c)
  <2>1. /\ pc[c] = "loop" /\ todo[c] = {}
        /\ rq.route \in ClusterLists /\ rq.route \in Lists
        /\ rq.valid /\ SelectorsParse(rq)
        /\ Reply(c, "OK", OrEmptyList(result[c]))
    BY <1>7, RouteFacts DEF LoopDone, Where, Begun
  <2>2. ASSUME ~cleaning, Joins(rq)
        PROVE  OrEmptyList(result[c]).items
                 = UNION {Chosen(rq, p) : p \in HomeFiles(rq)}
    <3>1. Done(c) = HomeFiles(rq)
      BY <2>1 DEF Done
    <3>2. /\ result[c].items = UNION {Chosen(rq, p) : p \in Done(c)}
          /\ result[c].type = "nil" => result[c].items = {}
      BY <2>1, <2>2 DEF Gathered
    <3> QED BY <3>1, <3>2 DEF OrEmptyList, EmptyUnstructuredList
  <2>3. Right(rq, "OK", OrEmptyList(result[c]))
    BY <2>1, <2>2, ListRight
  <2> QED BY <2>1, <2>3, ReplyCorrect
<1>8. CASE Stat(c)
  <2>1. CASE ~FileExists(c) /\ Reply(c, "OK", EmptyUnstructuredList)
    <3>1. /\ pc[c] = "stat" /\ rq.route \in NamespaceLists /\ rq.route \in Lists
          /\ rq.valid /\ SelectorsParse(rq) /\ ns[c] = rq.ns
      BY <1>8, RouteFacts DEF Stat, Begun, Where
    <3>2. ASSUME ~cleaning
          PROVE  HomeFiles(rq) = {}
      <4>1. HomeNumbers(rq) = {ns[c]}
        BY <3>1, RouteFacts DEF HomeNumbers
      <4>2. [dir |-> Home(rq), ns |-> ns[c]] \notin DOMAIN bundle.data
        BY <1>3, <2>1, <3>1, <3>2 DEF Settled, FileExists, CurrentFile
      <4> QED BY <1>1, <4>1, <4>2, OnlyHomeFile
    <3>3. ~cleaning => UNION {Chosen(rq, p) : p \in HomeFiles(rq)} = {}
      BY <3>2
    <3>4. Right(rq, "OK", EmptyUnstructuredList)
      BY <3>1, <3>3, ListRight DEF EmptyUnstructuredList
    <3> QED BY <2>1, <3>4, ReplyCorrect
  <2>2. CASE resp' = resp
    BY <1>2, <2>2
  <2> QED BY <1>8, <2>1, <2>2 DEF Stat
<1>9. CASE ReadFails(c)
  <2>1. /\ pc[c] = "read" /\ ~FileExists(c)
        /\ rq.valid /\ SelectorsParse(rq)
        /\ Reply(c, IF rq.route \in Gets THEN "NotFound" ELSE "ServerError", Nil)
    BY <1>9 DEF ReadFails, Begun
  <2>2. CASE rq.route \in Gets
    <3>1. rq.route \notin Lists /\ HomeNumbers(rq) = {ns[c]}
      BY <2>2, RouteFacts DEF HomeNumbers, Where
    <3>2. ASSUME ~cleaning
          PROVE  HomeFiles(rq) = {}
      <4>1. [dir |-> Home(rq), ns |-> ns[c]] \notin DOMAIN bundle.data
        BY <1>3, <2>1, <3>2 DEF Settled, FileExists, CurrentFile
      <4> QED BY <1>1, <3>1, <4>1, OnlyHomeFile
    <3>3. ~cleaning => GetAsked(rq).objects = {} /\ Decoded(rq)
      BY <3>2, GetAskedFacts DEF Decoded
    <3>4. Right(rq, "NotFound", Nil)
      BY <2>1, <3>1, <3>3 DEF Right
    <3> QED BY <2>1, <2>2, <3>4, ReplyCorrect
  <2>3. CASE rq.route \notin Gets
    <3>1. rq.route \in Lists
      BY <1>1, <2>3, RequestsAssumption DEF RequestsType
    <3>2. cleaning
      BY <2>1, <3>1 DEF Settled
    <3>3. Right(rq, "ServerError", Nil)
      BY <2>1, <3>1, <3>2, ListFails
    <3> QED BY <2>1, <2>3, <3>3, ReplyCorrect
  <2> QED BY <2>2, <2>3
<1>10. CASE ReadList(c)
  BY <1>10, ReadListCorrect
<1>11. CASE ReadGet(c)
  BY <1>11, ReadGetCorrect
<1> QED
  BY <1>4, <1>5, <1>6, <1>7, <1>8, <1>9, <1>10, <1>11 DEF Handle
-----------------------------------------------------------------------------
(* The invariant *)

(* A step that leaves the handler of c alone keeps what is known of it. *)
LEMMA ExactFrame ==
  ASSUME TypeOK, NEW c \in Clients, [Next]_vars, Exactly(c),
         pc'[c] = pc[c], dir'[c] = dir[c], ns'[c] = ns[c], todo'[c] = todo[c],
         single'[c] = single[c], result'[c] = result[c], resp'[c] = resp[c]
  PROVE  Exactly(c)'
<1> DEFINE rq == req[c]
<1>1. /\ req' = req /\ bundle' = bundle
      /\ ~cleaning' => ~cleaning /\ files' = files
      /\ CurrentFile(c)' = CurrentFile(c)
  BY Frame, CleaningFrame DEF CurrentFile
<1>2. /\ SelectorsParse(rq)' = SelectorsParse(rq)
      /\ Joins(rq)' = Joins(rq)
      /\ \A p : Chosen(rq, p)' = Chosen(rq, p)
  BY AskedFrame
<1>3. /\ HomeFiles(rq)' = HomeFiles(rq) /\ HomeNumbers(rq)' = HomeNumbers(rq)
      /\ Home(rq)' = Home(rq)
      /\ Known(rq)' = Known(rq) /\ KnownType(rq)' = KnownType(rq)
  BY BundleFrame
<1>4. Begun(c)'
  BY <1>1, <1>2 DEF Exactly, Begun
<1>5. Settled(c)'
  BY <1>1, <1>3 DEF Exactly, Settled, FileExists
<1>6. Done(c)' = Done(c)
  BY <1>1, <1>3 DEF Done
<1>7. Gathered(c)'
  <2>1. (UNION {Chosen(rq, p) : p \in Done(c)})'
          = UNION {Chosen(rq, p) : p \in Done(c)}
    BY <1>2, <1>6
  <2> QED BY <1>1, <1>2, <1>3, <2>1 DEF Exactly, Gathered
<1>8. Correct(c)'
  BY RightFrame DEF Exactly
<1> QED BY <1>4, <1>5, <1>7, <1>8 DEF Exactly

LEMMA ExactStep ==
  ASSUME TypeOK, WhereInv, CompleteInv, ExactInv, [Next]_vars
  PROVE  ExactInv'
<1>1. Intact'
  BY IntactStep DEF ExactInv
<1>2. CASE Cleanup \/ UNCHANGED vars
  <2>1. UNCHANGED <<pc, handler, resp>>
    BY <1>2 DEF vars, Cleanup, StartCleanup, RemoveFile, RemoveDir, Exit, unserved
  <2> QED
    BY <1>1, <2>1, ExactFrame DEF ExactInv, handler
<1>3. ASSUME NEW c \in Clients, Handle(c)
      PROVE  ExactInv'
  <2>1. \A d \in Clients \ {c} : Exactly(d)'
    BY <1>3, HandleFrame, ExactFrame DEF ExactInv
  <2>2. /\ Where(c) /\ Looks(c) /\ Intact
        /\ Begun(c) /\ Settled(c) /\ Gathered(c) /\ Correct(c)
    BY DEF WhereInv, CompleteInv, Complete, ExactInv, Exactly
  <2>3. Exactly(c)'
    BY <1>3, <2>2, BegunStep, SettledStep, GatheredStep, CorrectStep DEF Exactly
  <2> QED BY <1>1, <2>1, <2>3 DEF ExactInv
<1> QED BY <1>2, <1>3 DEF Next

LEMMA ExactInit ==
  ASSUME Init
  PROVE  ExactInv
<1>1. Nil.items = {}
  BY DEF Nil
<1> QED
  BY <1>1 DEF Init, ExactInv, Intact, Exactly, Begun, Settled, Gathered, Correct,
              NoResponse

(* The invariants of the three proofs are inductive together. *)
AllInv == TypeOK /\ WhereInv /\ SoundInv /\ CompleteInv /\ ExactInv

LEMMA AllInvariant == Spec => []AllInv
<1>1. Init => AllInv
  BY TypeOKInit, WhereSoundInit, CompleteInit, ExactInit DEF AllInv
<1>2. AllInv /\ [Next]_vars => AllInv'
  BY TypeOKStep, WhereStep, SoundStep, CompleteStep, ExactStep DEF AllInv
<1> QED BY <1>1, <1>2, PTL DEF Spec

-----------------------------------------------------------------------------
(* What the answers say *)

(* Until the cleanup starts a request fails with a 500, or panics, only if *)
(* its selectors, its directory or one of its files is at fault: no        *)
(* handler trips over a file it has checked or a list it is merging.       *)
THEOREM FailuresAreExplained == Spec => []FailuresExplained
<1>1. AllInv => FailuresExplained
  BY DEF AllInv, ExactInv, Exactly, Correct, Right, FailuresExplained
<1> QED BY <1>1, AllInvariant, PTL

(* A get and the list of the same file know the same names, whatever the   *)
(* other clients do and whichever of the two is answered first.            *)
THEOREM GetsAgreeWithLists == Spec => []GetAgreesWithList
<1>1. ASSUME AllInv
      PROVE  GetAgreesWithList
  <2>1. SUFFICES
          ASSUME NEW c \in Clients, NEW d \in Clients, ~cleaning,
                 Listed(c), req[c].labels = NoSel, req[c].fields = NoSel,
                 resp[d].code \in {"OK", "NotFound"}, req[d].route \in Gets,
                 req[c].route = ListerOf[req[d].route],
                 req[d].resource = req[c].resource,
                 HomeFiles(req[d]) = HomeFiles(req[c]), HomeFiles(req[d]) # {},
                 Searched(req[d])
          PROVE  resp[d].code = "OK"
                   <=> \E o \in resp[c].value.items : NameOf[o] = req[d].name
    BY DEF GetAgreesWithList
  <2> DEFINE lq == req[c]
             gq == req[d]
             items == resp[c].value.items
  <2>2. /\ TypeOK /\ Correct(c) /\ Correct(d)
        /\ lq \in Requests /\ gq \in Requests
    BY <1>1 DEF AllInv, ExactInv, Exactly, TypeOK
  <2>3. PICK p : HomeFiles(gq) = {p} /\ HomeFiles(lq) = {p}
    <3>1. HomeNumbers(gq) = {gq.ns}
      BY <2>1, RouteFacts DEF HomeNumbers
    <3> DEFINE only == [dir |-> Home(gq), ns |-> gq.ns]
    <3>2. HomeFiles(gq) = IF only \in DOMAIN bundle.data THEN {only} ELSE {}
      BY <2>2, <3>1, OnlyHomeFile
    <3>3. HomeFiles(gq) = {only}
      BY <2>1, <3>2
    <3> QED BY <2>1, <3>3
  <2>4. bundle.data[p] \in FileData
    BY <2>2, <2>3, HomeFacts
  <2> DEFINE data == bundle.data[p]
             read == Decode(gq.resource, data)
  <2>5. items = data.items
    <3>1. Joins(lq)
      BY <2>3 DEF Joins, Mergeable
    <3>2. items = UNION {Chosen(lq, q) : q \in HomeFiles(lq)}
      BY <2>1, <2>2, <3>1, AskedFields DEF Listed, Correct, Right
    <3>3. Chosen(lq, p) = data.items
      BY <2>1, <2>4, SelectorsAssumption DEF Chosen, FileData
    <3> QED BY <2>3, <3>2, <3>3
  <2>6. GetAsked(gq).objects = {o \in read.items : NameOf[o] = gq.name}
    <3>1. GetAsked(gq).objects = Named(gq, p)
      BY <2>3, GetAskedFacts
    <3>2. gq.route = "V1Get" => read.type \in V1GetTypes
      BY <2>1, <2>3 DEF Searched
    <3> QED BY <3>1, <3>2 DEF Named, FoundIn
  <2>7. read.type # "error" => read.items = data.items
    BY <2>4, DecodeFacts
  <2>8. read.items \subseteq data.items
    BY <2>4, DecodeFacts
  <2>9. /\ resp[d].code = "OK" => GetAsked(gq).objects # {}
        /\ resp[d].code = "NotFound"
             => GetAsked(gq).objects = {} /\ read.type # "error"
    BY <2>1, <2>2, <2>3 DEF Correct, Right, Decoded
  <2> HIDE DEF lq, gq, items, data, read
  <2>10. CASE resp[d].code = "OK"
    BY <2>5, <2>6, <2>8, <2>9, <2>10 DEF gq, items
  <2>11. CASE resp[d].code = "NotFound"
    BY <2>5, <2>6, <2>7, <2>9, <2>11 DEF gq, items
  <2> QED BY <2>1, <2>10, <2>11
<1> QED BY <1>1, AllInvariant, PTL
-----------------------------------------------------------------------------
(* The handlers implement Listing *)

(* A response is one Listing allows in the state it is given. *)
Matches(c) ==
  resp[c].code # "none" =>
    /\ Abstract!Proper(Asked(req[c]), resp[c])
    /\ ~cleaning /\ Asked(req[c]).whole => Abstract!Exact(Asked(req[c]), resp[c])

MatchInv == \A c \in Clients : Matches(c)

LEMMA ResponsesMatch ==
  ASSUME AllInv
  PROVE  MatchInv
<1>1. SUFFICES ASSUME NEW c \in Clients, resp[c].code # "none"
               PROVE  Matches(c)
  BY DEF MatchInv, Matches
<1> DEFINE rq == req[c]
           code == resp[c].code
           items == resp[c].value.items
<1>2. /\ Right(rq, code, resp[c].value)
      /\ rq \in Requests /\ code \in Codes \ {"none"}
      /\ rq.route \in Lists /\ code = "OK" => items \subseteq Eligible(rq)
  BY <1>1 DEF AllInv, TypeOK, ExactInv, Exactly, Correct, SoundInv, Sound, Listed
<1>3. rq.route \in Lists \cup Gets
  BY <1>2, RequestsAssumption DEF RequestsType
<1>4. CASE ~rq.valid \/ ~SelectorsParse(rq)
  <2>1. /\ Asked(rq).kind = "bad"
        /\ code \in {"BadRequest", "ServerError"}
    BY <1>2, <1>4 DEF Asked, Right, Codes
  <2> QED BY <2>1 DEF Matches, Abstract!Proper, Abstract!Exact
<1>5. CASE rq.valid /\ SelectorsParse(rq) /\ rq.route \in Lists
  <2>1. Asked(rq) = ListAsked(rq)
    BY <1>5 DEF Asked
  <2>2. /\ ListAsked(rq).kind = "list" /\ ListAsked(rq).whole = Served(rq)
        /\ ListAsked(rq).eligible = Eligible(rq)
    BY DEF ListAsked
  <2>3. code \in {"OK", "ServerError", "Aborted"}
    BY <1>2, <1>5 DEF Right, Codes
  <2>4. ~cleaning /\ Served(rq) => code = "OK" /\ items = ListAsked(rq).objects
    BY <1>2, <1>5, <2>3 DEF Right, Served, Joins
  <2>5. code = "OK" => items \subseteq Eligible(rq)
    BY <1>2, <1>5
  <2> QED
    BY <2>1, <2>2, <2>4, <2>5 DEF Matches, Abstract!Proper, Abstract!Exact
<1>6. CASE rq.valid /\ SelectorsParse(rq) /\ rq.route \in Gets
  <2>1. Asked(rq) = GetAsked(rq)
    BY <1>6, RouteFacts DEF Asked
  <2>2. GetAsked(rq).kind = "get"
    BY DEF GetAsked
  <2>3. code = "OK" => \E o \in GetAsked(rq).eligible : items = {o}
    BY <1>2, <1>6 DEF Right
  <2>4. ~cleaning /\ GetAsked(rq).whole =>
          \/ code = "OK" /\ \E o \in GetAsked(rq).objects : items = {o}
          \/ code = "NotFound" /\ GetAsked(rq).objects = {}
    BY <1>2, <1>6 DEF Right
  <2> QED
    BY <2>1, <2>2, <2>3, <2>4 DEF Matches, Abstract!Proper, Abstract!Exact
<1> QED BY <1>3, <1>4, <1>5, <1>6

(* What the clients ask never changes. *)
LEMMA AskedConstant ==
  ASSUME [Next]_vars
  PROVE  [c \in Clients |-> Asked(req[c])]' = [c \in Clients |-> Asked(req[c])]
BY AskedFrame

LEMMA ListingInit ==
  ASSUME Init
  PROVE  Abstract!Init
BY DEF Init, NoResponse, Abstract!Init, Abstract!None

(* A step of a handler is its answer, or leaves the response as it was. *)
LEMMA HandleAnswers ==
  ASSUME AllInv, AllInv', MatchInv', NEW c \in Clients, Handle(c)
  PROVE  Abstract!Answer(c) \/ UNCHANGED Abstract!vars
<1>1. /\ up /\ pc[c] # "replied"
      /\ storage' = storage
      /\ \A d \in Clients \ {c} : resp'[d] = resp[d]
  BY HandleReplies, HandleFrame DEF AllInv
<1>2. /\ [c0 \in Clients |-> Asked(req[c0])]' = [c0 \in Clients |-> Asked(req[c0])]
      /\ Asked(req[c])' = Asked(req[c])
  <2>1. [Next]_vars
    BY DEF Next
  <2> QED BY <2>1, AskedConstant, AskedFrame
<1>3. CASE resp' = resp
  BY <1>1, <1>2, <1>3 DEF storage, Abstract!vars
<1>4. CASE pc'[c] = "replied"
  <2>1. resp[c].code = "none" /\ resp'[c].code # "none"
    BY <1>1, <1>4 DEF AllInv, ExactInv, Exactly, Begun
  <2>2. /\ Abstract!Proper(Asked(req[c]), resp'[c])
        /\ ~cleaning /\ Asked(req[c]).whole
             => Abstract!Exact(Asked(req[c]), resp'[c])
    BY <1>1, <1>2, <2>1 DEF MatchInv, Matches, storage, Abstract!Proper,
                            Abstract!Exact
  <2> QED
    BY <1>1, <1>2, <2>1, <2>2 DEF storage, Abstract!Answer, Abstract!None
<1> QED BY <1>3, <1>4, HandleReplies DEF AllInv

LEMMA ListingStep ==
  ASSUME AllInv, AllInv', MatchInv', [Next]_vars
  PROVE  [Abstract!Next]_(Abstract!vars)
<1>1. [c \in Clients |-> Asked(req[c])]' = [c \in Clients |-> Asked(req[c])]
  BY AskedConstant
<1>2. CASE StartCleanup
  BY <1>1, <1>2 DEF StartCleanup, unserved, Abstract!Next, Abstract!Delete
<1>3. CASE RemoveFile \/ RemoveDir
  BY <1>1, <1>3 DEF RemoveFile, RemoveDir, unserved, Abstract!vars
<1>4. CASE Exit
  BY <1>1, <1>4 DEF Exit, unserved, Abstract!Next, Abstract!Exit
<1>5. ASSUME NEW c \in Clients, Handle(c)
      PROVE  [Abstract!Next]_(Abstract!vars)
  BY <1>5, HandleAnswers DEF Abstract!Next
<1>6. CASE UNCHANGED vars
  BY <1>1, <1>6 DEF vars, storage, Abstract!vars
<1> QED BY <1>2, <1>3, <1>4, <1>5, <1>6 DEF Next, Cleanup

(* The handlers implement Listing: as long as nothing is deleted, the      *)
(* answer of a handler that probes, lists, checks and reads one file at a  *)
(* time is the one a single look at the whole bundle would give; from then *)
(* on it may fail, but holds nothing that was not asked for.               *)
THEOREM ImplementsListing == Spec => AnswersAtOnce
<1>1. Init => Abstract!Init
  BY ListingInit
<1>2. AllInv => MatchInv
  BY ResponsesMatch
<1>3. AllInv /\ AllInv' /\ MatchInv' /\ [Next]_vars
        => [Abstract!Next]_(Abstract!vars)
  BY ListingStep
<1> QED
  BY <1>1, <1>2, <1>3, AllInvariant, PTL DEF Spec, AnswersAtOnce, Abstract!Spec
=============================================================================
