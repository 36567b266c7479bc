---------------------------- MODULE SessionProofs ----------------------------
(***************************************************************************)
(* Theorems about Session, for any of the commands and bundle locations.   *)
(***************************************************************************)
EXTENDS Session, TLAPS

(* The variables of a session keep the values the type invariant lists,    *)
(* whichever way the two goroutines of cli/serve.go and cli/shell.go       *)
(* interleave.                                                             *)
THEOREM TypeCorrect == Spec => []TypeOK
<1>1. Init => TypeOK
  BY SessionAssumption
  DEF Init, TypeOK, MainSteps, HandSteps, Artefacts, KubeConfigs, BundleDirs,
      Children, Terminals, Ends
<1>2. TypeOK /\ [Next]_vars => TypeOK'
  <2> SUFFICES ASSUME TypeOK, [Next]_vars
               PROVE  TypeOK'
    OBVIOUS
  <2> USE DEF TypeOK
  <2>1. ASSUME Main
        PROVE  TypeOK'
    <3>0. /\ {"log", "spawn", "locate", "download", "mkdirTemp", "assignDir",
              "assigningDir", "assignLoc", "assigningLoc"} \subseteq MainSteps
          /\ {"setDelete", "mkdirAll", "unpack", "find", "start", "assignKube",
              "assigningKube", "startChild"} \subseteq MainSteps
          /\ {"makeRaw", "wait", "block", "deferKube", "cleanKube", "cleanDir",
              "removeLog", "exit"} \subseteq MainSteps
      BY DEF MainSteps
    <3> USE DEF Running, Goto, OnDisk, unshared, shared, config, Returning,
                Deferred, Remove
    <3>1. CASE CreateLog
      BY <3>0, <3>1 DEF CreateLog, Artefacts
    <3>2. CASE SpawnHandler
      BY <3>0, <3>2 DEF SpawnHandler, HandSteps
    <3>3. CASE Locate
      BY <3>0, <3>3 DEF Locate
    <3>4. CASE Download
      BY <3>0, <3>4 DEF Download, Artefacts
    <3>5. CASE AssignLocation
      BY <3>0, <3>5 DEF AssignLocation, BundleDirs
    <3>6. CASE SetDelete
      BY <3>0, <3>6 DEF SetDelete
    <3>7. CASE MkdirTemp
      BY <3>0, <3>7 DEF MkdirTemp, Artefacts, BundleDirs
    <3>8. CASE AssignDir
      BY <3>0, <3>8 DEF AssignDir, BundleDirs
    <3>9. CASE Extract
      BY <3>0, <3>9 DEF Extract, Artefacts
    <3>10. CASE FindClusterData
      BY <3>0, <3>10 DEF FindClusterData
    <3>11. CASE StartAPIServer
      BY <3>0, <3>11 DEF StartAPIServer, Artefacts
    <3>12. CASE AssignKubeConfig
      BY <3>0, <3>12 DEF AssignKubeConfig, KubeConfigs
    <3>13. CASE StartChild
      BY <3>0, <3>13 DEF StartChild, Children
    <3>14. CASE MakeRaw
      BY <3>0, <3>14 DEF MakeRaw, Terminals
    <3>15. CASE WaitChild
      BY <3>0, <3>15 DEF WaitChild, Terminals
    <3>16. CASE DeferredCalls
      BY <3>0, <3>16 DEF DeferredCalls
    <3>17. CASE Exit
      BY <3>0, <3>17 DEF Exit, Ends
    <3> QED
      BY <2>1, <3>1, <3>2, <3>3, <3>4, <3>5, <3>6, <3>7, <3>8, <3>9, <3>10,
         <3>11, <3>12, <3>13, <3>14, <3>15, <3>16, <3>17 DEF Main
  <2>2. ASSUME Handler
        PROVE  TypeOK'
    <3> USE DEF HandlerAt, unhandled, shared, config, Remove
    <3>1. CASE Notify
      BY <3>1 DEF Notify, HandSteps
    <3>2. CASE Take
      BY <3>2 DEF Take, HandSteps
    <3>3. CASE HandlerKube
      BY <3>3 DEF HandlerKube, Crash, HandSteps, Ends
    <3>4. CASE HandlerCheck
      BY <3>4 DEF HandlerCheck, HandSteps
    <3>5. CASE HandlerDir
      BY <3>5 DEF HandlerDir, HandSteps
    <3>6. CASE HandlerExit
      BY <3>6 DEF HandlerExit, Ends
    <3> QED
      BY <2>2, <3>1, <3>2, <3>3, <3>4, <3>5, <3>6 DEF Handler
  <2>3. CASE Interrupt
    BY <2>3 DEF Interrupt, unhandled, shared, config, Ends
  <2>4. CASE ChildExits
    BY <2>4 DEF ChildExits, shared, config, Children
  <2>5. CASE UNCHANGED vars
    BY <2>5 DEF vars, shared, config
  <2> QED
    BY <2>1, <2>2, <2>3, <2>4, <2>5 DEF Next
<1> QED
  BY <1>1, <1>2, PTL DEF Spec

-----------------------------------------------------------------------------
(* The inductive invariant behind the two theorems below. *)

(* A location that is a directory is never made into one to delete. *)
Kept ==
  location = "dir" =>
    /\ "user" \in disk /\ "dir" \notin disk
    /\ ~deleteBundleDir /\ hand # "dir"
    /\ main \notin {"download", "mkdirTemp", "assignDir", "assigningDir",
                    "setDelete", "mkdirAll", "unpack"}

(* Any other location has its bundle extracted to a directory that the     *)
(* shared variables name, and mark for deletion, once the search starts.   *)
Owned ==
  /\ location # "url" => main # "download"
  /\ location = "url" =>
       /\ main \notin {"assignLoc", "assigningLoc"}
       /\ main = "setDelete" => bundleDir = "dir"
  /\ location = "archive" =>
       /\ main \in {"mkdirTemp", "assignDir", "assigningDir", "mkdirAll",
                    "unpack"} => deleteBundleDir
       /\ main \in {"mkdirAll", "unpack"} => bundleDir = "dir"
  /\ location # "dir" =>
       (main \in {"find", "start", "assignKube", "assigningKube"}
          => deleteBundleDir /\ bundleDir = "dir")

(* After the server runs, the main goroutine only removes files. *)
Serving ==
  served =>
    /\ main \in {"startChild", "makeRaw", "wait", "block", "deferKube",
                 "cleanKube", "cleanDir", "removeLog", "exit"}
    /\ mode = "serve" => main = "block"
    /\ kubeConfig = "kube"
    /\ location # "dir" => deleteBundleDir /\ bundleDir = "dir"
    /\ main \in {"cleanKube", "cleanDir", "removeLog", "exit"}
         => "kube" \notin disk
    /\ main \in {"removeLog", "exit"} => "dir" \notin disk

(* A signal taken after that is handled to the end. *)
Handling ==
  caught =>
    /\ served
    /\ hand \in {"kube", "check", "dir", "exit"}
    /\ hand # "kube" => "kube" \notin disk
    /\ hand = "exit" => "dir" \notin disk

Ending ==
  /\ ended = "return" => main = "exit"
  /\ ended = "handler" => hand = "exit"

SessionInv == Kept /\ Owned /\ Serving /\ Handling /\ Ending

LEMMA SessionInvHolds == Spec => []SessionInv
<1>1. Init => SessionInv
  BY SessionAssumption
  DEF Init, SessionInv, Kept, Owned, Serving, Handling, Ending
<1>2. TypeOK /\ SessionInv /\ [Next]_vars => SessionInv'
  <2> SUFFICES ASSUME TypeOK, SessionInv, [Next]_vars
               PROVE  SessionInv'
    OBVIOUS
  <2> USE DEF SessionInv, Kept, Owned, Serving, Handling, Ending
  <2>0. location \in {"url", "archive", "dir"}
    BY SessionAssumption DEF TypeOK
  <2>1. ASSUME Main
        PROVE  SessionInv'
    <3> USE DEF Running, Goto, OnDisk, unshared, shared, config, Returning,
                Deferred, Remove
    <3>1. CASE CreateLog
      BY <2>0, <3>1 DEF CreateLog
    <3>2. CASE SpawnHandler
      BY <2>0, <3>2 DEF SpawnHandler
    <3>3. CASE Locate
      BY <2>0, <3>3 DEF Locate
    <3>4. CASE Download
      BY <2>0, <3>4 DEF Download
    <3>5. CASE AssignLocation
      BY <2>0, <3>5 DEF AssignLocation
    <3>6. CASE SetDelete
      BY <2>0, <3>6 DEF SetDelete
    <3>7. CASE MkdirTemp
      <4>1. Kept'
        BY <2>0, <3>7 DEF MkdirTemp
      <4>2. Owned'
        <5>1. /\ main = "mkdirTemp" /\ UNCHANGED <<location, deleteBundleDir>>
              /\ main' \in {"exit", "cleanKube"} \/
                 (location = "url" /\ main' = "mkdirAll") \/
                 (location # "url" /\ main' = "assignDir")
          BY <3>7 DEF MkdirTemp
        <5> QED
          BY <2>0, <5>1
      <4>3. Serving'
        BY <2>0, <3>7 DEF MkdirTemp
      <4>4. Handling' /\ Ending'
        <5>1. ended = "no" /\ UNCHANGED <<hand, served, caught, ended>>
          BY <3>7 DEF MkdirTemp
        <5>2. ~caught
          BY <3>7 DEF MkdirTemp
        <5> QED
          BY <5>1, <5>2
      <4> QED
        BY <4>1, <4>2, <4>3, <4>4
    <3>8. CASE AssignDir
      BY <2>0, <3>8 DEF AssignDir
    <3>9. CASE Extract
      BY <2>0, <3>9 DEF Extract
    <3>10. CASE FindClusterData
      BY <2>0, <3>10 DEF FindClusterData
    <3>11. CASE StartAPIServer
      BY <2>0, <3>11 DEF StartAPIServer
    <3>12. CASE AssignKubeConfig
      BY <2>0, <3>12 DEF AssignKubeConfig
    <3>13. CASE StartChild
      BY <2>0, <3>13 DEF StartChild
    <3>14. CASE MakeRaw
      BY <2>0, <3>14 DEF MakeRaw
    <3>15. CASE WaitChild
      BY <2>0, <3>15 DEF WaitChild
    <3>16. CASE DeferredCalls
      <4>1. Kept'
        BY <2>0, <3>16 DEF DeferredCalls
      <4>2. Owned'
        BY <2>0, <3>16 DEF DeferredCalls
      <4>3. Serving'
        BY <2>0, <3>16 DEF DeferredCalls
      <4>4. Handling' /\ Ending'
        <5>1. ended = "no" /\ UNCHANGED <<hand, served, caught, ended>>
          BY <3>16 DEF DeferredCalls
        <5>2. disk' \subseteq disk
          BY <3>16 DEF DeferredCalls
        <5> QED
          BY <5>1, <5>2
      <4> QED
        BY <4>1, <4>2, <4>3, <4>4
    <3>17. CASE Exit
      BY <2>0, <3>17 DEF Exit
    <3> QED
      BY <2>1, <3>1, <3>2, <3>3, <3>4, <3>5, <3>6, <3>7, <3>8, <3>9, <3>10,
         <3>11, <3>12, <3>13, <3>14, <3>15, <3>16, <3>17 DEF Main
  <2>2. ASSUME Handler
        PROVE  SessionInv'
    <3> USE DEF HandlerAt, unhandled, shared, config, Remove
    <3>1. CASE Notify
      BY <3>1 DEF Notify
    <3>2. CASE Take
      BY <3>2 DEF Take
    <3>3. CASE HandlerKube
      BY <3>3 DEF HandlerKube, Crash
    <3>4. CASE HandlerCheck
      BY <3>4 DEF HandlerCheck
    <3>5. CASE HandlerDir
      BY <3>5 DEF HandlerDir
    <3>6. CASE HandlerExit
      BY <3>6 DEF HandlerExit
    <3> QED
      BY <2>2, <3>1, <3>2, <3>3, <3>4, <3>5, <3>6 DEF Handler
  <2>3. CASE Interrupt
    BY <2>3 DEF Interrupt, unhandled, shared, config
  <2>4. CASE ChildExits
    <3>1. /\ UNCHANGED <<mode, location, main, hand, pending, kubeConfig,
                         bundleDir, deleteBundleDir, disk, terminal, served,
                         caught, ended>>
          /\ child' = "done"
      BY <2>4 DEF ChildExits, shared, config
    <3> QED
      BY <3>1
  <2>5. CASE UNCHANGED vars
    <3>1. UNCHANGED <<mode, location, main, hand, pending, kubeConfig,
                      bundleDir, deleteBundleDir, disk, child, terminal,
                      served, caught, ended>>
      BY <2>5 DEF vars, shared, config
    <3> QED
      BY <3>1
  <2> QED
    BY <2>1, <2>2, <2>3, <2>4, <2>5 DEF Next
<1> QED
  BY <1>1, <1>2, TypeCorrect, PTL DEF Spec

(* A bundle directory of the user's is never deleted, at whatever moment   *)
(* of cli/serve.go or cli/shell.go an interrupt arrives.                   *)
THEOREM DirectoriesAreKept == Spec => []DirectoryKept
<1>1. SessionInv => DirectoryKept
  BY DEF SessionInv, Kept, DirectoryKept
<1> QED
  BY <1>1, SessionInvHolds, PTL

(* Once the server runs, both ends of a session leave neither the          *)
(* kubeconfig nor the extracted bundle, even when the signal goroutine     *)
(* and the deferred calls of the shell clean up at the same time.          *)
THEOREM SessionsCleanUp == Spec => []CleanAfterServing
<1>1. SessionInv => CleanAfterServing
  BY DEF SessionInv, Kept, Serving, Handling, Ending, CleanAfterServing
<1> QED
  BY <1>1, SessionInvHolds, PTL

-----------------------------------------------------------------------------
(* What is on disk while the server runs, and what a session leaves *)

(* Until a signal is taken, nobody removes what the server and the shell   *)
(* use: the bundle from the search on, the kubeconfig from its making on.  *)
Living ==
  hand \in {"none", "notify", "waiting"} =>
    /\ main \in {"start", "assignKube", "assigningKube"} => BundleRoot \in disk
    /\ main \in {"assignKube", "assigningKube"} => "kube" \in disk
    /\ served /\ main \in {"startChild", "makeRaw", "wait", "block"}
         => "kube" \in disk /\ BundleRoot \in disk

(* The terminal is raw for the shell only, and RunE returns past the       *)
(* removal of a log it has made.                                           *)
Tidying ==
  /\ terminal \in {"cooked", "raw"}
  /\ terminal = "raw" => main = "wait"
  /\ mode = "serve" => main # "log" /\ "log" \notin disk
  /\ main = "exit" => "log" \notin disk

LEMMA LivingStep == SessionInv /\ Living /\ [Next]_vars => Living'
<1> SUFFICES ASSUME SessionInv, Living, [Next]_vars
             PROVE  Living'
  OBVIOUS
<1> USE DEF Living, BundleRoot
<1>1. CASE Main
  <2>1. served => main \in {"startChild", "makeRaw", "wait", "block", "deferKube",
                            "cleanKube", "cleanDir", "removeLog", "exit"}
    BY DEF SessionInv, Serving
  <2> USE DEF Running, Goto, OnDisk, unshared, shared, config, Returning, Deferred,
              Remove
  <2>2. CASE CreateLog
    BY <2>1, <2>2 DEF CreateLog
  <2>3. CASE SpawnHandler
    BY <2>1, <2>3 DEF SpawnHandler
  <2>4. CASE Locate
    BY <2>1, <2>4 DEF Locate
  <2>5. CASE Download
    BY <2>1, <2>5 DEF Download
  <2>6. CASE AssignLocation
    BY <2>1, <2>6 DEF AssignLocation
  <2>7. CASE SetDelete
    BY <2>1, <2>7 DEF SetDelete
  <2>8. CASE MkdirTemp
    BY <2>1, <2>8 DEF MkdirTemp
  <2>9. CASE AssignDir
    BY <2>1, <2>9 DEF AssignDir
  <2>10. CASE Extract
    BY <2>1, <2>10 DEF Extract
  <2>11. CASE FindClusterData
    BY <2>1, <2>11 DEF FindClusterData
  <2>12. CASE StartAPIServer
    BY <2>1, <2>12 DEF StartAPIServer
  <2>13. CASE AssignKubeConfig
    BY <2>1, <2>13 DEF AssignKubeConfig
  <2>14. CASE StartChild
    BY <2>1, <2>14 DEF StartChild
  <2>15. CASE MakeRaw
    BY <2>1, <2>15 DEF MakeRaw
  <2>16. CASE WaitChild
    BY <2>1, <2>16 DEF WaitChild
  <2>17. CASE DeferredCalls
    BY <2>1, <2>17 DEF DeferredCalls
  <2>18. CASE Exit
    BY <2>1, <2>18 DEF Exit
  <2> QED
    BY <1>1, <2>2, <2>3, <2>4, <2>5, <2>6, <2>7, <2>8, <2>9, <2>10,
       <2>11, <2>12, <2>13, <2>14, <2>15, <2>16, <2>17, <2>18 DEF Main
<1>2. CASE Handler
  <2> USE DEF HandlerAt, unhandled, shared, config, Remove
  <2>1. CASE Notify \/ Take
    BY <2>1 DEF Notify, Take
  <2>2. CASE HandlerKube \/ HandlerCheck \/ HandlerDir \/ HandlerExit
    <3>1. hand' \in {"kube", "check", "dir", "exit"}
      BY <2>2 DEF HandlerKube, HandlerCheck, HandlerDir, HandlerExit, Crash
    <3> QED
      BY <3>1
  <2> QED
    BY <1>2, <2>1, <2>2 DEF Handler
<1>3. CASE Interrupt \/ ChildExits \/ UNCHANGED vars
  <2>1. UNCHANGED <<location, main, hand, disk, served>>
    BY <1>3 DEF Interrupt, ChildExits, unhandled, shared, config, vars
  <2> QED
    BY <2>1
<1> QED
  BY <1>1, <1>2, <1>3 DEF Next

LEMMA TidyingStep == Tidying /\ [Next]_vars => Tidying'
<1> SUFFICES ASSUME Tidying, [Next]_vars
             PROVE  Tidying'
  OBVIOUS
<1> USE DEF Tidying
<1>1. CASE Main
  <2> USE DEF Running, Goto, OnDisk, unshared, shared, config, Returning, Deferred,
              Remove
  <2>1. CASE CreateLog
    BY <2>1 DEF CreateLog
  <2>2. CASE SpawnHandler
    BY <2>2 DEF SpawnHandler
  <2>3. CASE Locate
    BY <2>3 DEF Locate
  <2>4. CASE Download
    BY <2>4 DEF Download
  <2>5. CASE AssignLocation
    BY <2>5 DEF AssignLocation
  <2>6. CASE SetDelete
    BY <2>6 DEF SetDelete
  <2>7. CASE MkdirTemp
    BY <2>7 DEF MkdirTemp
  <2>8. CASE AssignDir
    BY <2>8 DEF AssignDir
  <2>9. CASE Extract
    BY <2>9 DEF Extract
  <2>10. CASE FindClusterData
    BY <2>10 DEF FindClusterData
  <2>11. CASE StartAPIServer
    BY <2>11 DEF StartAPIServer
  <2>12. CASE AssignKubeConfig
    BY <2>12 DEF AssignKubeConfig
  <2>13. CASE StartChild
    BY <2>13 DEF StartChild
  <2>14. CASE MakeRaw
    BY <2>14 DEF MakeRaw
  <2>15. CASE WaitChild
    BY <2>15 DEF WaitChild
  <2>16. CASE DeferredCalls
    BY <2>16 DEF DeferredCalls
  <2>17. CASE Exit
    BY <2>17 DEF Exit
  <2> QED
    BY <1>1, <2>1, <2>2, <2>3, <2>4, <2>5, <2>6, <2>7, <2>8, <2>9,
       <2>10, <2>11, <2>12, <2>13, <2>14, <2>15, <2>16, <2>17 DEF Main
<1>2. CASE Handler \/ Interrupt
  <2>1. disk' \subseteq disk /\ UNCHANGED <<mode, main, terminal>>
    BY <1>2
    DEF Handler, Notify, Take, HandlerKube, HandlerCheck, HandlerDir, HandlerExit,
        Crash, Interrupt, unhandled, config, Remove
  <2> QED
    BY <2>1
<1>3. CASE ChildExits \/ UNCHANGED vars
  <2>1. UNCHANGED <<mode, main, terminal, disk>>
    BY <1>3 DEF ChildExits, config, vars
  <2> QED
    BY <2>1
<1> QED
  BY <1>1, <1>2, <1>3 DEF Next

(* As long as nobody interrupts, the server and the shell find the bundle  *)
(* and the kubeconfig where they were told they are.                       *)
THEOREM ServedFilesLive == Spec => []FilesLiveWhileServing
<1>1. Init => Living
  BY DEF Init, Living
<1>2. TypeOK /\ Living => FilesLiveWhileServing
  <2> SUFFICES ASSUME Living, served, ~Interrupted,
                      main \in {"startChild", "makeRaw", "wait", "block"}, TypeOK
               PROVE  "kube" \in disk /\ BundleRoot \in disk
    BY DEF FilesLiveWhileServing
  <2>1. hand \in {"none", "notify", "waiting"}
    BY DEF TypeOK, HandSteps, Interrupted
  <2> QED
    BY <2>1 DEF Living
<1> QED
  BY <1>1, <1>2, LivingStep, SessionInvHolds, TypeCorrect, PTL DEF Spec

(* A shell that ends by itself leaves the terminal as it was and no log.   *)
THEOREM ShellsTidyUp == Spec => []ShellTidies
<1>1. Init => Tidying
  BY DEF Init, Tidying
<1>2. Tidying /\ SessionInv => ShellTidies
  BY DEF Tidying, SessionInv, Ending, ShellTidies
<1> QED
  BY <1>1, <1>2, TidyingStep, SessionInvHolds, PTL DEF Spec
-----------------------------------------------------------------------------
(* What happens to the archive, and to the directory it is extracted to    *)

(* Nothing is extracted or marked before the archive's directory is made,  *)
(* and bundleDir, once marked, names the archive until it is.              *)
BeforeMark  == {"log", "spawn", "locate", "assignLoc", "assigningLoc", "setDelete"}
AfterSearch == {"find", "start", "assignKube", "assigningKube", "startChild",
                "makeRaw", "wait", "block", "deferKube", "cleanKube", "cleanDir",
                "removeLog", "exit"}

Marking ==
  /\ hand = "dir" => deleteBundleDir
  /\ location = "archive" =>
       /\ main \in BeforeMark => ~deleteBundleDir
       /\ main \in BeforeMark \cup {"mkdirTemp"} => "dir" \notin disk
       /\ deleteBundleDir /\ bundleDir = "loc" => main \in {"mkdirTemp", "assignDir"}
       /\ "dir" \in disk =>
            \/ main \in {"assignDir", "assigningDir"}
            \/ deleteBundleDir /\ bundleDir = "dir"
  /\ location = "url" /\ deleteBundleDir => main \in AfterSearch /\ bundleDir = "dir"

(* The deferred cleanup of the shell is past the directory. *)
Leaving ==
  mode # "serve" /\ (location = "archive" \/ deleteBundleDir)
    /\ main \in {"removeLog", "exit"} => "dir" \notin disk

LEMMA MarkingStep ==
  TypeOK /\ SessionInv /\ Marking /\ Leaving /\ [Next]_vars
    => Marking' /\ Leaving'
<1> SUFFICES ASSUME TypeOK, SessionInv, Marking, Leaving, [Next]_vars
             PROVE  Marking' /\ Leaving'
  OBVIOUS
<1> USE DEF Marking, Leaving, BeforeMark, AfterSearch
<1>0. Owned /\ Kept /\ location \in {"url", "archive", "dir"}
  BY SessionAssumption DEF SessionInv, TypeOK
<1>1. CASE Main
  <2> USE DEF Running, Goto, OnDisk, unshared, shared, config, Returning, Deferred,
              Remove
  <2>1. CASE CreateLog
    BY <2>1 DEF CreateLog
  <2>2. CASE SpawnHandler
    BY <2>2 DEF SpawnHandler
  <2>3. CASE Locate
    BY <2>3 DEF Locate
  <2>4. CASE Download
    BY <1>0, <2>4 DEF Download, Owned
  <2>5. CASE AssignLocation
    BY <1>0, <2>5 DEF AssignLocation, Owned
  <2>6. CASE SetDelete
    BY <1>0, <2>6 DEF SetDelete, Owned
  <2>7. CASE MkdirTemp
    <3>1. /\ main = "mkdirTemp" /\ location \in {"url", "archive"}
          /\ location = "url" => ~deleteBundleDir
          /\ location = "archive" => deleteBundleDir /\ "dir" \notin disk
          /\ UNCHANGED <<mode, location, hand, deleteBundleDir>>
      BY <1>0, <2>7 DEF MkdirTemp, Owned, Kept
    <3>2. CASE bundleDir' = "" /\ disk' = disk /\ main' \in {"exit", "cleanKube"}
      BY <3>1, <3>2
    <3>3. CASE location = "archive" /\ bundleDir' = bundleDir /\ main' = "assignDir"
      BY <3>1, <3>3
    <3>4. CASE location = "url" /\ bundleDir' = bundleDir /\ main' = "mkdirAll"
      BY <3>1, <3>4
    <3> QED
      BY <2>7, <3>1, <3>2, <3>3, <3>4 DEF MkdirTemp
  <2>8. CASE AssignDir
    BY <1>0, <2>8 DEF AssignDir, Owned
  <2>9. CASE Extract
    BY <1>0, <2>9 DEF Extract, Owned
  <2>10. CASE FindClusterData
    BY <1>0, <2>10 DEF FindClusterData, Owned
  <2>11. CASE StartAPIServer
    BY <2>11 DEF StartAPIServer
  <2>12. CASE AssignKubeConfig
    BY <2>12 DEF AssignKubeConfig
  <2>13. CASE StartChild
    BY <2>13 DEF StartChild
  <2>14. CASE MakeRaw
    BY <2>14 DEF MakeRaw
  <2>15. CASE WaitChild
    BY <2>15 DEF WaitChild
  <2>16. CASE DeferredCalls
    <3>1. UNCHANGED <<mode, location, hand, bundleDir, deleteBundleDir>>
      BY <2>16 DEF DeferredCalls
    <3>2. CASE main = "cleanDir" /\ main' = "removeLog"
      <4>1. "dir" \in disk' => ~(deleteBundleDir /\ bundleDir = "dir") /\ "dir" \in disk
        BY <2>16, <3>2 DEF DeferredCalls
      <4> QED
        BY <1>0, <3>1, <3>2, <4>1 DEF Kept
    <3>3. CASE /\ disk' \subseteq disk
               /\ \/ main \in {"deferKube", "cleanKube"} /\ main' \in {"cleanKube", "cleanDir"}
                  \/ main = "removeLog" /\ main' = "exit"
      BY <3>1, <3>3
    <3> QED
      BY <2>16, <3>2, <3>3 DEF DeferredCalls
  <2>17. CASE Exit
    BY <2>17 DEF Exit
  <2> QED
    BY <1>1, <2>1, <2>2, <2>3, <2>4, <2>5, <2>6, <2>7, <2>8, <2>9,
       <2>10, <2>11, <2>12, <2>13, <2>14, <2>15, <2>16, <2>17 DEF Main
<1>2. CASE Handler \/ Interrupt
  <2>1. /\ disk' \subseteq disk
        /\ UNCHANGED <<mode, location, main, bundleDir, deleteBundleDir>>
        /\ hand' = "dir" => hand = "dir" \/ deleteBundleDir
    BY <1>2
    DEF Handler, Notify, Take, HandlerKube, HandlerCheck, HandlerDir, HandlerExit,
        Crash, Interrupt, HandlerAt, unhandled, config, shared, Remove
  <2> QED
    BY <2>1
<1>3. CASE ChildExits \/ UNCHANGED vars
  <2>1. UNCHANGED <<mode, location, main, hand, bundleDir, deleteBundleDir, disk>>
    BY <1>3 DEF ChildExits, config, shared, vars
  <2> QED
    BY <2>1
<1> QED
  BY <1>1, <1>2, <1>3 DEF Next

LEMMA MarkingHolds == Spec => [](Marking /\ Leaving)
<1>1. Init => Marking /\ Leaving
  BY DEF Init, Marking, Leaving, BeforeMark, AfterSearch
<1> QED
  BY <1>1, MarkingStep, TypeCorrect, SessionInvHolds, PTL DEF Spec

(* A user's archive is lost to the signal goroutine only, in the time from *)
(* deleteBundleDir = true to the result of os.MkdirTemp: the interrupt of  *)
(* Session_archive is the only way to lose it.                             *)
THEOREM ArchivesAreLostOnlyEarly == Spec => ArchiveLostOnlyEarly
<1> DEFINE Lost == location = "archive" /\ "user" \in disk /\ "user" \notin disk'
           Early == hand = "dir" /\ main \in {"mkdirTemp", "assignDir"}
<1>1. SessionInv /\ Marking /\ [Next]_vars => (Lost => Early)
  <2> SUFFICES ASSUME SessionInv, Marking, [Next]_vars, Lost
               PROVE  Early
    OBVIOUS
  <2>1. CASE Main
    <3>1. DeferredCalls /\ main = "cleanDir" /\ deleteBundleDir /\ bundleDir = "loc"
      BY <2>1
      DEF Main, CreateLog, SpawnHandler, Locate, Download, AssignLocation, SetDelete,
          MkdirTemp, AssignDir, Extract, FindClusterData, StartAPIServer,
          AssignKubeConfig, StartChild, MakeRaw, WaitChild, DeferredCalls, Exit,
          Running, Goto, OnDisk, unshared, shared, config, Remove
    <3> QED
      BY <3>1 DEF Marking
  <2>2. CASE Handler
    <3>1. HandlerDir /\ hand = "dir" /\ bundleDir = "loc"
      BY <2>2
      DEF Handler, Notify, Take, HandlerKube, HandlerCheck, HandlerDir, HandlerExit,
          Crash, HandlerAt, unhandled, config, shared, Remove
    <3> QED
      BY <3>1 DEF Marking
  <2>3. CASE Interrupt \/ ChildExits \/ UNCHANGED vars
    BY <2>3 DEF Interrupt, ChildExits, vars
  <2> QED
    BY <2>1, <2>2, <2>3 DEF Next
<1>2. SessionInv /\ Marking /\ [Next]_vars => [Lost => Early]_vars
  BY <1>1
<1> QED
  BY <1>2, SessionInvHolds, MarkingHolds, PTL DEF Spec, ArchiveLostOnlyEarly

(* The deferred cleanup of the shell leaves no extracted bundle, wherever  *)
(* RunE fails and whatever the signal goroutine has deleted by then.       *)
THEOREM ShellsRemoveBundles == Spec => []ShellRemovesBundle
<1>1. SessionInv /\ Leaving => ShellRemovesBundle
  BY DEF SessionInv, Ending, Leaving, ShellRemovesBundle
<1> QED
  BY <1>1, SessionInvHolds, MarkingHolds, PTL
=============================================================================
