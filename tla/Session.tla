------------------------------- MODULE Session -------------------------------
(***************************************************************************)
(* The life of one sbctl command, "sbctl serve" (cli/serve.go) or "sbctl   *)
(* shell" (cli/shell.go): RunE on the main goroutine, the goroutine that   *)
(* waits for an interrupt, and what both leave on disk.                    *)
(*                                                                         *)
(* The two goroutines share kubeConfig, bundleDir and deleteBundleDir      *)
(* without synchronisation.  A bool is written at once; a string is two    *)
(* words, written one after the other, and "torn" is what a reader gets in *)
(* between.  The contents of the files are not tracked, only which exist.  *)
(***************************************************************************)

CONSTANTS
  Modes,      \* the commands: "serve", "run" (shell -c) and "tty" (shell)
  Locations   \* what the bundle location is: "url", "archive" or "dir"

ASSUME SessionAssumption ==
  /\ Modes \subseteq {"serve", "run", "tty"}
  /\ Locations \subseteq {"url", "archive", "dir"}

VARIABLES
  mode,             \* the command, fixed
  location,         \* what bundleLocation is, fixed
  main,             \* where the main goroutine is in RunE
  hand,             \* where the signal goroutine is
  pending,          \* a SIGINT is in signalChan
  kubeConfig, bundleDir, deleteBundleDir,   \* the shared variables of RunE
  disk,             \* the files and directories that exist
  child,            \* the shell the command runs
  terminal,         \* mode of the user's terminal
  served,           \* StartAPIServer has returned and its result is stored
  caught,           \* served when the signal goroutine took the signal
  ended             \* how the process ended

config == <<mode, location>>
shared == <<kubeConfig, bundleDir, deleteBundleDir>>
vars   == <<config, main, hand, pending, shared, disk, child, terminal,
            served, caught, ended>>

(* "user" is the user's own archive or directory, "log" the server log,    *)
(* "tar" the downloaded archive, "dir" the directory the bundle is         *)
(* extracted to and "kube" the generated kubeconfig.                       *)
Artefacts == {"user", "log", "tar", "dir", "kube"}

MainSteps ==
  {"log", "spawn", "locate", "download", "mkdirTemp", "assignDir",
   "assigningDir", "assignLoc", "assigningLoc", "setDelete", "mkdirAll",
   "unpack", "find", "start", "assignKube", "assigningKube", "startChild",
   "makeRaw", "wait", "block", "deferKube", "cleanKube", "cleanDir",
   "removeLog", "exit"}

HandSteps == {"none", "notify", "waiting", "kube", "check", "dir", "exit"}

KubeConfigs == {"", "torn", "kube"}
BundleDirs  == {"", "torn", "loc", "dir"}
Children    == {"none", "running", "done"}
Terminals   == {"cooked", "raw"}
Ends        == {"no", "return", "handler", "killed", "crash"}

TypeOK ==
  /\ mode \in Modes /\ location \in Locations
  /\ main \in MainSteps /\ hand \in HandSteps
  /\ pending \in BOOLEAN
  /\ kubeConfig \in KubeConfigs
  /\ bundleDir \in BundleDirs
  /\ deleteBundleDir \in BOOLEAN
  /\ disk \subseteq Artefacts
  /\ child \in Children
  /\ terminal \in Terminals
  /\ served \in BOOLEAN /\ caught \in BOOLEAN
  /\ ended \in Ends

Init ==
  /\ mode \in Modes /\ location \in Locations
  /\ main = IF mode = "serve" THEN "spawn" ELSE "log"
  /\ hand = "none"
  /\ pending = FALSE
  /\ kubeConfig = "" /\ bundleDir = "" /\ deleteBundleDir = FALSE
  /\ disk = IF location = "url" THEN {} ELSE {"user"}
  /\ child = "none"
  /\ terminal = "cooked"
  /\ served = FALSE /\ caught = FALSE
  /\ ended = "no"

-----------------------------------------------------------------------------
(* The main goroutine *)

Running(step) == ended = "no" /\ main = step
Goto(step)    == main' = step

(* Mutant: cleanup() is deferred only where the server runs. *)
ReturningUndeferred == IF mode = "serve" THEN "exit" ELSE "removeLog"

(* Where RunE continues once it returns: the deferred calls of the shell,  *)
(* none in serve before the server runs (and it does not return after).    *)
Returning == IF mode = "serve" THEN "exit" ELSE "cleanKube"

unshared == <<mode, location, hand, pending, child, terminal, served, caught, ended>>
OnDisk(files) == disk' = files /\ UNCHANGED <<unshared, shared>>

(* os.CreateTemp of the server log, which may fail *)
CreateLog ==
  /\ Running("log") /\ Goto("spawn")
  /\ \/ OnDisk(disk \cup {"log"})
     \/ OnDisk(disk)

SpawnHandler ==
  /\ Running("spawn") /\ Goto("locate")
  /\ hand' = "notify"
  /\ UNCHANGED <<config, pending, shared, disk, child, terminal, served,
                 caught, ended>>

(* bundleLocation is missing, cannot be stat'ed or there is no token; or   *)
(* it is a URL, or a path                                                  *)
Locate ==
  /\ Running("locate")
  /\ \/ Goto(Returning)
     \/ location = "url" /\ Goto("download")
     \/ location # "url" /\ Goto("assignLoc")
  /\ OnDisk(disk)

(* downloadAndExtractBundle up to the closed temporary file: the request,  *)
(* CreateTemp or the copy may fail                                         *)
Download ==
  /\ Running("download")
  /\ \/ Goto(Returning) /\ OnDisk(disk)
     \/ Goto(Returning) /\ OnDisk(disk \cup {"tar"})
     \/ Goto("mkdirTemp") /\ OnDisk(disk \cup {"tar"})

(* Mutant: the branch does not ask whether the location is a directory. *)
AssignLocationNoIsDir ==
  \/ /\ Running("assignLoc") /\ Goto("assigningLoc")
     /\ bundleDir' = "torn"
     /\ UNCHANGED <<unshared, kubeConfig, deleteBundleDir, disk>>
  \/ /\ Running("assigningLoc") /\ Goto("setDelete")
     /\ bundleDir' = "loc"
     /\ UNCHANGED <<unshared, kubeConfig, deleteBundleDir, disk>>

(* bundleDir = bundleLocation, and os.IsDir decides what follows *)
AssignLocation ==
  \/ /\ Running("assignLoc") /\ Goto("assigningLoc")
     /\ bundleDir' = "torn"
     /\ UNCHANGED <<unshared, kubeConfig, deleteBundleDir, disk>>
  \/ /\ Running("assigningLoc")
     /\ Goto(IF location = "dir" THEN "find" ELSE "setDelete")
     /\ bundleDir' = "loc"
     /\ UNCHANGED <<unshared, kubeConfig, deleteBundleDir, disk>>

(* Mutant: the URL branch does not set deleteBundleDir. *)
SetDeleteNotForURL ==
  /\ Running("setDelete")
  /\ Goto(IF location = "url" THEN "find" ELSE "mkdirTemp")
  /\ deleteBundleDir' = (location # "url")
  /\ UNCHANGED <<unshared, kubeConfig, bundleDir, disk>>

(* deleteBundleDir = true: before MkdirTemp for an archive, last for a URL *)
SetDelete ==
  /\ Running("setDelete")
  /\ Goto(IF location = "url" THEN "find" ELSE "mkdirTemp")
  /\ deleteBundleDir' = TRUE
  /\ UNCHANGED <<unshared, kubeConfig, bundleDir, disk>>

(* Mutant: the result goes to bundleDir only if there is no error. *)
MkdirTempKeepsLocation ==
  /\ Running("mkdirTemp")
  /\ \/ Goto(Returning) /\ OnDisk(disk)
     \/ /\ Goto(IF location = "url" THEN "mkdirAll" ELSE "assignDir")
        /\ OnDisk(disk \cup {"dir"})

(* os.MkdirTemp; for an archive its result goes straight to bundleDir, so  *)
(* that a failure leaves it empty                                          *)
MkdirTemp ==
  /\ Running("mkdirTemp")
  /\ \/ /\ Goto(Returning)
        /\ bundleDir' = ""
        /\ UNCHANGED <<unshared, kubeConfig, deleteBundleDir, disk>>
     \/ /\ Goto(IF location = "url" THEN "mkdirAll" ELSE "assignDir")
        /\ OnDisk(disk \cup {"dir"})

(* Mutant: downloadAndExtractBundle returns the name of its archive. *)
AssignDirArchive ==
  \/ /\ Running("assignDir") /\ Goto("assigningDir")
     /\ bundleDir' = "torn"
     /\ UNCHANGED <<unshared, kubeConfig, deleteBundleDir, disk>>
  \/ /\ Running("assigningDir")
     /\ Goto(IF location = "url" THEN "setDelete" ELSE "mkdirAll")
     /\ bundleDir' = IF location = "url" THEN "tar" ELSE "dir"
     /\ UNCHANGED <<unshared, kubeConfig, deleteBundleDir, disk>>

AssignDir ==
  \/ /\ Running("assignDir") /\ Goto("assigningDir")
     /\ bundleDir' = "torn"
     /\ UNCHANGED <<unshared, kubeConfig, deleteBundleDir, disk>>
  \/ /\ Running("assigningDir")
     /\ Goto(IF location = "url" THEN "setDelete" ELSE "mkdirAll")
     /\ bundleDir' = "dir"
     /\ UNCHANGED <<unshared, kubeConfig, deleteBundleDir, disk>>

(* ExtractBundle: opening the archive may fail, os.MkdirAll makes the      *)
(* directory again if it has gone, and the unpacking may fail, or end with *)
(* the directory gone after its last file.                                 *)
Extract ==
  \/ Running("mkdirAll") /\ Goto(Returning) /\ OnDisk(disk)
  \/ Running("mkdirAll") /\ Goto("unpack") /\ OnDisk(disk \cup {"dir"})
  \/ Running("unpack") /\ Goto(Returning) /\ OnDisk(disk)
  \/ /\ Running("unpack") /\ OnDisk(disk)
     /\ Goto(IF location = "url" THEN "assignDir" ELSE "find")

(* FindClusterData: an error, no cluster resources, or some *)
BundleRoot == IF location = "dir" THEN "user" ELSE "dir"

FindClusterData ==
  /\ Running("find")
  /\ \/ Goto(Returning)
     \/ BundleRoot \in disk /\ Goto(IF mode = "serve" THEN "exit" ELSE "startChild")
     \/ BundleRoot \in disk /\ Goto("start")
  /\ OnDisk(disk)

(* Mutant: createConfigFile defers the removal of its file. *)
StartAPIServerRemovesConfig ==
  /\ Running("start")
  /\ Goto(Returning) \/ Goto("assignKube")
  /\ OnDisk(disk)

(* StartAPIServer fails, with or without a config file left by             *)
(* createConfigFile, or returns the file's name                            *)
StartAPIServer ==
  /\ Running("start")
  /\ \/ Goto(Returning) /\ OnDisk(disk)
     \/ Goto(Returning) /\ OnDisk(disk \cup {"kube"})
     \/ Goto("assignKube") /\ OnDisk(disk \cup {"kube"})

AssignKubeConfig ==
  \/ /\ Running("assignKube") /\ Goto("assigningKube")
     /\ kubeConfig' = "torn"
     /\ UNCHANGED <<unshared, bundleDir, deleteBundleDir, disk>>
  \/ /\ Running("assigningKube")
     /\ Goto(IF mode = "serve" THEN "block" ELSE "startChild")
     /\ kubeConfig' = "kube"
     /\ served' = TRUE
     /\ UNCHANGED <<config, hand, pending, bundleDir, deleteBundleDir, disk,
                    child, terminal, caught, ended>>

(* runShellCommand and startShellAndWait: the shell starts, or there is    *)
(* none to start                                                           *)
Deferred == IF served THEN "deferKube" ELSE "cleanKube"

StartChild ==
  /\ Running("startChild")
  /\ \/ Goto(Deferred) /\ UNCHANGED child
     \/ Goto(IF mode = "tty" THEN "makeRaw" ELSE "wait") /\ child' = "running"
  /\ UNCHANGED <<config, hand, pending, shared, disk, terminal, served, caught,
                 ended>>

(* term.MakeRaw; its failure is a panic, which runs the deferred calls *)
MakeRaw ==
  /\ Running("makeRaw")
  /\ \/ Goto(Deferred) /\ UNCHANGED terminal
     \/ Goto("wait") /\ terminal' = "raw"
  /\ UNCHANGED <<config, hand, pending, shared, disk, child, served, caught,
                 ended>>

(* Mutant: the terminal is not restored. *)
WaitChildNoRestore ==
  /\ Running("wait") /\ child = "done"
  /\ Goto(Deferred)
  /\ UNCHANGED <<config, hand, pending, shared, disk, child, terminal, served,
                 caught, ended>>

(* Mutant: startShellAndWait also waits for the goroutine that copies the  *)
(* standard input, which does not end with the shell.                      *)
WaitChildAndInput ==
  /\ Running("wait") /\ child = "done" /\ mode # "tty"
  /\ Goto(Deferred)
  /\ terminal' = "cooked"
  /\ UNCHANGED <<config, hand, pending, shared, disk, child, served, caught,
                 ended>>

(* shellExec.Wait returns, and term.Restore is deferred *)
WaitChild ==
  /\ Running("wait") /\ child = "done"
  /\ Goto(Deferred)
  /\ terminal' = "cooked"
  /\ UNCHANGED <<config, hand, pending, shared, disk, child, served, caught,
                 ended>>

(* The deferred calls of the shell: RemoveAll(kubeConfig) once the server  *)
(* runs, cleanup(), RemoveAll(logFile.Name()).                             *)
Remove(name) == disk \ {name}

DeferredCalls ==
  \/ /\ Running("deferKube") /\ Goto("cleanKube")
     /\ OnDisk(Remove("kube"))
  \/ /\ Running("cleanKube") /\ Goto("cleanDir")
     /\ OnDisk(IF kubeConfig # "" THEN Remove("kube") ELSE disk)
  \/ /\ Running("cleanDir") /\ Goto("removeLog")
     /\ OnDisk(IF deleteBundleDir /\ bundleDir = "dir" THEN Remove("dir")
               ELSE IF deleteBundleDir /\ bundleDir = "loc" THEN Remove("user")
               ELSE disk)
  \/ /\ Running("removeLog") /\ Goto("exit")
     /\ OnDisk(Remove("log"))

Exit ==
  /\ Running("exit")
  /\ ended' = "return"
  /\ UNCHANGED <<config, main, hand, pending, shared, disk, child, terminal,
                 served, caught>>

Main ==
  \/ CreateLog \/ SpawnHandler \/ Locate \/ Download \/ AssignLocation
  \/ SetDelete \/ MkdirTemp \/ AssignDir \/ Extract \/ FindClusterData
  \/ StartAPIServer \/ AssignKubeConfig \/ StartChild \/ MakeRaw \/ WaitChild
  \/ DeferredCalls \/ Exit

-----------------------------------------------------------------------------
(* The signal goroutine *)

HandlerAt(step) == ended = "no" /\ hand = step
unhandled == <<config, main, shared, child, terminal, served>>

Notify ==
  /\ HandlerAt("notify") /\ hand' = "waiting"
  /\ UNCHANGED <<unhandled, pending, disk, caught, ended>>

Take ==
  /\ HandlerAt("waiting") /\ pending
  /\ hand' = "kube"
  /\ pending' = FALSE
  /\ caught' = served
  /\ UNCHANGED <<unhandled, disk, ended>>

(* The process faults when it follows a nil pointer of the new length. *)
Crash ==
  /\ ended' = "crash"
  /\ UNCHANGED <<unhandled, hand, pending, disk, caught>>

HandlerKube ==
  /\ HandlerAt("kube")
  /\ \/ kubeConfig = "torn" /\ Crash
     \/ /\ kubeConfig # "torn"
        /\ hand' = "check"
        /\ disk' = IF kubeConfig = "kube" THEN Remove("kube") ELSE disk
        /\ UNCHANGED <<unhandled, pending, caught, ended>>

(* Mutant: os.Exit inside the condition, and the loop goes round. *)
HandlerCheckNoExit ==
  /\ HandlerAt("check")
  /\ hand' = IF deleteBundleDir /\ bundleDir # "" THEN "dir" ELSE "waiting"
  /\ UNCHANGED <<unhandled, pending, disk, caught, ended>>

(* deleteBundleDir && bundleDir != "", and after it bundleDir again *)
HandlerCheck ==
  /\ HandlerAt("check")
  /\ hand' = IF deleteBundleDir /\ bundleDir # "" THEN "dir" ELSE "exit"
  /\ UNCHANGED <<unhandled, pending, disk, caught, ended>>

(* os.RemoveAll(bundleDir): torn, it is a prefix of the location or a path *)
(* nobody made; while ExtractBundle still makes files in the directory, it *)
(* may give up and leave it                                                *)
HandlerDir ==
  /\ HandlerAt("dir")
  /\ hand' = "exit"
  /\ \/ bundleDir = "dir" /\ disk' = Remove("dir")
     \/ bundleDir = "loc" /\ disk' = Remove("user")
     \/ bundleDir \in {"", "torn"} /\ UNCHANGED disk
     \/ main = "unpack" /\ UNCHANGED disk
  /\ UNCHANGED <<unhandled, pending, caught, ended>>

HandlerExit ==
  /\ HandlerAt("exit")
  /\ ended' = "handler"
  /\ UNCHANGED <<unhandled, hand, pending, disk, caught>>

Handler ==
  Notify \/ Take \/ HandlerKube \/ HandlerCheck \/ HandlerDir \/ HandlerExit

-----------------------------------------------------------------------------
(* The environment *)

(* A SIGINT: signal.Notify has been called or the process dies of it. *)
Interrupt ==
  /\ ended = "no"
  /\ \/ /\ hand \in {"none", "notify"}
        /\ ended' = "killed"
        /\ UNCHANGED pending
     \/ /\ hand \notin {"none", "notify"}
        /\ pending' = TRUE
        /\ UNCHANGED ended
  /\ UNCHANGED <<unhandled, hand, disk, caught>>

(* The shell is left, or ends when its terminal does. *)
ChildExits ==
  /\ child = "running"
  /\ child' = "done"
  /\ UNCHANGED <<config, main, hand, pending, shared, disk, terminal, served,
                 caught, ended>>

Next == Main \/ Handler \/ Interrupt \/ ChildExits

Spec     == Init /\ [][Next]_vars
FairSpec == Spec /\ WF_vars(Main) /\ WF_vars(Handler)

-----------------------------------------------------------------------------
(* Properties *)

(* A bundle the user gives as a directory is never deleted, at whatever    *)
(* moment an interrupt arrives: "let's make sure we don't mess up user's   *)
(* real files".                                                            *)
DirectoryKept == location = "dir" => "user" \in disk

(* The same of a bundle given as an archive.                               *)
ArchiveKept == location = "archive" => "user" \in disk

(* Nothing but an interrupt in one window costs the user an archive: the   *)
(* signal goroutine deletes it while RunE is between deleteBundleDir =     *)
(* true and the result of os.MkdirTemp.  No deferred call ever does,       *)
(* whichever step fails, since a failed MkdirTemp empties bundleDir.       *)
ArchiveLostOnlyEarly ==
  [][location = "archive" /\ "user" \in disk /\ "user" \notin disk'
       => hand = "dir" /\ main \in {"mkdirTemp", "assignDir"}]_vars

(* Wherever RunE of the shell fails, its deferred cleanup removes the      *)
(* directory the bundle was extracted to: always for an archive, and for a *)
(* URL once downloadAndExtractBundle has returned it.                      *)
ShellRemovesBundle ==
  /\ ended = "return" /\ mode # "serve"
  /\ location = "archive" \/ deleteBundleDir
  => "dir" \notin disk

(* Once the server runs, an interrupt and the end of the shell both leave  *)
(* neither the kubeconfig nor the extracted bundle behind, also when the   *)
(* interrupt meets the shell's own cleanup.                                *)
CleanAfterServing ==
  /\ served
  /\ ended = "return" \/ (ended = "handler" /\ caught)
  => disk \cap {"kube", "dir"} = {}

(* The shell's command line and the server use the kubeconfig and the      *)
(* bundle as long as the shell runs and nobody interrupts.                 *)
Interrupted == pending \/ hand \in {"kube", "check", "dir", "exit"}

FilesLiveWhileServing ==
  /\ served /\ ended = "no" /\ ~Interrupted
  /\ main \in {"startChild", "makeRaw", "wait", "block"}
  => {"kube", BundleRoot} \subseteq disk

(* A shell that ends by itself gives the terminal back as it was and       *)
(* removes its log.                                                        *)
ShellTidies ==
  ended = "return" => terminal = "cooked" /\ "log" \notin disk

(* An interrupt the program has asked for ends it, whatever it is doing    *)
(* (in serve nothing else does once the server runs), and a shell command  *)
(* ends when its shell does.                                               *)
InterruptEnds == pending ~> ended # "no"
ShellEnds     == (child = "done") ~> ended # "no"
=============================================================================
